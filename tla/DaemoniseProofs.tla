-------------------------- MODULE DaemoniseProofs ---------------------------
(***************************************************************************)
(* Theorems about Daemonise, for any number of launches: at most one       *)
(* daemon, and the pid file names it.                                      *)
(***************************************************************************)
EXTENDS Daemonise, TLAPS

Before(i) == parent[i] \in {"fork", "fopen", "fclose", "exit"}
Alive(i) == child[i] \in {"setsid", "close", "main_loop"}

\* Whoever is past the lock holds it, and has a descriptor that keeps it.
HolderInv ==
  \A i \in Launches :
    /\ Before(i) => lock = i /\ i \in parent_fd
    /\ Alive(i) => lock = i /\ i \in child_fd

\* The pid is in the file from fclose until the child is gone.
FileInv ==
  \A i \in Launches :
    /\ parent[i] = "exit" => pid_file = i
    /\ parent[i] = "success" /\ Alive(i) => pid_file = i

IInv == TypeOK /\ HolderInv /\ FileInv

-----------------------------------------------------------------------------
\* Every step keeps the types.
LEMMA TypeStep == ASSUME TypeOK, [Next]_vars PROVE TypeOK'
<1> USE DEF TypeOK, Ended
<1>1. CASE UNCHANGED vars
  BY <1>1 DEF vars
<1>2. ASSUME NEW i \in Launches, Parent(i)
      PROVE  TypeOK'
  BY <1>2 DEF Parent, Launch, Open, Flock, Fork, ForkFailed, Fopen, FopenFailed,
              Fclose, ExitSuccess, ParentGoes, Descriptors
<1>3. ASSUME NEW i \in Launches, Child(i) \/ KillParent(i) \/ KillChild(i)
      PROVE  TypeOK'
  BY <1>3 DEF Child, Setsid, SetsidFailed, CloseStdio, MainLoopEnds, KillParent,
              KillChild, ChildGoes, Descriptors
<1> QED BY <1>1, <1>2, <1>3 DEF Next

\* The lock passes from launch to launch only when nobody is past it.
LEMMA HolderStep ==
  ASSUME NoStdin = {}, TypeOK, HolderInv, [Next]_vars PROVE HolderInv'
<1> USE DaemoniseAssumption DEF TypeOK, Ended, HolderInv, Before, Alive
<1>1. CASE UNCHANGED vars
  BY <1>1 DEF vars
<1>2. ASSUME NEW i \in Launches, Launch(i) \/ Open(i) \/ Fopen(i) \/ Fclose(i)
      PROVE  HolderInv'
  BY <1>2 DEF Launch, Open, Fopen, Fclose, ParentGoes
<1>3. ASSUME NEW i \in Launches, Flock(i)
      PROVE  HolderInv'
  BY <1>3 DEF Flock, ParentGoes, Descriptors
<1>4. ASSUME NEW i \in Launches, Fork(i)
      PROVE  HolderInv'
  BY <1>4 DEF Fork, ParentGoes
<1>5. ASSUME NEW i \in Launches, ForkFailed(i) \/ FopenFailed(i) \/ ExitSuccess(i)
      PROVE  HolderInv'
  BY <1>5 DEF ForkFailed, FopenFailed, ExitSuccess, ParentGoes, Descriptors
<1>6. ASSUME NEW i \in Launches,
             Setsid(i) \/ SetsidFailed(i) \/ CloseStdio(i) \/ MainLoopEnds(i)
      PROVE  HolderInv'
  BY <1>6 DEF Setsid, SetsidFailed, CloseStdio, MainLoopEnds, ChildGoes, Descriptors
<1>7. ASSUME NEW i \in Launches, KillParent(i) \/ KillChild(i)
      PROVE  HolderInv'
  BY <1>7 DEF KillParent, KillChild, Descriptors
<1> QED BY <1>1, <1>2, <1>3, <1>4, <1>5, <1>6, <1>7 DEF Next, Parent, Child

\* Only the holder of the lock writes the file.
LEMMA FileStep ==
  ASSUME NoStdin = {}, IInv, [Next]_vars PROVE FileInv'
<1> USE DaemoniseAssumption DEF IInv, TypeOK, Ended, HolderInv, FileInv, Before, Alive
<1>1. CASE UNCHANGED vars
  BY <1>1 DEF vars
<1>2. ASSUME NEW i \in Launches, Launch(i) \/ Open(i) \/ Flock(i) \/ Fork(i)
      PROVE  FileInv'
  BY <1>2 DEF Launch, Open, Flock, Fork, ParentGoes, Descriptors
<1>3. ASSUME NEW i \in Launches, Fopen(i) \/ Fclose(i)
      PROVE  FileInv'
  BY <1>3 DEF Fopen, Fclose, ParentGoes
<1>4. ASSUME NEW i \in Launches, ForkFailed(i) \/ FopenFailed(i) \/ ExitSuccess(i)
      PROVE  FileInv'
  BY <1>4 DEF ForkFailed, FopenFailed, ExitSuccess, ParentGoes, Descriptors
<1>5. ASSUME NEW i \in Launches,
             Setsid(i) \/ SetsidFailed(i) \/ CloseStdio(i) \/ MainLoopEnds(i)
      PROVE  FileInv'
  BY <1>5 DEF Setsid, SetsidFailed, CloseStdio, MainLoopEnds, ChildGoes, Descriptors
<1>6. ASSUME NEW i \in Launches, KillParent(i) \/ KillChild(i)
      PROVE  FileInv'
  BY <1>6 DEF KillParent, KillChild, Descriptors
<1> QED BY <1>1, <1>2, <1>3, <1>4, <1>5, <1>6 DEF Next, Parent, Child

\* Every variable of Daemonise keeps its type.
THEOREM DaemoniseTypeCorrect == Spec => []TypeOK
<1>1. Init => TypeOK
  BY DEF Init, TypeOK, Ended
<1>2. TypeOK /\ [Next]_vars => TypeOK'
  BY TypeStep
<1> QED BY <1>1, <1>2, PTL DEF Spec

\* The inductive invariant.
LEMMA Inductive == ASSUME NoStdin = {} PROVE Spec => []IInv
<1>1. Init => IInv
  BY DEF Init, IInv, TypeOK, HolderInv, FileInv, Before, Alive, Ended
<1>2. IInv /\ [Next]_vars => IInv'
  BY TypeStep, HolderStep, FileStep DEF IInv
<1> QED BY <1>1, <1>2, PTL DEF Spec

\* "this is the first instance" (RotaryEncoder.c:339): for any set of launches,
\* failures and kills, no two daemons are in main_loop at the same time.
THEOREM OneDaemon == Spec => []FirstInstance
<1>1. CASE NoStdin = {}
  <2>1. IInv => FirstInstance
    BY <1>1 DEF IInv, HolderInv, Alive, FirstInstance
  <2>2. Spec => []IInv
    BY <1>1, Inductive
  <2> QED BY <2>1, <2>2, PTL
<1>2. CASE NoStdin # {}
  <2>1. FirstInstance
    BY <1>2 DEF FirstInstance
  <2> QED BY <2>1, PTL
<1> QED BY <1>1, <1>2

\* Once its parent has succeeded, the pid file names the daemon while it runs
\* (RotaryEncoder.c:308-321).
THEOREM PidFileIsRight == Spec => []PidFileNamesDaemon
<1>1. CASE NoStdin = {}
  <2>1. IInv => PidFileNamesDaemon
    BY <1>1 DEF IInv, FileInv, Alive, PidFileNamesDaemon
  <2>2. Spec => []IInv
    BY <1>1, Inductive
  <2> QED BY <2>1, <2>2, PTL
<1>2. CASE NoStdin # {}
  <2>1. PidFileNamesDaemon
    BY <1>2 DEF PidFileNamesDaemon
  <2> QED BY <2>1, PTL
<1> QED BY <1>1, <1>2
=============================================================================
