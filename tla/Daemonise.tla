----------------------------- MODULE Daemonise ------------------------------
(***************************************************************************)
(* How the program becomes a daemon: the end of main and daemonise         *)
(* (RotaryEncoder.c), for several launches of it at the same time, with    *)
(* flock(2) and the pid file as the kernel keeps them.                     *)
(*                                                                         *)
(* A launch is a process, the parent, that may fork one child.  The lock   *)
(* belongs to the file description the parent opened: the child shares it, *)
(* and it is gone when the last of their descriptors is closed.            *)
(***************************************************************************)
CONSTANTS
  Launches,    \* times the program is started (bound)
  NULL,
  NoStdin,     \* launches that start with descriptor 0, 1 or 2 closed
  OpenFails,   \* open of the pid file may fail
  ForkFails,   \* fork and setsid may fail
  FopenFails,  \* fopen of the pid file in the parent may fail
  Killable     \* processes may be killed at any moment

ASSUME DaemoniseAssumption ==
  /\ NULL \notin Launches
  /\ NoStdin \subseteq Launches
  /\ {OpenFails, ForkFails, FopenFails, Killable} \subseteq BOOLEAN

VARIABLES
  parent,      \* where the first process of each launch is
  child,       \* where its child is
  parent_fd,   \* launches whose parent has its descriptor of the pid file
  child_fd,    \* launches whose child has it
  lock,        \* the launch whose description holds the flock
  pid_file     \* what the file says: NULL for nothing, or whose child

vars == <<parent, child, parent_fd, child_fd, lock, pid_file>>

Ended == {"success", "failure", "dead"}

Init ==
  /\ parent = [i \in Launches |-> "none"]
  /\ child = [i \in Launches |-> "none"]
  /\ parent_fd = {} /\ child_fd = {}
  /\ lock = NULL /\ pid_file = NULL

-----------------------------------------------------------------------------
(* The processes. *)

ParentGoes(i, here, there) ==
  parent[i] = here /\ parent' = [parent EXCEPT ![i] = there]

ChildGoes(i, here, there) ==
  child[i] = here /\ child' = [child EXCEPT ![i] = there]

\* The kernel drops the lock with the last descriptor of its description.
Descriptors(p, c) ==
  /\ parent_fd' = p /\ child_fd' = c
  /\ lock' = IF lock \in p \cup c THEN lock ELSE NULL

\* main with -d, as root.
Launch(i) ==
  /\ ParentGoes(i, "none", "open")
  /\ UNCHANGED <<child, parent_fd, child_fd, lock, pid_file>>

\* Mutant: the file is opened with O_TRUNC.
Open_Truncates(i) ==
  /\ ParentGoes(i, "open", "flock")
  /\ parent_fd' = parent_fd \cup {i}
  /\ pid_file' = NULL
  /\ UNCHANGED <<child, child_fd, lock>>

\* open(O_CREAT | O_RDWR); its result is not looked at.
Open(i) ==
  /\ ParentGoes(i, "open", "flock")
  /\ \/ parent_fd' = parent_fd \cup {i}
     \/ OpenFails /\ UNCHANGED parent_fd
  /\ UNCHANGED <<child, child_fd, lock, pid_file>>

\* flock(LOCK_EX | LOCK_NB).  Whatever made it fail, the launch is refused.
Flock(i) ==
  \/ /\ i \in parent_fd /\ lock = NULL
     /\ ParentGoes(i, "flock", "fork")
     /\ lock' = i
     /\ UNCHANGED <<child, parent_fd, child_fd, pid_file>>
  \/ /\ i \notin parent_fd \/ lock # NULL
     /\ ParentGoes(i, "flock", "failure")
     /\ Descriptors(parent_fd \ {i}, child_fd)
     /\ UNCHANGED <<child, pid_file>>

Fork(i) ==
  /\ ParentGoes(i, "fork", "fopen")
  /\ child' = [child EXCEPT ![i] = "setsid"]
  /\ child_fd' = child_fd \cup {i}
  /\ UNCHANGED <<parent_fd, lock, pid_file>>

ForkFailed(i) ==
  /\ ForkFails /\ ParentGoes(i, "fork", "failure")
  /\ Descriptors(parent_fd \ {i}, child_fd)
  /\ UNCHANGED <<child, pid_file>>

\* fopen(pidFile, "w") empties the file at once; what fprintf writes reaches it
\* in fclose.
Fopen(i) ==
  /\ ParentGoes(i, "fopen", "fclose")
  /\ pid_file' = NULL
  /\ UNCHANGED <<child, parent_fd, child_fd, lock>>

\* A failed fopen is logged, and then fclose(NULL) is called.
FopenFailed(i) ==
  /\ FopenFails /\ ParentGoes(i, "fopen", "dead")
  /\ Descriptors(parent_fd \ {i}, child_fd)
  /\ UNCHANGED <<child, pid_file>>

\* Mutant: the parent writes its own pid.
Fclose_OwnPid(i) ==
  /\ ParentGoes(i, "fclose", "exit")
  /\ pid_file' = <<"parent", i>>
  /\ UNCHANGED <<child, parent_fd, child_fd, lock>>

Fclose(i) ==
  /\ ParentGoes(i, "fclose", "exit")
  /\ pid_file' = i
  /\ UNCHANGED <<child, parent_fd, child_fd, lock>>

ExitSuccess(i) ==
  /\ ParentGoes(i, "exit", "success")
  /\ Descriptors(parent_fd \ {i}, child_fd)
  /\ UNCHANGED <<child, pid_file>>

Setsid(i) ==
  /\ ChildGoes(i, "setsid", "close")
  /\ UNCHANGED <<parent, parent_fd, child_fd, lock, pid_file>>

SetsidFailed(i) ==
  /\ ForkFails /\ ChildGoes(i, "setsid", "failure")
  /\ Descriptors(parent_fd, child_fd \ {i})
  /\ UNCHANGED <<parent, pid_file>>

\* Mutant: the child closes its descriptor of the pid file too.
CloseStdio_PidFileToo(i) ==
  /\ ChildGoes(i, "close", "main_loop")
  /\ Descriptors(parent_fd, child_fd \ {i})
  /\ UNCHANGED <<parent, pid_file>>

\* close(0), close(1), close(2), and main_function: open took the lowest free
\* descriptor, one of these when the launch had one of them closed.
CloseStdio(i) ==
  /\ ChildGoes(i, "close", "main_loop")
  /\ Descriptors(parent_fd, IF i \in NoStdin THEN child_fd \ {i} ELSE child_fd)
  /\ UNCHANGED <<parent, pid_file>>

\* main_loop returns or exits: a signal, no GPIO, MQTT given up.
MainLoopEnds(i) ==
  /\ ChildGoes(i, "main_loop", "success")
  /\ Descriptors(parent_fd, child_fd \ {i})
  /\ UNCHANGED <<parent, pid_file>>

KillParent(i) ==
  /\ Killable /\ parent[i] \notin Ended \cup {"none"}
  /\ parent' = [parent EXCEPT ![i] = "dead"]
  /\ Descriptors(parent_fd \ {i}, child_fd)
  /\ UNCHANGED <<child, pid_file>>

KillChild(i) ==
  /\ Killable /\ child[i] \notin Ended \cup {"none"}
  /\ child' = [child EXCEPT ![i] = "dead"]
  /\ Descriptors(parent_fd, child_fd \ {i})
  /\ UNCHANGED <<parent, pid_file>>

Parent(i) ==
  \/ Launch(i) \/ Open(i) \/ Flock(i) \/ Fork(i) \/ ForkFailed(i)
  \/ Fopen(i) \/ FopenFailed(i) \/ Fclose(i) \/ ExitSuccess(i)

Child(i) ==
  Setsid(i) \/ SetsidFailed(i) \/ CloseStdio(i) \/ MainLoopEnds(i)

Next == \E i \in Launches : Parent(i) \/ Child(i) \/ KillParent(i) \/ KillChild(i)

Spec == Init /\ [][Next]_vars

-----------------------------------------------------------------------------
\* Type invariant.
TypeOK ==
  /\ parent \in [Launches -> {"none", "open", "flock", "fork", "fopen", "fclose", "exit"}
                               \cup Ended]
  /\ child \in [Launches -> {"none", "setsid", "close", "main_loop"} \cup Ended]
  /\ parent_fd \subseteq Launches /\ child_fd \subseteq Launches
  /\ lock \in Launches \cup {NULL} /\ pid_file \in Launches \cup {NULL}

\* "this is the first instance" (RotaryEncoder.c:339): a daemon in main_loop is
\* alone there, whatever fails or is killed, provided that no launch was made
\* with one of its standard descriptors closed.
FirstInstance ==
  NoStdin = {} =>
    \A i, j \in Launches : child[i] = "main_loop" /\ child[j] = "main_loop" => i = j

\* A service manager that reads the pid file when the parent has succeeded finds
\* the daemon's pid there for as long as the daemon runs, although the lock is
\* taken by one process and the file written by another (RotaryEncoder.c:288-320).
PidFileNamesDaemon ==
  NoStdin = {} =>
    \A i \in Launches :
      parent[i] = "success" /\ child[i] = "main_loop" => pid_file = i

\* "this is the first instance" (RotaryEncoder.c:339), however it was launched.
AlwaysFirstInstance ==
  \A i, j \in Launches : child[i] = "main_loop" /\ child[j] = "main_loop" => i = j
=============================================================================
