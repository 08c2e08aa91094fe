------------------------------ MODULE WriterLock ------------------------------
(***************************************************************************)
(* The writer-lock file of SqliteOrderPathStore (crates/broker-core/src/   *)
(* order_path.rs) and the processes that open the store.  The file is      *)
(* created with create_new and removed by name, whoever created it: by the *)
(* error paths of open and by Drop.                                        *)
(*                                                                         *)
(* An error after the store value exists (initialize_and_load, the second  *)
(* permission step) removes the file twice: once explicitly and once more  *)
(* when the value is dropped on return.                                    *)
(***************************************************************************)
CONSTANTS Procs, NoProc

VARIABLES file,    \* the process whose metadata the lock file holds, or NoProc
          pc       \* where each process is in open

vars == <<file, pc>>

Init ==
    /\ file = NoProc
    /\ pc = [p \in Procs |-> "out"]

Goto(p, l) == pc' = [pc EXCEPT ![p] = l]

RemoveFile == file' = NoProc

\* create_sqlite_writer_lock: create_new refuses an existing file.
CreateLock(p) ==
    /\ pc[p] = "out" /\ file = NoProc
    /\ file' = p
    /\ Goto(p, "creating")

\* Writing, syncing or restricting the lock file fails.
CreateFails(p) == pc[p] = "creating" /\ RemoveFile /\ Goto(p, "out")

LockWritten(p) == pc[p] = "creating" /\ Goto(p, "locked") /\ UNCHANGED file

\* Connection::open or the first permission step fails: no store value yet.
ConnectFails(p) == pc[p] = "locked" /\ RemoveFile /\ Goto(p, "out")

\* initialize_and_load or the second permission step fails.
InitializeFails(p) == pc[p] = "locked" /\ RemoveFile /\ Goto(p, "dropping")

Opened(p) == pc[p] = "locked" /\ Goto(p, "open") /\ UNCHANGED file

\* Drop for SqliteOrderPathStore, at the end of a failed open or of a session.
Drop(p) == pc[p] \in {"dropping", "open"} /\ RemoveFile /\ Goto(p, "out")

\* The process dies: no destructor runs.
Die(p) == pc[p] # "out" /\ Goto(p, "out") /\ UNCHANGED file

\* The operator removes the file of a process that is gone.
ClearStale == file # NoProc /\ pc[file] = "out" /\ RemoveFile /\ UNCHANGED pc

Next ==
    \/ \E p \in Procs :
          \/ CreateLock(p) \/ CreateFails(p) \/ LockWritten(p) \/ ConnectFails(p)
          \/ InitializeFails(p) \/ Opened(p) \/ Drop(p) \/ Die(p)
    \/ ClearStale

Spec == Init /\ [][Next]_vars

------------------------------------------------------------------------------

\* At any time at most one process has the order-path store open for writing.
SingleWriter == \A p, q \in Procs : (pc[p] = "open" /\ pc[q] = "open") => p = q
==============================================================================
