----------------------------- MODULE UnixCommand -----------------------------
(***************************************************************************)
(* Unix_EntropySource::poll and the DataSource_Command it runs programs    *)
(* with: one program after another is forked, its output is read through a *)
(* pipe until it ends or stays silent for MAX_BLOCK_USECS, and then it is  *)
(* asked to stop, killed and reaped, in that order and as far as needed.   *)
(*                                                                         *)
(* Every system call of the poll is a step, because the program, which is  *)
(* another process, and the kernel go on between any two of them.          *)
(***************************************************************************)
EXTENDS Naturals

CONSTANTS
  NumPrograms,  \* sources.size()
  StatBits,     \* bits estimated for stat, getpid and getrusage together
  ChunkBits     \* bits a read's worth of output may be estimated at

ASSUME NumberAssumption ==
  /\ NumPrograms \in Nat /\ StatBits \in Nat
  /\ ChunkBits \subseteq Nat

VARIABLES
  host,    \* what the program linked with Botan does about SIGCHLD
  step,    \* where the poll is
  j,       \* index of the current program
  pipe,    \* DataSource_Command::pipe is not null
  fds,     \* ends of the pipe that this process has open
  child,   \* who has the pid in pipe->pid
  queued,  \* there is output to be read in the pipe
  killed,  \* SIGKILL has been sent
  struck,  \* a signal has reached a process that is not the child (ghost)
  accum    \* the Entropy_Accumulator

process == <<child, queued>>
commandVars == <<host, step, j, pipe, fds, process, killed, struck>>
vars == <<commandVars, accum>>

Steps == {"idle", "construct", "read", "probe", "terminate", "probe again", "kill",
          "reap", "close", "next"}

TypeOK ==
  /\ host \in {"default", "ignores"}
  /\ step \in Steps
  /\ j \in Nat
  /\ pipe \in BOOLEAN /\ killed \in BOOLEAN /\ struck \in BOOLEAN
  /\ fds \in {{}, {"read"}}
  /\ child \in {"none", "running", "zombie", "gone", "stranger"}
  /\ queued \in BOOLEAN
  /\ accum \in [goal : Nat, bits : Nat]

NewAccumulator(goal) == [goal |-> goal, bits |-> 0]
GoalAchieved(a) == a.bits >= a.goal
(* Nobody asks by how much the goal is exceeded.                           *)
Added(a, bits) == [a EXCEPT !.bits = IF @ + bits < a.goal THEN @ + bits ELSE a.goal]

CommandInit ==
  /\ host \in {"default", "ignores"}
  /\ step = "idle" /\ j = 0
  /\ pipe = FALSE /\ fds = {}
  /\ child = "none" /\ queued = FALSE
  /\ killed = FALSE /\ struck = FALSE

-----------------------------------------------------------------------------
(* The poll.                                                               *)

(* The statistics are added first, and always.                             *)
StartPoll ==
  /\ step = "idle"
  /\ accum' = Added(accum, StatBits)
  /\ j' = 0
  /\ step' = IF NumPrograms = 0 THEN "idle" ELSE "construct"
  /\ UNCHANGED <<host, pipe, fds, process, killed, struck>>

(* The program is not there, or pipe() or fork() fails: the source is at   *)
(* its end from the beginning, and nothing stays open.                     *)
CreatePipeFails ==
  /\ step = "construct"
  /\ step' = "next"
  /\ UNCHANGED <<host, j, pipe, fds, process, killed, struck, accum>>

CreatePipe ==
  /\ step = "construct"
  /\ pipe' = TRUE /\ fds' = {"read"}
  /\ child' = "running" /\ queued' = FALSE /\ killed' = FALSE
  /\ step' = "read"
  /\ UNCHANGED <<host, j, struck, accum>>

Read ==
  /\ step = "read" /\ queued
  /\ queued' = FALSE
  /\ \E b \in ChunkBits : accum' = Added(accum, b)
  /\ UNCHANGED <<host, step, j, pipe, fds, child, killed, struck>>

(* faulty variant: a time-out is not taken for the end                     *)
ReadStopsAtEnd ==
  /\ child # "running"
  /\ step = "read"
  /\ step' = "probe"
  /\ UNCHANGED <<host, j, pipe, fds, process, killed, struck, accum>>

(* End of file, the time-out of select, or a signal that interrupts it.    *)
ReadStops ==
  /\ step = "read"
  /\ step' = "probe"
  /\ UNCHANGED <<host, j, pipe, fds, process, killed, struck, accum>>

(* faulty variant: the answer is not looked at                             *)
WaitpidUnheeded(running, otherwise) ==
  /\ step' = running
  /\ child' = IF child = "zombie" THEN "gone" ELSE child

(* waitpid with WNOHANG: 0 for a child that runs, its pid for one that has *)
(* exited and is hereby gone, -1 for a pid that is no child of ours.       *)
Waitpid(running, otherwise) ==
  /\ step' = IF child = "running" THEN running ELSE otherwise
  /\ child' = IF child = "zombie" THEN "gone" ELSE child

Probe ==
  /\ step = "probe"
  /\ Waitpid("terminate", "close")
  /\ UNCHANGED <<host, j, pipe, fds, queued, killed, struck, accum>>

(* SIGTERM, which the program may ignore, and the wait of KILL_WAIT.       *)
Terminate ==
  /\ step = "terminate"
  /\ struck' = (struck \/ child = "stranger")
  /\ step' = "probe again"
  /\ UNCHANGED <<host, j, pipe, fds, process, killed, accum>>

ProbeAgain ==
  /\ step = "probe again"
  /\ Waitpid("kill", "close")
  /\ UNCHANGED <<host, j, pipe, fds, queued, killed, struck, accum>>

(* faulty variant: the child is killed and forgotten                       *)
KillOnly ==
  /\ step = "kill"
  /\ struck' = (struck \/ child = "stranger")
  /\ killed' = TRUE
  /\ step' = "close"
  /\ UNCHANGED <<host, j, pipe, fds, process, accum>>

Kill ==
  /\ step = "kill"
  /\ struck' = (struck \/ child = "stranger")
  /\ killed' = TRUE
  /\ step' = "reap"
  /\ UNCHANGED <<host, j, pipe, fds, process, accum>>

(* waitpid without WNOHANG blocks while the child runs.                    *)
Reap ==
  /\ step = "reap" /\ child = "zombie"
  /\ child' = "gone"
  /\ step' = "close"
  /\ UNCHANGED <<host, j, pipe, fds, queued, killed, struck, accum>>

(* It fails for a pid that is no child of ours, and is called again.       *)
ReapFails ==
  /\ step = "reap" /\ child \in {"gone", "stranger"}
  /\ UNCHANGED vars

(* With the pipe the pid and the output are forgotten.                     *)
Close ==
  /\ step = "close"
  /\ fds' = {} /\ pipe' = FALSE
  /\ child' = IF child \in {"gone", "stranger"} THEN "none" ELSE child
  /\ queued' = FALSE /\ killed' = FALSE
  /\ step' = "next"
  /\ UNCHANGED <<host, j, struck, accum>>

NextProgram ==
  /\ step = "next"
  /\ IF GoalAchieved(accum) \/ j + 1 = NumPrograms
     THEN step' = "idle" /\ j' = 0
     ELSE step' = "construct" /\ j' = j + 1
  /\ UNCHANGED <<host, pipe, fds, process, killed, struck, accum>>

Poll ==
  \/ CreatePipeFails \/ CreatePipe \/ Read \/ ReadStops \/ Probe \/ Terminate
  \/ ProbeAgain \/ Kill \/ Reap \/ ReapFails \/ Close \/ NextProgram

-----------------------------------------------------------------------------
(* The program and the kernel.                                             *)

(* A program may write as often as it likes, for ever.                     *)
ChildWrites ==
  /\ child = "running"
  /\ queued' = TRUE
  /\ UNCHANGED <<host, step, j, pipe, fds, child, killed, struck, accum>>

(* A child whose parent ignores SIGCHLD leaves no zombie.                  *)
ChildExits ==
  /\ child = "running"
  /\ child' = IF host = "ignores" THEN "gone" ELSE "zombie"
  /\ UNCHANGED <<host, step, j, pipe, fds, queued, killed, struck, accum>>

(* The kernel gives the pid, which nobody holds any more, to another.      *)
PidIsReused ==
  /\ child = "gone"
  /\ child' = "stranger"
  /\ UNCHANGED <<host, step, j, pipe, fds, queued, killed, struck, accum>>

System == ChildWrites \/ ChildExits \/ PidIsReused

(* Between polls the accumulator is new, or filled by other sources.       *)
Elsewhere ==
  /\ step = "idle"
  /\ accum' \in [goal : Nat, bits : Nat]
  /\ UNCHANGED commandVars

Init == CommandInit /\ accum \in [goal : Nat, bits : Nat]
Next == StartPoll \/ Poll \/ System \/ Elsewhere
Spec == Init /\ [][Next]_vars

-----------------------------------------------------------------------------
(* Properties.                                                             *)

WithPipe == {"read", "probe", "terminate", "probe again", "kill", "reap", "close"}
Watched == WithPipe \ {"close"}

(* Whichever way a command has ended, no process of ours, running or dead, *)
(* and no descriptor is left over from it (shutdown_pipe).                 *)
NoChildLeftBehind ==
  step \notin WithPipe => child \notin {"running", "zombie"} /\ fds = {} /\ ~pipe

(* The pid that is signalled is still the child's: it is reaped only after *)
(* the last signal. A host that ignores SIGCHLD gives the pid away at the  *)
(* child's exit; that is outside of the code's reach.                      *)
SignalsOnlyItsOwnChild == host = "default" => ~struck

(* The inductive invariant of the proofs: j is an index, the pipe is there  *)
(* exactly while a command is read or shut down, and until it is reaped    *)
(* the child is a process of ours.                                         *)
ChildInv ==
  /\ step # "idle" => j < NumPrograms
  /\ pipe <=> step \in WithPipe
  /\ fds = IF pipe THEN {"read"} ELSE {}
  /\ step \notin Watched => child \in {"none", "gone", "stranger"}
  /\ host = "default" /\ step \in Watched => child \in {"running", "zombie"}
  /\ host = "default" => ~struck

IInv == TypeOK /\ ChildInv
=============================================================================
