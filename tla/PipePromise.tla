----------------------------- MODULE PipePromise -----------------------------
(***************************************************************************)
(* What a Pipe promises (doc/api.tex, sections on Pipe): the output of     *)
(* each message is collected in a slot of its own, numbered upwards from   *)
(* zero; what is written reaches every slot that the message has opened,   *)
(* once and in order, by the end of the message at the latest; a slot is   *)
(* emptied by reading only.  A call that throws may have done a part of    *)
(* its work; after an end of the message that throws, a part of what was   *)
(* owed then may be missing, or come twice.                                *)
(***************************************************************************)
EXTENDS Naturals, Sequences, SequencesExt

CONSTANTS Items, MaxOpened

VARIABLES
  delivered,   \* what can be read now, by message
  owed,        \* what has been written and cannot be read yet, by message
  open,        \* the messages being written
  written      \* what write() has accepted so far

vars == <<delivered, owed, open, written>>

Init == delivered = <<>> /\ owed = <<>> /\ open = {} /\ written = <<>>

Output(m) == delivered[m] \o owed[m]
(* Write() may move what is owed to what is delivered, and loses nothing.  *)
Receives(m, s) == delivered'[m] \o owed'[m] = Output(m) \o s
SameMessages == DOMAIN delivered' = DOMAIN delivered /\ DOMAIN owed' = DOMAIN owed
Closed(m) == m \notin open /\ delivered'[m] = delivered[m] /\ owed'[m] = <<>>

(* A message for each of k outputs; none is open if start_msg throws.      *)
Begin(k) ==
  /\ open = {}
  /\ delivered' = delivered \o [i \in 1 .. k |-> <<>>]
  /\ owed' = owed \o [i \in 1 .. k |-> <<>>]
  /\ open' \in {{}, Len(delivered) + 1 .. Len(delivered) + k}
  /\ UNCHANGED written

Write(x) ==
  /\ written' = Append(written, x)
  /\ SameMessages
  /\ \A m \in DOMAIN delivered : Closed(m) \/ (m \in open /\ Receives(m, <<x>>))
  /\ UNCHANGED open

(* A write that throws: of what is written each open message keeps all, or *)
(* all but the last, and what could be read stays.                         *)
Fail ==
  /\ open # {}
  /\ SameMessages
  /\ \E x \in Items : \A m \in DOMAIN delivered :
       \/ Closed(m)
       \/ /\ m \in open
          /\ IsPrefix(delivered[m], delivered'[m])
          /\ delivered'[m] \o owed'[m] \in {Output(m), Output(m) \o <<x>>}
  /\ UNCHANGED <<open, written>>

(* The end of a message that throws: what could be read stays, and of what *)
(* is owed a beginning has gone on, and an end will.  Between these some   *)
(* may be lost; where they overlap, it comes twice if the end is repeated. *)
EndFails ==
  /\ open # {}
  /\ SameMessages
  /\ \A m \in DOMAIN delivered :
       \/ Closed(m)
       \/ /\ m \in open
          /\ IsPrefix(delivered[m], delivered'[m])
          /\ \E j, k \in 0 .. Len(owed[m]) :
               delivered'[m] \o owed'[m] =
                 delivered[m] \o (SubSeq(owed[m], 1, j) \o SubSeq(owed[m], k + 1, Len(owed[m])))
  /\ UNCHANGED <<open, written>>

End ==
  /\ open # {}
  /\ delivered' = [m \in DOMAIN delivered |-> Output(m)]
  /\ owed' = [m \in DOMAIN delivered |-> <<>>]
  /\ open' = {} /\ UNCHANGED written

Read(m, n) ==
  /\ delivered' = [delivered EXCEPT ![m] = SubSeq(@, n + 1, Len(@))]
  /\ UNCHANGED <<owed, open, written>>

Next ==
  \/ \E k \in 0 .. MaxOpened : Begin(k)
  \/ \E x \in Items : Write(x)
  \/ Fail \/ EndFails \/ End
  \/ \E m \in DOMAIN delivered : \E n \in 1 .. Len(delivered[m]) : Read(m, n)

Spec == Init /\ [][Next]_vars
=============================================================================
