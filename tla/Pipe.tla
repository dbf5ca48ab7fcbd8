-------------------------------- MODULE Pipe --------------------------------
(***************************************************************************)
(* Pipe, Filter and Output_Buffers (filters): a tree of filters that data  *)
(* is written through, message by message, into queues that are read       *)
(* independently.  A Pipe is used by one thread; what makes it hard is     *)
(* that the tree is changed between messages, that output is flushed at    *)
(* the end of a message, and that any filter may throw in any call.        *)
(*                                                                         *)
(* A filter either sends on what it gets ("stream", and the chains and     *)
(* forks), or collects it until the message ends ("hold").  What it does   *)
(* to the bytes is left out: the data that a holding filter sends stands   *)
(* for what it makes of it.  The queues are numbered in the order they are *)
(* made.  A call that a test of the code refuses changes nothing and is    *)
(* left out; so are the calls that only look.                              *)
(***************************************************************************)
EXTENDS Naturals, Sequences, FiniteSets, SequencesExt

CONSTANTS
  Filters,      \* filter objects, Null_Filter included
  Built,        \* those the program makes, in the order it makes them
  Kind,         \* "stream", "hold", "chain" or "fork"
  Kids,         \* the constructor arguments of chains and forks
  NullFilter,   \* the pipe's own Null_Filter
  Null,         \* the null pointer
  Items,        \* data
  MaxQueues,    \* bound: queues made in the life of the pipe
  MaxWrites,    \* bound: writes in the life of the pipe
  MaxThrows,    \* bound: calls that throw half way
  ReadSizes     \* lengths given to read()

Queues == 0 .. MaxQueues - 1
Members(f) == IF Kind[f] \in {"chain", "fork"} THEN Kids[f] ELSE <<>>
ASSUME FiltersAssumption ==
  /\ IsFiniteSet(Filters) /\ NullFilter \in Filters /\ Kind[NullFilter] = "stream"
  /\ Null \notin Filters \cup Queues /\ Filters \cap Queues = {}
  /\ \A f \in Filters : Members(f) \in Seq(Filters \cup {Null})
(* Each filter is made after those it is given, and given only once; a     *)
(* chain skips null pointers, and a fork those at the end.                 *)
ASSUME BuiltAssumption ==
  /\ Built \in Seq(Filters) /\ ToSet(Built) = Filters \ {NullFilter} /\ IsInjective(Built)
  /\ \A i \in DOMAIN Built : \A x \in ToSet(Members(Built[i])) \ {Null} :
       \E h \in 1 .. i - 1 : Built[h] = x
  /\ \A f, g \in Filters : \A j \in DOMAIN Members(f), k \in DOMAIN Members(g) :
       Members(f)[j] = Members(g)[k] /\ Members(f)[j] # Null => f = g /\ j = k
ASSUME KindsAssumption ==
  \A f \in Filters :
    /\ Kind[f] = "chain" => Null \notin ToSet(Kids[f])
    /\ Kind[f] = "fork" => Kids[f] # <<>> /\ Kids[f][Len(Kids[f])] # Null
ASSUME BoundsAssumption == /\ MaxQueues \in Nat /\ MaxWrites \in Nat /\ MaxThrows \in Nat
                            /\ ReadSizes \subseteq Nat \ {0} /\ Items # {}

VARIABLES
  next,         \* what each port of a filter leads to
  alive,        \* filters not deleted
  owned,        \* filters given to the pipe
  pipe,         \* the first filter
  inside_msg,
  buffers, offset,   \* Output_Buffers: a deque of queues, and how many are gone
  default_read,
  store,        \* what each queue, and each holding filter, contains
  made,         \* queues made so far
  failed,       \* the last start_msg has thrown (ghost)
  written,      \* what write() has accepted (ghost)
  throws,       \* calls that have thrown half way (ghost)
  before,       \* the pipe before the last prepend(), or nothing (ghost)
  wild          \* a filter was attached to, or popped as, a queue (ghost)

tree == <<next, alive, owned, pipe>>
outputs == <<buffers, offset>>
vars == <<tree, inside_msg, outputs, default_read, store, made, failed, written, throws, before, wild>>

-----------------------------------------------------------------------------
(* The tree.                                                               *)

IsFilter(x) == x \in Filters
(* The port of a filter that nothing is attached to, or that is deleted.   *)
NoPorts == <<Null>>
(* A port leads to it.                                                     *)
HasParent(nx, x) == \E f \in Filters : \E j \in DOMAIN nx[f] : nx[f][j] = x
(* Filter::attach: down the current ports to the last one, which is free.  *)
LastOf(nx) ==
  LET last[g \in Filters] == IF IsFilter(nx[g][1]) THEN last[nx[g][1]] ELSE g IN last
Attached(nx, f, g) == [nx EXCEPT ![LastOf(nx)[f]][1] = g]
IsFree(nx, f) == nx[LastOf(nx)[f]][1] = Null

(* What new Chain, new Fork and the other constructors leave.              *)
Chained(nx, f) ==
  LET linked[i \in 0 .. Len(Kids[f])] ==
        IF i = 0 THEN nx ELSE Attached(linked[i - 1], f, Kids[f][i])
  IN linked
Constructed(nx, f) ==
  CASE Kind[f] = "fork" -> [nx EXCEPT ![f] = Kids[f]]
    [] Kind[f] = "chain" -> Chained(nx, f)[Len(Kids[f])]
    [] OTHER -> nx
Trees ==
  LET trees[i \in 0 .. Len(Built)] ==
        IF i = 0 THEN [f \in Filters |-> NoPorts] ELSE Constructed(trees[i - 1], Built[i])
  IN trees
Owns(f) == IF Kind[f] = "chain" THEN Len(Kids[f]) ELSE 0
(* The filters that the program gives to a pipe itself.                    *)
TopLevel == ToSet(Built) \ UNION {ToSet(Members(f)) : f \in Filters}

(* The walks over the tree below each filter, its ports from left to       *)
(* right: the filters, each before those below it; and the ports where the *)
(* walk ends if it goes on through the inner filters only.                 *)
Preorders(nx) ==
  LET walk[f \in Filters] ==
        <<f>> \o FlattenSeq([j \in DOMAIN nx[f] |->
                               IF IsFilter(nx[f][j]) THEN walk[nx[f][j]] ELSE <<>>])
  IN walk
Fringes(nx, inner) ==
  LET walk[f \in Filters] ==
        FlattenSeq([j \in DOMAIN nx[f] |->
                      IF nx[f][j] \in inner THEN walk[nx[f][j]] ELSE <<<<f, j>>>>])
  IN walk
Preorder(nx, f) == IF f = Null THEN <<>> ELSE Preorders(nx)[f]
Endpoints(nx, f) == Fringes(nx, Filters)[f]
Init ==
  /\ next = Trees[Len(Built)]
  /\ alive = Filters \ {NullFilter} /\ owned = {} /\ pipe = Null
  /\ inside_msg = FALSE
  /\ buffers = <<>> /\ offset = 0 /\ default_read = 0
  /\ store = [x \in Filters \cup Queues |-> <<>>]
  /\ made = 0 /\ failed = FALSE /\ written = <<>> /\ throws = 0
  /\ before = <<>> /\ wild = FALSE

-----------------------------------------------------------------------------
(* Changing the tree.                                                      *)

OutOfBounds ==
  wild' = TRUE /\ UNCHANGED <<tree, inside_msg, outputs, default_read, store, made, failed, written, throws, before>>
Throws == throws < MaxThrows /\ throws' = throws + 1
Untouched == UNCHANGED <<inside_msg, outputs, default_read, store, made, failed, written, throws>>

AppendFilter(f) ==
  /\ ~inside_msg /\ f \in TopLevel \ owned
  /\ IF pipe # Null /\ ~IsFree(next, pipe) THEN OutOfBounds
     ELSE /\ owned' = owned \cup {f}
          /\ IF pipe = Null THEN pipe' = f /\ UNCHANGED next
             ELSE next' = Attached(next, pipe, f) /\ UNCHANGED pipe
          /\ before' = <<>>
          /\ Untouched /\ UNCHANGED <<alive, wild>>

Prepend(f) ==
  /\ ~inside_msg /\ f \in TopLevel \ owned
  /\ owned' = owned \cup {f}
  /\ next' = IF pipe = Null THEN next ELSE Attached(next, f, pipe)
  /\ pipe' = f
  /\ before' = <<pipe, next>>
  /\ Untouched /\ UNCHANGED <<alive, wild>>

(* Faulty variant: the filter itself counts as one of those it owns.       *)
PoppedOneFewer(f) ==
  LET walk[i \in 0 .. Owns(f)] == IF i = 0 THEN f ELSE next[walk[i - 1]][1]
  IN IF Owns(f) = 0 THEN <<f>> ELSE [i \in 1 .. Owns(f) |-> walk[i - 1]]
(* The first filter and those it owns, each found through its port 0.      *)
Popped(f) ==
  LET walk[i \in 0 .. Owns(f)] == IF i = 0 THEN f ELSE next[walk[i - 1]][1]
  IN [i \in 1 .. Owns(f) + 1 |-> walk[i - 1]]
Pop ==
  /\ ~inside_msg /\ pipe # Null /\ Len(next[pipe]) <= 1
  /\ LET gone == Popped(pipe)
         rest == next[Last(gone)][1]
     IN IF rest \notin Filters \cup {Null} THEN OutOfBounds
        ELSE /\ pipe' = rest
             /\ alive' = alive \ ToSet(gone)
             /\ next' = [f \in Filters |-> IF f \in ToSet(gone) THEN NoPorts ELSE next[f]]
             /\ before' = <<>>
             /\ Untouched /\ UNCHANGED <<owned, wild>>

(* Faulty variant: the first filter only.                                  *)
DestructedFirst == {pipe} \ {Null}
(* destruct: the filters, and not the queues, which outputs own.           *)
Destructed == ToSet(Preorder(next, pipe))
Reset ==
  /\ ~inside_msg
  /\ LET gone == Destructed
     IN /\ alive' = alive \ gone
        /\ next' = [f \in Filters |-> IF f \in gone THEN NoPorts ELSE next[f]]
  /\ pipe' = Null /\ failed' = FALSE /\ before' = <<>>
  /\ UNCHANGED <<owned, inside_msg, outputs, default_read, store, made, written, throws, wild>>

-----------------------------------------------------------------------------
(* Messages.                                                               *)

Root == IF pipe = Null THEN NullFilter ELSE pipe
(* find_endpoints, up to the n-th: a new queue at each.                    *)
FindEndpoints(n) ==
  LET ports == Endpoints(next, Root)
      QueueAt(p) == made + (CHOOSE i \in 1 .. n : ports[i] = p) - 1
      found == {ports[i] : i \in 1 .. n}
  IN /\ next' = [f \in Filters |-> [j \in DOMAIN next[f] |->
                   IF <<f, j>> \in found THEN QueueAt(<<f, j>>) ELSE next[f][j]]]
     /\ buffers' = buffers \o [i \in 1 .. n |-> made + i - 1]
     /\ made' = made + n
     /\ pipe' = Root
     /\ alive' = alive \cup {Root}

StartMsg ==
  LET n == Len(Endpoints(next, Root))
  IN /\ ~inside_msg /\ made + n <= MaxQueues
     /\ FindEndpoints(n)
     /\ inside_msg' = TRUE /\ failed' = FALSE
     /\ UNCHANGED <<owned, offset, default_read, store, written, throws, before, wild>>
(* A queue cannot be made, or a filter's start_msg throws.                 *)
StartMsgThrows(n) ==
  /\ ~inside_msg
  /\ LET k == Len(Endpoints(next, Root)) IN made + k <= MaxQueues /\ n <= k
  /\ FindEndpoints(n)
  /\ failed' = TRUE /\ Throws
  /\ UNCHANGED <<owned, inside_msg, offset, default_read, store, written, before, wild>>

(* Filter::send: the queues and holding filters that what f sends reaches. *)
Passing == {f \in Filters : Kind[f] # "hold"}
SentTo(f) == LET ports == Fringes(next, Passing)[f] IN [i \in DOMAIN ports |-> next[ports[i][1]][ports[i][2]]]
Entry == IF pipe \in Passing THEN SentTo(pipe) ELSE <<pipe>>
Received(st, to, s) == [x \in DOMAIN st |-> IF x \in ToSet(to) THEN st[x] \o s ELSE st[x]]

Write(x) ==
  /\ inside_msg /\ Len(written) < MaxWrites
  /\ store' = Received(store, Entry, <<x>>)
  /\ written' = Append(written, x)
  /\ UNCHANGED <<tree, inside_msg, outputs, default_read, made, failed, throws, before, wild>>
(* A filter throws when the first n have been served.                      *)
WriteThrows(x, n) ==
  /\ inside_msg /\ n < Len(Entry) /\ Throws
  /\ store' = Received(store, SubSeq(Entry, 1, n), <<x>>)
  /\ UNCHANGED <<tree, inside_msg, outputs, default_read, made, failed, written, before, wild>>

(* The end_msg of one filter: a holding filter sends what it has.          *)
Flush(st, f) ==
  IF Kind[f] = "hold" THEN [Received(st, SentTo(f), st[f]) EXCEPT ![f] = <<>>] ELSE st
(* Faulty variant: the children's messages are finished first.             *)
FinishMsgChildrenFirst(filters, n) ==
  LET after[i \in 1 .. Len(filters) + 1] ==
        IF i > n THEN store ELSE Flush(after[i + 1], filters[i])
  IN after[1]
(* finish_msg on the first n of the filters, each before its children.     *)
FinishMsg(filters, n) ==
  LET after[i \in 0 .. n] == IF i = 0 THEN store ELSE Flush(after[i - 1], filters[i])
  IN after[n]

(* Faulty variant: the ports keep their queues.                            *)
ClearEndpointsKept(x) == x
ClearEndpoints(x) == IF x \in Queues THEN Null ELSE x
(* retire: the empty queues at the front.                                  *)
Retained(bs, st) ==
  LET full == {i \in DOMAIN bs : st[bs[i]] # <<>>}
  IN IF full = {} THEN <<>>
     ELSE SubSeq(bs, CHOOSE i \in full : \A k \in full : i <= k, Len(bs))

EndMsg ==
  /\ inside_msg
  /\ LET filters == Preorder(next, pipe)
     IN /\ store' = FinishMsg(filters, Len(filters))
        /\ next' = [f \in Filters |->
                      IF f \notin ToSet(filters) THEN next[f]
                      ELSE IF f = NullFilter THEN NoPorts
                      ELSE [j \in DOMAIN next[f] |-> ClearEndpoints(next[f][j])]]
  /\ IF pipe = NullFilter THEN pipe' = Null /\ alive' = alive \ {NullFilter}
     ELSE UNCHANGED <<pipe, alive>>
  /\ buffers' = Retained(buffers, store')
  /\ offset' = offset + Len(buffers) - Len(buffers')
  /\ inside_msg' = FALSE /\ failed' = FALSE
  /\ UNCHANGED <<owned, default_read, made, written, throws, before, wild>>
(* A filter's end_msg throws half way.  What it held is sent in pieces:    *)
(* each place has got all to s, the first m places all to t; and the       *)
(* filter itself, whatever it has sent, is rid of all to g.                *)
Sent(st, to, m, d, s, t) ==
  Received(Received(st, to, SubSeq(d, 1, s)), SubSeq(to, 1, m), SubSeq(d, s + 1, t))
PartlyFlushed(st, f) ==
  LET d == st[f]
      cuts == 0 .. Len(d)
  IN {[Sent(st, SentTo(f), m, d, s, t) EXCEPT ![f] = SubSeq(d, g + 1, Len(d))] :
        m \in 0 .. Len(SentTo(f)), s \in cuts, t \in cuts, g \in cuts}
(* The n-th filter throws, and the message stays open.                     *)
EndMsgThrows(n) ==
  /\ inside_msg /\ Throws
  /\ LET filters == Preorder(next, pipe)
     IN /\ n <= Len(filters)
        /\ store' \in PartlyFlushed(FinishMsg(filters, n - 1), filters[n])
  /\ UNCHANGED <<tree, inside_msg, outputs, default_read, made, failed, written, before, wild>>

-----------------------------------------------------------------------------
(* Reading.                                                                *)

MessageCount == offset + Len(buffers)
Read(msg, n) ==
  /\ msg < MessageCount /\ msg >= offset
  /\ LET q == buffers[msg - offset + 1]
     IN store' = [store EXCEPT ![q] = SubSeq(@, n + 1, Len(@))]
  /\ UNCHANGED <<tree, inside_msg, outputs, default_read, made, failed, written, throws, before, wild>>
(* Faulty variant: any number is taken.                                    *)
SetDefaultMsgUnchecked(msg) ==
  /\ default_read' = msg
  /\ UNCHANGED <<tree, inside_msg, outputs, store, made, failed, written, throws, before, wild>>
SetDefaultMsg(msg) ==
  /\ msg < MessageCount
  /\ default_read' = msg
  /\ UNCHANGED <<tree, inside_msg, outputs, store, made, failed, written, throws, before, wild>>

-----------------------------------------------------------------------------
TreeChanges == Pop \/ \E f \in TopLevel : AppendFilter(f) \/ Prepend(f)
Calls ==
  \/ Reset
  \/ StartMsg \/ EndMsg
  \/ \E n \in 0 .. MaxQueues : StartMsgThrows(n)
  \/ \E n \in 1 .. Cardinality(Filters) : EndMsgThrows(n)
  \/ \E x \in Items : Write(x) \/ \E n \in 0 .. MaxQueues : WriteThrows(x, n)
  \/ \E m \in Queues : SetDefaultMsg(m) \/ \E n \in ReadSizes : Read(m, n)
(* The tree is changed "either before calling start_msg, or after end_msg  *)
(* has been called" (api.tex:522-523): a pipe whose start_msg has thrown   *)
(* is reset first, or has a message begun and ended.                       *)
NotInUse == ~inside_msg /\ ~failed
Next == (NotInUse /\ TreeChanges) \/ Calls
Spec == Init /\ [][Next]_vars

-----------------------------------------------------------------------------
(* The pipe as its user sees it.                                           *)

Holder(nx, x) == CHOOSE f \in Filters : \E j \in DOMAIN nx[f] : nx[f][j] = x
(* What a filter and those before it hold, the last one's first.           *)
Held(nx, st) ==
  LET held[f \in Filters] ==
        st[f] \o (IF HasParent(nx, f) THEN held[Holder(nx, f)] ELSE <<>>)
  IN held
HeldBefore(x) == Held(next, store)[Holder(next, x)]
Delivered == [m \in 1 .. MessageCount |-> IF m <= offset THEN <<>> ELSE store[buffers[m - offset]]]
Open == IF inside_msg
        THEN {m \in offset + 1 .. MessageCount : HasParent(next, buffers[m - offset])} ELSE {}
Owed == [m \in 1 .. MessageCount |->
           IF m \in Open THEN HeldBefore(buffers[m - offset]) ELSE <<>>]

Promise == INSTANCE PipePromise WITH
  MaxOpened <- MaxQueues, delivered <- Delivered, owed <- Owed, open <- Open

-----------------------------------------------------------------------------
(* Properties.                                                             *)

(* Every variable has its type, every queue made has its number, and the   *)
(* default message is one of them.                                         *)
TypeOK ==
  /\ next \in [Filters -> Seq(Filters \cup Queues \cup {Null})]
  /\ alive \subseteq Filters /\ owned \subseteq TopLevel /\ pipe \in Filters \cup {Null}
  /\ inside_msg \in BOOLEAN /\ failed \in BOOLEAN /\ wild \in BOOLEAN
  /\ buffers \in Seq(Queues) /\ offset \in Nat /\ MessageCount = made
  /\ default_read \in Nat /\ (default_read = 0 \/ default_read < MessageCount)
  /\ store \in [Filters \cup Queues -> Seq(Items)]
  /\ written \in Seq(Items) /\ throws \in 0 .. MaxThrows

(* A port refers to a queue only while a message is open, or was begun in  *)
(* vain; the queue is one that Output_Buffers still has, and no other port *)
(* refers to it (pipe.cpp:181, 189: the ports are cleared before the empty *)
(* queues are deleted).                                                    *)
PortsReferToKeptQueues ==
  \A f \in alive : \A j \in DOMAIN next[f] : next[f][j] \in Queues =>
    /\ inside_msg \/ failed
    /\ next[f][j] \in ToSet(buffers)
    /\ \A g \in alive : \A k \in DOMAIN next[g] : next[g][k] = next[f][j] => <<g, k>> = <<f, j>>

(* Every filter not deleted is in the pipe, once, or has not been given to *)
(* it: so destruct deletes each filter once, and none is lost              *)
(* (pipe.cpp:96-103, 265-287).                                             *)
OwnsItsFilters ==
  /\ alive = UNION {ToSet(Preorder(next, f)) : f \in {pipe} \cup (TopLevel \ owned)}
  /\ IsInjective(Preorder(next, pipe))

(* api.tex:545: pop() "would remove this Filter and return the Pipe to its *)
(* state before we called prepend", whatever messages went in between.     *)
PopUndoesPrepend ==
  [][NotInUse /\ Pop /\ before # <<>> => /\ pipe' = before[1]
                                         /\ \A f \in alive' : next'[f] = before[2][f]]_vars

(* The promise of a Pipe to its user, kept by every call and by every call *)
(* that throws.                                                            *)
KeepsPipePromise == Promise!Spec

-----------------------------------------------------------------------------
(* The strengthening under which the properties hold of every step.        *)

(* The filters form trees: no way down returns, and no two ports lead to   *)
(* the same filter or queue.                                               *)
Acyclic(nx) ==
  \A T \in SUBSET Filters : T # {} => \E f \in T : \A j \in DOMAIN nx[f] : nx[f][j] \notin T
OneParent(nx) ==
  \A f, g \in Filters : \A j \in DOMAIN nx[f], k \in DOMAIN nx[g] :
    nx[f][j] = nx[g][k] /\ nx[f][j] # Null => f = g /\ j = k
Forest(nx) == Acyclic(nx) /\ OneParent(nx)

(* pop() walks through the first port only, so that a fork inside a chain  *)
(* loses what is behind its other ports.                                   *)
ForksStandAlone ==
  \A f \in Filters : Kind[f] = "chain" => \A x \in ToSet(Kids[f]) : Kind[x] # "fork"

(* The roots are the pipe's first filter and those not given to it yet.    *)
RootsInv ==
  /\ \A f \in Filters : next[f] # <<>>
  /\ \A f \in Filters \ alive : next[f] = NoPorts /\ ~HasParent(next, f)
  /\ pipe \in alive \cup {Null} /\ (pipe # Null => ~HasParent(next, pipe))
  /\ \A f \in TopLevel \ owned : f \in alive /\ f # pipe /\ ~HasParent(next, f)
  /\ ForksStandAlone =>
       \A f \in alive : HasParent(next, f) \/ f = pipe \/ f \in TopLevel \ owned
  /\ NullFilter \in alive <=> pipe = NullFilter
  /\ ~HasParent(next, NullFilter)
  /\ pipe = NullFilter => \A j \in DOMAIN next[pipe] : ~IsFilter(next[pipe][j])
  /\ pipe = NullFilter => inside_msg \/ failed
  /\ inside_msg \/ failed => pipe # Null
  /\ ~(inside_msg /\ failed)
(* Queues are numbered without a gap; while a message is open each port    *)
(* leads on.                                                               *)
QueueInv ==
  /\ \A i \in DOMAIN buffers : buffers[i] = offset + i - 1
  /\ \A f \in Filters : \A j \in DOMAIN next[f] : next[f][j] \in Queues =>
       /\ inside_msg \/ failed
       /\ next[f][j] \in ToSet(buffers)
       /\ f \in ToSet(Preorder(next, pipe))
  /\ inside_msg =>
       \A f \in ToSet(Preorder(next, pipe)) : \A j \in DOMAIN next[f] : next[f][j] # Null
(* A chain has as many filters below it, each behind the first port of the *)
(* one before, as it owns.                                                 *)
ChainInv ==
  \A f \in alive : \E path \in [0 .. Owns(f) -> Filters] :
    /\ path[0] = f
    /\ \A i \in 1 .. Owns(f) : path[i] = next[path[i - 1]][1]
    /\ ForksStandAlone => \A i \in 1 .. Owns(f) : Len(next[path[i]]) = 1
PipeInv ==
  TypeOK /\ ~wild /\ Forest(next) /\ RootsInv /\ QueueInv /\ ChainInv

(* Only filters that are in the way of an open message hold data, and only *)
(* queues that are kept have some; there are no more than can be.          *)
StoreInv ==
  /\ made <= MaxQueues
  /\ \A f \in Filters : store[f] # <<>> =>
       inside_msg /\ f \notin Passing /\ f \in ToSet(Preorder(next, pipe))
  /\ \A q \in Queues : q < offset \/ q >= made => store[q] = <<>>

(* Between the prepend() and the pop() that is to undo it: the new filter  *)
(* and those it owns are a line down the first ports, and what is behind   *)
(* the line, and everywhere else, is what it was, apart from queues.  It   *)
(* has this line because no filter it owns brings others with it.          *)
PlainFamilies ==
  \A f \in Filters :
    /\ Kind[f] = "chain" => \A x \in ToSet(Kids[f]) : Kind[x] \notin {"chain", "fork"}
    /\ Kind[f] = "fork" => Len(Kids[f]) > 1
IsPath(path, nx, f, k) ==
  path \in [0 .. k -> Filters] /\ path[0] = f /\ \A i \in 1 .. k : path[i] = nx[path[i - 1]][1]
IsLine(nx, f, k) ==
  \E path \in [0 .. k -> Filters] : IsPath(path, nx, f, k) /\ nx[path[k]][1] \notin Filters
Cleared(ports) == [j \in DOMAIN ports |-> IF ports[j] \in Queues THEN Null ELSE ports[j]]
Undoable ==
  \E path \in [0 .. Owns(pipe) -> Filters] :
    /\ IsPath(path, next, pipe, Owns(pipe))
    /\ Cleared(next[path[Owns(pipe)]])[1] = before[1]
    /\ \A f \in alive \ {path[Owns(pipe)]} : Cleared(next[f]) = before[2][f]
LinesInv == \A f \in TopLevel \ owned : Len(next[f]) > 1 \/ IsLine(next, f, Owns(f))
BeforeInv ==
  before # <<>> => pipe \in alive \ {NullFilter} /\ (Len(next[pipe]) > 1 \/ Undoable)
UndoInv == LinesInv /\ BeforeInv

(* Taken together, this is kept by every step.                             *)
WholePipeInv == PipeInv /\ StoreInv /\ (PlainFamilies => UndoInv)
=============================================================================
