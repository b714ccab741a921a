----------------------------- MODULE LogsProofs -----------------------------
(***************************************************************************)
(* What nil from Driver.Logs means, for streams of any length and every     *)
(* interleaving of the caller, the copying and the scanning goroutines.     *)
(***************************************************************************)
EXTENDS Logs, TLAPS

-----------------------------------------------------------------------------
(* The inductive invariant.                                                 *)

LogsTypeOK ==
    /\ opened \subseteq Streams
    /\ cancelled \in BOOLEAN
    /\ copier \in [Streams -> {"off", "read", "write", "done"}]
    /\ pipe \in [Streams -> {"open", "eof", "broken"}]
    /\ scan \in [Streams -> {"off", "wait", "line", "lock", "write", "send", "close", "done"}]
    /\ errs \in Nat
    /\ done \in BOOLEAN
    /\ lines \in [Streams -> Nat]
    /\ written \in [Streams -> Nat]

\* Streams are opened once each, before the select, and not at all without a
\* sidecar; done waits for the scanner of every opened one.
Opening ==
    /\ main = "open" => \/ sources = Order /\ opened = {}
                        \/ sources = <<"proxy">> /\ opened = {"sandbox"}
                        \/ sources = <<>>
    /\ main \in {"inspect", "openOnly", "copy", "emit"} => opened = {}
    /\ \A s \in Streams \ opened :
          scan[s] = "off" /\ copier[s] = "off" /\ lines[s] = 0 /\ written[s] = 0
    /\ done => /\ main \in {"select", "nil", "error", "cancelled"}
               /\ \A s \in opened : scan[s] = "done"

InPipe(s) == IF copier[s] = "write" THEN 1 ELSE 0

\* No line is lost between a copier, its pipe and its scanner.
Flow ==
    \A s \in Streams :
        /\ pipe[s] # "open" <=> copier[s] = "done"
        /\ scan[s] = "wait" => lines[s] = written[s] + InPipe(s)
        /\ scan[s] \in {"line", "lock", "write"} => lines[s] = written[s] + 1 + InPipe(s)

Complete(s) == pipe[s] = "eof" /\ written[s] = lines[s]

\* A scanner that ended early has left an error for the caller.
EarlyEndsReported ==
    ~cancelled /\ main \in {"open", "select"} /\ errs = 0 =>
        \A s \in opened : scan[s] \in {"close", "done"} => Complete(s)

Accounted == LogsTypeOK /\ Opening /\ Flow /\ EarlyEndsReported /\ NilMeansAll

-----------------------------------------------------------------------------
(* It is kept by the caller ...                                             *)

\* The streams are opened in the order sandbox, proxy.
LEMMA OrderFacts ==
    /\ Head(Order) = "sandbox" /\ Tail(Order) = <<"proxy">>
    /\ Head(<<"proxy">>) = "proxy" /\ Tail(<<"proxy">>) = <<>>
  BY DEF Order

LEMMA CallerAccounted ==
    ASSUME Accounted, Caller \/ CopyOnly \/ EmitOnly \/ Waiter \/ Cancel
    PROVE  Accounted'
  <1> USE DEF Accounted, LogsTypeOK, Opening, Flow, InPipe, Complete, EarlyEndsReported,
          NilMeansAll
  <1>1. CASE Inspect
    BY <1>1 DEF Inspect, stream, scanner, Order
  <1>2. CASE OpenOnly \/ CopyOnly \/ CopyOnlyFails \/ EmitOnly
    BY <1>2 DEF OpenOnly, CopyOnly, CopyOnlyFails, EmitOnly, stream, scanner
  <1>3. CASE Open
    <2> HIDE DEF Flow, EarlyEndsReported, NilMeansAll
    <2>0. \/ sources = Order /\ opened = {}
          \/ sources = <<"proxy">> /\ opened = {"sandbox"}
      BY <1>3 DEF Open
    <2>1. PICK s \in Streams : s = Head(sources) /\ s \notin opened
      BY <2>0, OrderFacts DEF Streams
    <2>2. /\ main = "open" /\ main' = "open" /\ opened' = opened \cup {s}
          /\ \/ sources' = <<"proxy">> /\ opened' = {"sandbox"}
             \/ sources' = <<>>
      <3> HIDE DEF Accounted, LogsTypeOK, Opening
      <3>1. /\ main = "open" /\ main' = "open" /\ opened' = opened \cup {s}
            /\ sources' = Tail(sources)
        BY <1>3, <2>1 DEF Open
      <3>2. CASE sources = Order /\ opened = {}
        <4>1. opened' = {"sandbox"} /\ sources' = <<"proxy">>
          BY <2>1, <3>1, <3>2, OrderFacts
        <4> QED BY <3>1, <4>1
      <3>3. CASE sources = <<"proxy">>
        <4>1. sources' = <<>>
          BY <3>1, <3>3, OrderFacts
        <4> QED BY <3>1, <4>1
      <3> QED BY <2>0, <3>2, <3>3
    <2>3. /\ copier' = [copier EXCEPT ![s] = "read"] /\ scan' = [scan EXCEPT ![s] = "wait"]
          /\ UNCHANGED <<cancelled, pipe, errs, done, lines, written>>
      BY <1>3, <2>1 DEF Open
    <2>4. LogsTypeOK'
      BY <2>2, <2>3
    <2>5. Opening'
      BY <2>1, <2>2, <2>3
    <2>6. Flow'
      BY <2>1, <2>3 DEF Flow
    <2>7. EarlyEndsReported' /\ NilMeansAll'
      BY <2>2, <2>3 DEF EarlyEndsReported, NilMeansAll
    <2> QED BY <2>4, <2>5, <2>6, <2>7
  <1>4. CASE OpenFails
    <2>1. /\ main = "open" /\ main' \in {"open", "notOpened"}
          /\ main' = "open" => sources' = <<>>
      <3>1. main = "open" /\ (sources = Order \/ sources = <<"proxy">>)
        BY <1>4 DEF OpenFails, Opening
      <3>2. CASE sources = Order
        BY <1>4, <3>1, <3>2, OrderFacts DEF OpenFails
      <3>3. CASE sources = <<"proxy">>
        BY <1>4, <3>1, <3>3, OrderFacts DEF OpenFails
      <3> QED BY <3>1, <3>2, <3>3
    <2>2. UNCHANGED <<opened, cancelled, copier, pipe, scan, errs, done, lines, written>>
      BY <1>4 DEF OpenFails, stream, scanner
    <2>3. LogsTypeOK' /\ Opening'
      BY <2>1, <2>2
    <2>4. Flow'
      BY <2>1, <2>2
    <2>5. EarlyEndsReported' /\ NilMeansAll'
      BY <2>1, <2>2
    <2> QED BY <2>3, <2>4, <2>5
  <1>5. CASE Launched \/ SelectCancelled
    BY <1>5 DEF Launched, SelectCancelled, stream, scanner
  <1>6. CASE SelectDone \/ SelectError
    BY <1>6 DEF SelectDone, SelectError, stream
  <1>7. CASE Waiter
    <2> HIDE DEF Flow, EarlyEndsReported, NilMeansAll
    <2>1. LogsTypeOK' /\ Opening'
      BY <1>7 DEF Waiter, caller, stream, scanner
    <2>2. Flow'
      BY <1>7 DEF Flow, Waiter, caller, stream, scanner
    <2>3. EarlyEndsReported' /\ NilMeansAll'
      BY <1>7 DEF EarlyEndsReported, NilMeansAll, Waiter, caller, stream, scanner
    <2> QED BY <2>1, <2>2, <2>3
  <1>8. CASE Cancel
    <2> HIDE DEF Flow, EarlyEndsReported, NilMeansAll
    <2>1. LogsTypeOK' /\ Opening'
      BY <1>8 DEF Cancel, caller, stream, scanner
    <2>2. Flow'
      BY <1>8 DEF Flow, Cancel, caller, stream, scanner
    <2>3. EarlyEndsReported' /\ NilMeansAll'
      BY <1>8 DEF EarlyEndsReported, NilMeansAll, Cancel, caller, stream, scanner
    <2> QED BY <2>1, <2>2, <2>3
  <1> QED
    BY <1>1, <1>2, <1>3, <1>4, <1>5, <1>6, <1>7, <1>8 DEF Caller

\* ... by the goroutines of a stream ...
LEMMA StreamAccounted ==
    ASSUME Accounted, NEW s \in Streams,
           Line(s) \/ StreamEnds(s) \/ ReadFails(s) \/ WriteLine(s) \/ Scanner(s)
    PROVE  Accounted'
  <1> USE DEF Accounted
  <1>1. CASE Line(s)
    <2>1. LogsTypeOK'
      BY <1>1 DEF LogsTypeOK, Line, caller, scanner
    <2>2. Opening'
      BY <1>1 DEF LogsTypeOK, Opening, Line, caller, scanner
    <2>3. Flow'
      BY <1>1 DEF LogsTypeOK, Flow, InPipe, Line, caller, scanner
    <2>4. EarlyEndsReported'
      BY <1>1
      DEF LogsTypeOK, Flow, InPipe, EarlyEndsReported, Complete, Line, caller, scanner
    <2>5. NilMeansAll'
      BY <1>1 DEF LogsTypeOK, Flow, NilMeansAll, Line, caller, scanner
    <2> QED BY <2>1, <2>2, <2>3, <2>4, <2>5
  <1>2. CASE StreamEnds(s) \/ ReadFails(s)
    <2>1. LogsTypeOK'
      BY <1>2 DEF LogsTypeOK, StreamEnds, ReadFails, CloseWithError, caller, scanner
    <2>2. Opening'
      BY <1>2 DEF LogsTypeOK, Opening, StreamEnds, ReadFails, CloseWithError, caller, scanner
    <2>3. Flow'
      BY <1>2 DEF LogsTypeOK, Flow, InPipe, StreamEnds, ReadFails, CloseWithError, caller, scanner
    <2>4. EarlyEndsReported'
      BY <1>2
      DEF LogsTypeOK, Flow, InPipe, EarlyEndsReported, Complete, StreamEnds, ReadFails, CloseWithError, caller, scanner
    <2>5. NilMeansAll'
      BY <1>2 DEF LogsTypeOK, Flow, NilMeansAll, StreamEnds, ReadFails, CloseWithError, caller, scanner
    <2> QED BY <2>1, <2>2, <2>3, <2>4, <2>5
  <1>3. CASE WriteLine(s)
    <2>1. LogsTypeOK'
      BY <1>3 DEF LogsTypeOK, WriteLine, ScanTo, caller, stream
    <2>2. Opening'
      BY <1>3 DEF LogsTypeOK, Opening, WriteLine, ScanTo, caller, stream
    <2>3. Flow'
      BY <1>3 DEF LogsTypeOK, Flow, InPipe, WriteLine, ScanTo, caller, stream
    <2>4. EarlyEndsReported'
      BY <1>3
      DEF LogsTypeOK, Flow, InPipe, EarlyEndsReported, Complete, WriteLine, ScanTo, caller, stream
    <2>5. NilMeansAll'
      BY <1>3 DEF LogsTypeOK, Flow, NilMeansAll, WriteLine, ScanTo, caller, stream
    <2> QED BY <2>1, <2>2, <2>3, <2>4, <2>5
  <1>4. CASE ScanLine(s)
    <2>1. LogsTypeOK'
      BY <1>4 DEF LogsTypeOK, ScanLine, ScanTo, caller
    <2>2. Opening'
      BY <1>4 DEF LogsTypeOK, Opening, ScanLine, ScanTo, caller
    <2>3. Flow'
      BY <1>4 DEF LogsTypeOK, Flow, InPipe, ScanLine, ScanTo, caller
    <2>4. EarlyEndsReported'
      BY <1>4
      DEF LogsTypeOK, Flow, InPipe, EarlyEndsReported, Complete, ScanLine, ScanTo, caller
    <2>5. NilMeansAll'
      BY <1>4 DEF LogsTypeOK, Flow, NilMeansAll, ScanLine, ScanTo, caller
    <2> QED BY <2>1, <2>2, <2>3, <2>4, <2>5
  <1>5. CASE ScanTooLong(s) \/ ScanEnd(s)
    <2>1. LogsTypeOK'
      BY <1>5 DEF LogsTypeOK, ScanTooLong, ScanEnd, ScanTo, caller, stream
    <2>2. Opening'
      BY <1>5 DEF LogsTypeOK, Opening, ScanTooLong, ScanEnd, ScanTo, caller, stream
    <2>3. Flow'
      BY <1>5 DEF LogsTypeOK, Flow, InPipe, ScanTooLong, ScanEnd, ScanTo, caller, stream
    <2>4. EarlyEndsReported'
      BY <1>5
      DEF LogsTypeOK, Flow, InPipe, EarlyEndsReported, Complete, ScanTooLong, ScanEnd, ScanTo, caller, stream
    <2>5. NilMeansAll'
      BY <1>5 DEF LogsTypeOK, Flow, NilMeansAll, ScanTooLong, ScanEnd, ScanTo, caller, stream
    <2> QED BY <2>1, <2>2, <2>3, <2>4, <2>5
  <1>6. CASE CheckContext(s) \/ Lock(s)
    <2>1. LogsTypeOK'
      BY <1>6 DEF LogsTypeOK, CheckContext, Lock, ScanTo, caller, stream
    <2>2. Opening'
      BY <1>6 DEF LogsTypeOK, Opening, CheckContext, Lock, ScanTo, caller, stream
    <2>3. Flow'
      BY <1>6 DEF LogsTypeOK, Flow, InPipe, CheckContext, Lock, ScanTo, caller, stream
    <2>4. EarlyEndsReported'
      BY <1>6
      DEF LogsTypeOK, Flow, InPipe, EarlyEndsReported, Complete, CheckContext, Lock, ScanTo, caller, stream
    <2>5. NilMeansAll'
      BY <1>6 DEF LogsTypeOK, Flow, NilMeansAll, CheckContext, Lock, ScanTo, caller, stream
    <2> QED BY <2>1, <2>2, <2>3, <2>4, <2>5
  <1>7. CASE Send(s)
    <2>1. LogsTypeOK'
      BY <1>7 DEF LogsTypeOK, Send, ScanTo, caller, stream
    <2>2. Opening'
      BY <1>7 DEF LogsTypeOK, Opening, Send, ScanTo, caller, stream
    <2>3. Flow'
      BY <1>7 DEF LogsTypeOK, Flow, InPipe, Send, ScanTo, caller, stream
    <2>4. EarlyEndsReported'
      BY <1>7
      DEF LogsTypeOK, Flow, InPipe, EarlyEndsReported, Complete, Send, ScanTo, caller, stream
    <2>5. NilMeansAll'
      BY <1>7 DEF LogsTypeOK, Flow, NilMeansAll, Send, ScanTo, caller, stream
    <2> QED BY <2>1, <2>2, <2>3, <2>4, <2>5
  <1>8. CASE Close(s)
    <2>1. LogsTypeOK'
      BY <1>8 DEF LogsTypeOK, Close, ScanTo, caller, stream
    <2>2. Opening'
      BY <1>8 DEF LogsTypeOK, Opening, Close, ScanTo, caller, stream
    <2>3. Flow'
      BY <1>8 DEF LogsTypeOK, Flow, InPipe, Close, ScanTo, caller, stream
    <2>4. EarlyEndsReported'
      BY <1>8
      DEF LogsTypeOK, Flow, InPipe, EarlyEndsReported, Complete, Close, ScanTo, caller, stream
    <2>5. NilMeansAll'
      BY <1>8 DEF LogsTypeOK, Flow, NilMeansAll, Close, ScanTo, caller, stream
    <2> QED BY <2>1, <2>2, <2>3, <2>4, <2>5
  <1> QED
    BY <1>1, <1>2, <1>3, <1>4, <1>5, <1>6, <1>7, <1>8 DEF Scanner

\* ... and holds at first.
THEOREM AccountedInvariant == Spec => []Accounted
  <1>1. Init => Accounted
    <2> SUFFICES ASSUME Init PROVE Accounted
      OBVIOUS
    <2>1. LogsTypeOK
      BY DEF Init, LogsTypeOK, Streams
    <2>2. Opening
      BY DEF Init, Opening
    <2>3. Flow
      BY DEF Init, Flow, InPipe
    <2>4. EarlyEndsReported /\ NilMeansAll
      BY DEF Init, EarlyEndsReported, NilMeansAll
    <2> QED BY <2>1, <2>2, <2>3, <2>4 DEF Accounted
  <1>2. Accounted /\ UNCHANGED vars => Accounted'
    BY DEF Accounted, LogsTypeOK, Opening, Flow, InPipe, Complete, EarlyEndsReported,
           NilMeansAll, vars
  <1>3. Accounted /\ [Next]_vars => Accounted'
    BY <1>2, CallerAccounted, StreamAccounted DEF Next
  <1> QED BY <1>1, <1>3, PTL DEF Spec

\* So nil means that every opened stream was read to its end, that all of its
\* lines reached the writer and that its scanner has ended.
THEOREM NilMeansAllThm == Spec => []NilMeansAll
  <1>1. Accounted => NilMeansAll
    BY DEF Accounted
  <1> QED BY <1>1, AccountedInvariant, PTL

-----------------------------------------------------------------------------
(* errCh.                                                                   *)

\* A scanner that can report an error finds room in errCh.
SendNeverBlocks == \A s \in Streams : scan[s] = "send" => errs < Capacity

\* Errors in errCh were sent by scanners that have gone on to their end.
Room ==
    /\ errs \in 0 .. 2
    /\ errs >= 1 => \E s \in Streams : scan[s] \in {"close", "done"}
    /\ errs = 2 => \A s \in Streams : scan[s] \in {"close", "done"}

\* The buffer of errCh, one place for each stream, is enough: no scanner blocks in
\* its send, whether or not the caller is still there to receive.
THEOREM SendNeverBlocksThm == Spec => []SendNeverBlocks
  <1> USE DEF Room, Streams
  <1>1. Init => Room
    BY DEF Init
  <1>2. Accounted /\ Room /\ [Next]_vars => Room'
    <2> SUFFICES ASSUME Accounted, Room, [Next]_vars PROVE Room'
      OBVIOUS
    <2> USE DEF Accounted, LogsTypeOK
    <2>1. CASE Open
      <3>1. PICK s \in Streams : s = Head(sources) /\ s \notin opened
        BY <2>1, OrderFacts DEF Open, Opening
      <3>2. scan[s] = "off"
        BY <3>1 DEF Opening
      <3> QED BY <2>1, <3>1, <3>2 DEF Open
    <2>2. CASE SelectDone \/ SelectError
      BY <2>2 DEF SelectDone, SelectError
    <2>3. CASE (Caller /\ ~Open /\ ~SelectDone /\ ~SelectError) \/ CopyOnly \/ EmitOnly
               \/ Waiter \/ Cancel
      BY <2>3
      DEF Caller, Inspect, OpenOnly, CopyOnly, CopyOnlyFails, EmitOnly, OpenFails, Launched,
          SelectCancelled, Waiter, Cancel, caller, scanner
    <2>4. ASSUME NEW s \in Streams, Line(s) \/ StreamEnds(s) \/ ReadFails(s) PROVE Room'
      BY <2>4 DEF Line, StreamEnds, ReadFails, CloseWithError, caller, scanner
    <2>5. ASSUME NEW s \in Streams, Send(s) PROVE Room'
      BY <2>5 DEF Send, ScanTo, caller, Capacity, Order
    <2>6. ASSUME NEW s \in Streams, WriteLine(s) \/ (Scanner(s) /\ ~Send(s)) PROVE Room'
      BY <2>6
      DEF WriteLine, Scanner, ScanLine, ScanTooLong, ScanEnd, CheckContext, Lock, Close,
          ScanTo, caller
    <2>7. CASE UNCHANGED vars
      BY <2>7 DEF vars
    <2> QED BY <2>1, <2>2, <2>3, <2>4, <2>5, <2>6, <2>7 DEF Next, Caller
  <1>3. Room => SendNeverBlocks
    BY DEF SendNeverBlocks, Capacity, Order
  <1> QED BY <1>1, <1>2, <1>3, AccountedInvariant, PTL DEF Spec
=============================================================================
