----------------------------- MODULE ExecProofs -----------------------------
(***************************************************************************)
(* Proofs about Exec, for any number of Execs and of keys: the terminal is  *)
(* restored, a status comes after the output, and a goroutine left behind   *)
(* takes at most one read of the keyboard.                                  *)
(***************************************************************************)
EXTENDS Exec, TLAPS

Early == {"inspect", "create", "attach", "raw"}

\* What holds of an Exec whatever the others do.
Sane(r) ==
    /\ r.saved \in {"none", "cooked"}
    /\ r.pc = "off" \/ r.pc \in Early =>
          r.saved = "none" /\ r.inp = "off" /\ r.out = "off" /\ r.stolen = 0
    /\ r.inp # "off" => r.conn # "none"
    /\ r.inp # "off" /\ r.pc \in AtRest => r.conn = "closed"
    /\ r.stolen = 0 \/ (/\ r.stolen = 1 /\ r.pc \in AtRest /\ r.conn = "closed"
                        /\ r.inp \in {"write", "close", "done"})
    /\ r.pc \in {"raw", "stream", "code"} => r.conn \in {"open", "ended"}
    /\ r.pc \in {"code", "ok"} => r.out = "done"
    /\ r.pc \in {"stream", "code", "ok"} /\ r.out = "done" /\ ~r.cut =>
          ~r.pending /\ r.conn # "open"

\* The Execs take turns, and the one whose turn it is has the mode to go back
\* to, unless it has not touched it.
Turns ==
    /\ \A i \in Ids : i > begun => run[i].pc = "off"
    /\ \A i, j \in Ids : run[i].pc \notin AtRest /\ run[j].pc \notin AtRest => i = j
    /\ \A i \in Ids : run[i].pc \notin AtRest /\ run[i].saved = "none" => mode = "cooked"
    /\ TerminalRestored

Inv == TypeOK /\ Turns /\ \A i \in Ids : Sane(run[i])

\* A step of one Exec that leaves its turn and the terminal alone.
Aside(i, r) ==
    /\ run' = [run EXCEPT ![i] = r]
    /\ r \in Execs /\ Sane(r) /\ r.saved = run[i].saved
    /\ r.pc \in AtRest <=> run[i].pc \in AtRest
    /\ run[i].pc = "off" => r.pc = "off"
    /\ UNCHANGED <<begun, mode>> /\ keys' \in 0 .. MaxKeys

\* Such a step keeps the invariant.
LEMMA AsideKeeps ==
    ASSUME Inv, NEW i \in Ids, NEW r, Aside(i, r)
    PROVE  Inv'
<1>1. run' \in [Ids -> Execs] /\ run'[i] = r /\ \A j \in Ids : j # i => run'[j] = run[j]
  BY DEF Inv, TypeOK, Aside
<1>2. TypeOK'
  BY <1>1 DEF Inv, TypeOK, Aside
<1>3. \A j \in Ids : Sane(run'[j])
  BY <1>1 DEF Inv, Aside
<1>4. \A j \in Ids : run'[j].pc \in AtRest <=> run[j].pc \in AtRest
  BY <1>1 DEF Aside
<1>5. \A j \in Ids : run'[j].saved = run[j].saved
  BY <1>1 DEF Aside
<1>6. \A j \in Ids : run[j].pc = "off" => run'[j].pc = "off"
  BY <1>1 DEF Aside
<1>7. Turns'
  BY <1>4, <1>5, <1>6 DEF Inv, Turns, TerminalRestored, Aside
<1> QED
  BY <1>2, <1>3, <1>7 DEF Inv

\* The record of an Exec that ends.
LEMMA EndedType ==
    ASSUME NEW r \in Execs, NEW how \in {"ok", "err"}
    PROVE  Ended(r, how) \in Execs /\ Ended(r, how).pc = how
<1>1. CASE r.conn = "none"
  <2>1. Ended(r, how) = [r EXCEPT !.pc = how, !.conn = "none"]
    BY <1>1 DEF Ended
  <2> QED BY <2>1 DEF Execs, AtRest
<1>2. CASE r.conn # "none"
  <2>1. Ended(r, how) = [r EXCEPT !.pc = how, !.conn = "closed"]
    BY <1>2 DEF Ended
  <2> QED BY <2>1 DEF Execs, AtRest
<1> QED BY <1>1, <1>2

\* A step that ends the Exec whose turn it is, terminal restored.
LEMMA ReturnKeeps ==
    ASSUME Inv, NEW i \in Ids, NEW r \in Execs, NEW how \in {"ok", "err"},
           run[i].pc \notin AtRest, Return(i, r, how), r.saved = run[i].saved,
           Sane(Ended(r, how))
    PROVE  Inv'
<1> DEFINE q == Ended(r, how)
<1>1. q \in Execs /\ q.pc = how /\ how \in AtRest /\ how # "off"
  BY EndedType DEF AtRest
<1>2. run' = [run EXCEPT ![i] = q] /\ UNCHANGED <<begun, keys>>
      /\ mode' = IF r.saved = "none" THEN mode ELSE r.saved
  BY DEF Return, Set
<1> HIDE DEF q
<1>3. run' \in [Ids -> Execs] /\ run'[i] = q /\ \A j \in Ids : j # i => run'[j] = run[j]
  BY <1>1, <1>2 DEF Inv, TypeOK
<1>4. mode' = "cooked"
  BY <1>2 DEF Inv, Turns, Sane
<1>5. TypeOK'
  BY <1>2, <1>3, <1>4 DEF Inv, TypeOK
<1>6. \A j \in Ids : Sane(run'[j])
  BY <1>3 DEF Inv, q
<1>7. \A j \in Ids : run'[j].pc \in AtRest
  BY <1>1, <1>3 DEF Inv, Turns
<1>8. \A j \in Ids : j > begun' => run'[j].pc = "off"
  <2>1. run[i].pc # "off"
    BY DEF AtRest
  <2> QED BY <2>1, <1>2, <1>3 DEF Inv, Turns
<1>9. Turns'
  BY <1>4, <1>7, <1>8 DEF Turns, TerminalRestored
<1> QED
  BY <1>5, <1>6, <1>9 DEF Inv
\* Facts about the Exec a step is about.
LEMMA Facts ==
    ASSUME Inv, NEW i \in Ids
    PROVE  /\ run[i] \in Execs /\ Sane(run[i]) /\ keys \in 0 .. MaxKeys
           /\ run \in [Ids -> Execs] /\ i \in 1 .. MaxExecs
  BY DEF Inv, TypeOK, Ids

\* The steps of the call.
LEMMA CallKeeps ==
    ASSUME Inv, NEW i \in Ids, Call(i)
    PROVE  Inv'
<1> DEFINE r == run[i]
<1>0. r \in Execs /\ Sane(r) /\ keys \in 0 .. MaxKeys
  BY Facts
<1>1. ASSUME Request(i) PROVE Inv'
  <2>1. CASE r.pc = "inspect"
    <3>1. Aside(i, [r EXCEPT !.pc = "create"])
      BY <1>0, <1>1, <2>1 DEF Request, Set, Aside, Sane, Execs, AtRest, Early
    <3> QED BY <3>1, AsideKeeps
  <2>2. CASE r.pc = "create"
    <3>1. Aside(i, [r EXCEPT !.pc = "attach"])
      BY <1>0, <1>1, <2>2 DEF Request, Set, Aside, Sane, Execs, AtRest, Early
    <3> QED BY <3>1, AsideKeeps
  <2>3. CASE r.pc = "attach" /\ r.kind = "term"
    <3>1. Aside(i, [Attached(r) EXCEPT !.pc = "raw"])
      BY <1>0, <1>1, <2>3 DEF Request, Set, Aside, Sane, Execs, AtRest, Early, Attached
    <3> QED BY <3>1, AsideKeeps
  <2>4. CASE r.pc = "attach" /\ r.kind # "term"
    <3>1. Aside(i, Streaming(Attached(r)))
      BY <1>0, <1>1, <2>4 DEF Request, Set, Aside, Sane, Execs, AtRest, Early, Attached, Streaming
    <3> QED BY <3>1, AsideKeeps
  <2> QED BY <1>1, <2>1, <2>2, <2>3, <2>4 DEF Request
<1>2. ASSUME RequestFails(i) PROVE Inv'
  <2>1. Return(i, r, "err") /\ r.pc \in Early /\ r.pc \notin AtRest
    BY <1>2 DEF RequestFails, Early, AtRest
  <2>2. Sane(Ended(r, "err"))
    BY <1>0, <2>1 DEF Sane, Execs, Ended, Early, AtRest
  <2> QED BY <1>0, <2>1, <2>2, ReturnKeeps
<1>3. ASSUME MakeRaw(i) PROVE Inv'
  <2>1. r.pc = "raw" /\ r.pc \notin AtRest
    BY <1>3 DEF MakeRaw, AtRest
  <2>2. CASE Return(i, r, "err")
    <3>1. Sane(Ended(r, "err"))
      BY <1>0, <2>1 DEF Sane, Execs, Ended, Early, AtRest
    <3> QED BY <1>0, <2>1, <2>2, <3>1, ReturnKeeps
  <2>3. CASE ~Return(i, r, "err")
    <3> DEFINE q == [Streaming(r) EXCEPT !.saved = mode, !.size = "retry"]
    <3>1. mode' = "raw" /\ run' = [run EXCEPT ![i] = q] /\ UNCHANGED <<begun, keys>>
      BY <1>3, <2>3 DEF MakeRaw, Set
    <3>2. mode = "cooked" /\ r.saved = "none"
      BY <1>0, <2>1 DEF Inv, Turns, Sane, Early
    <3>3. Streaming(r) \in Execs /\ Streaming(r).pc = "stream" /\ Streaming(r).out = "copy"
          /\ Streaming(r).stolen = 0 /\ Streaming(r).conn = r.conn
      BY <1>0, <2>1 DEF Sane, Execs, Streaming, Early, AtRest
    <3>4. q \in Execs /\ q.pc = "stream" /\ q.saved = "cooked" /\ Sane(q)
      <4> DEFINE s == Streaming(r)
      <4>1. s \in Execs /\ s.pc = "stream" /\ s.out = "copy" /\ s.stolen = 0
            /\ s.conn \in {"open", "ended"}
        BY <1>0, <2>1, <3>3 DEF Sane
      <4>2. q = [s EXCEPT !.saved = "cooked", !.size = "retry"]
        BY <3>2
      <4> HIDE DEF s, q
      <4> QED BY <4>1, <4>2 DEF Sane, Execs, AtRest, Early
    <3> HIDE DEF q
    <3>5. run' \in [Ids -> Execs] /\ run'[i] = q /\ \A j \in Ids : j # i => run'[j] = run[j]
      BY <3>1, <3>4, Facts
    <3>6. TypeOK' /\ \A j \in Ids : Sane(run'[j])
      BY <3>1, <3>4, <3>5 DEF Inv, TypeOK
    <3>7. Turns'
      BY <2>1, <3>1, <3>4, <3>5 DEF Inv, Turns, TerminalRestored, AtRest
    <3> QED BY <3>6, <3>7 DEF Inv
  <2> QED BY <2>2, <2>3
<1>4. ASSUME StreamEnds(i) PROVE Inv'
  <2>1. Aside(i, [r EXCEPT !.pc = "code"])
    BY <1>0, <1>4 DEF StreamEnds, Set, Aside, Sane, Execs, AtRest, Early
  <2> QED BY <2>1, AsideKeeps
<1>5. ASSUME ExitCode(i) PROVE Inv'
  <2>1. Return(i, r, "ok") /\ r.pc = "code" /\ r.pc \notin AtRest
    BY <1>5 DEF ExitCode, AtRest
  <2>2. Sane(Ended(r, "ok"))
    BY <1>0, <2>1 DEF Sane, Execs, Ended, Early, AtRest
  <2> QED BY <1>0, <2>1, <2>2, ReturnKeeps
<1>6. ASSUME ExitCodeFails(i) PROVE Inv'
  <2>1. Return(i, r, "err") /\ r.pc = "code" /\ r.pc \notin AtRest
    BY <1>6 DEF ExitCodeFails, AtRest
  <2>2. Sane(Ended(r, "err"))
    BY <1>0, <2>1 DEF Sane, Execs, Ended, Early, AtRest
  <2> QED BY <1>0, <2>1, <2>2, ReturnKeeps
<1> QED
  BY <1>1, <1>2, <1>3, <1>4, <1>5, <1>6 DEF Call

\* The steps of the goroutines.
LEMMA GoroutinesKeep ==
    ASSUME Inv, NEW i \in Ids,
           \/ Output(i) \/ Resize(i) \/ StdoutFails(i)
           \/ Key(i) \/ StdinEnds(i) \/ WriteKey(i) \/ CloseWrite(i)
    PROVE  Inv'
<1> DEFINE r == run[i]
<1>0. r \in Execs /\ Sane(r) /\ keys \in 0 .. MaxKeys /\ MaxKeys \in Nat
  BY Facts, ExecAssumption
<1>1. CASE CopyOutput(i)
  <2>1. Aside(i, [r EXCEPT !.pending = FALSE])
    BY <1>0, <1>1 DEF CopyOutput, Set, Aside, Sane, Execs, AtRest, Early
  <2> QED BY <2>1, AsideKeeps
<1>2. CASE OutputEnds(i)
  <2>1. Aside(i, [r EXCEPT !.out = "done"])
    BY <1>0, <1>2 DEF OutputEnds, Set, Aside, Sane, Execs, AtRest, Early
  <2> QED BY <2>1, AsideKeeps
<1>3. CASE StdoutFails(i)
  <2>1. Aside(i, [r EXCEPT !.out = "done", !.cut = TRUE])
    BY <1>0, <1>3 DEF StdoutFails, Set, Aside, Sane, Execs, AtRest, Early
  <2> QED BY <2>1, AsideKeeps
<1>4. CASE Key(i)
  <2>1. CASE r.pc \in AtRest
    <3> DEFINE q == [r EXCEPT !.inp = "write", !.stolen = 1]
    <3>0. r.inp = "read" /\ r.stolen = 0 /\ r.conn = "closed"
      BY <1>0, <1>4, <2>1 DEF Key, Sane, Execs
    <3>1. q \in Execs /\ Sane(q) /\ q.saved = r.saved /\ q.pc = r.pc
      BY <1>0, <2>1, <3>0 DEF Sane, Execs, AtRest, Early
    <3>2. run' = [run EXCEPT ![i] = q] /\ UNCHANGED <<begun, mode>> /\ keys' \in 0 .. MaxKeys
      BY <1>0, <1>4, <2>1, <3>0 DEF Key, Set
    <3>3. Aside(i, q)
      BY <3>1, <3>2 DEF Aside
    <3> QED BY <3>3, AsideKeeps
  <2>2. CASE r.pc \notin AtRest
    <3> DEFINE q == [r EXCEPT !.inp = "write", !.stolen = r.stolen]
    <3>1. q \in Execs /\ Sane(q) /\ q.saved = r.saved /\ q.pc = r.pc
      BY <1>0, <1>4, <2>2 DEF Key, Sane, Execs, AtRest, Early
    <3>2. run' = [run EXCEPT ![i] = q] /\ UNCHANGED <<begun, mode>> /\ keys' \in 0 .. MaxKeys
      BY <1>0, <1>4, <2>2 DEF Key, Set
    <3>3. Aside(i, q)
      BY <3>1, <3>2 DEF Aside
    <3> QED BY <3>3, AsideKeeps
  <2> QED BY <2>1, <2>2
<1>5. CASE StdinEnds(i)
  <2>1. Aside(i, [r EXCEPT !.inp = "close"])
    BY <1>0, <1>5 DEF StdinEnds, Set, Aside, Sane, Execs, AtRest, Early
  <2> QED BY <2>1, AsideKeeps
<1>6. CASE WriteKey(i)
  <2>1. CASE r.conn # "closed" /\ run' = [run EXCEPT ![i] = [r EXCEPT !.inp = "read"]]
    <3>1. Aside(i, [r EXCEPT !.inp = "read"])
    BY <1>0, <1>6, <2>1 DEF WriteKey, Set, Aside, Sane, Execs, AtRest, Early
    <3> QED BY <3>1, AsideKeeps
  <2>2. CASE run' = [run EXCEPT ![i] = [r EXCEPT !.inp = "close"]]
    <3>1. Aside(i, [r EXCEPT !.inp = "close"])
    BY <1>0, <1>6, <2>2 DEF WriteKey, Set, Aside, Sane, Execs, AtRest, Early
    <3> QED BY <3>1, AsideKeeps
  <2> QED BY <1>6, <2>1, <2>2 DEF WriteKey, Set
<1>7. CASE CloseWrite(i)
  <2>1. Aside(i, [r EXCEPT !.inp = "done"])
    BY <1>0, <1>7 DEF CloseWrite, Set, Aside, Sane, Execs, AtRest, Early
  <2> QED BY <2>1, AsideKeeps
<1>8. CASE Resized(i)
  <2>1. Aside(i, [r EXCEPT !.size = "watch"])
    BY <1>0, <1>8 DEF Resized, Set, Aside, Sane, Execs, AtRest, Early
  <2> QED BY <2>1, AsideKeeps
<1>9. CASE WatchEnds(i)
  <2>1. Aside(i, [r EXCEPT !.size = "done"])
    BY <1>0, <1>9 DEF WatchEnds, Set, Aside, Sane, Execs, AtRest, Early
  <2> QED BY <2>1, AsideKeeps
<1> QED
  BY <1>1, <1>2, <1>3, <1>4, <1>5, <1>6, <1>7, <1>8, <1>9 DEF Output, Resize

\* The steps of the command, the connection and the context.
LEMMA RemoteKeeps ==
    ASSUME Inv, NEW i \in Ids,
           RemoteWrites(i) \/ RemoteCloses(i) \/ ConnectionBreaks(i) \/ Cancel(i)
    PROVE  Inv'
<1> DEFINE r == run[i]
<1>0. r \in Execs /\ Sane(r) /\ keys \in 0 .. MaxKeys
  BY Facts
<1>1. CASE RemoteWrites(i)
  <2> DEFINE q == [r EXCEPT !.pending = TRUE]
  <2>1. q \in Execs /\ Sane(q) /\ q.saved = r.saved /\ q.pc = r.pc
    BY <1>0, <1>1 DEF RemoteWrites, Sane, Execs, AtRest, Early
  <2>2. run' = [run EXCEPT ![i] = q] /\ UNCHANGED <<begun, mode>> /\ keys' \in 0 .. MaxKeys
    BY <1>0, <1>1 DEF RemoteWrites, Set
  <2>3. Aside(i, q)
    BY <2>1, <2>2 DEF Aside
  <2> QED BY <2>3, AsideKeeps
<1>2. CASE RemoteCloses(i)
  <2>1. Aside(i, [r EXCEPT !.conn = "ended"])
    BY <1>0, <1>2 DEF RemoteCloses, Set, Aside, Sane, Execs, AtRest, Early
  <2> QED BY <2>1, AsideKeeps
<1>3. CASE ConnectionBreaks(i)
  <2> DEFINE q == [r EXCEPT !.conn = "ended", !.pending = FALSE, !.cut = TRUE]
  <2>1. q \in Execs /\ Sane(q) /\ q.saved = r.saved /\ q.pc = r.pc
    BY <1>0, <1>3 DEF ConnectionBreaks, Sane, Execs, AtRest, Early
  <2>2. run' = [run EXCEPT ![i] = q] /\ UNCHANGED <<begun, mode, keys>>
    BY <1>0, <1>3 DEF ConnectionBreaks, Set
  <2>3. Aside(i, q)
    BY <1>0, <2>1, <2>2 DEF Aside
  <2> QED BY <2>3, AsideKeeps
<1>4. CASE Cancel(i)
  <2> DEFINE q == [r EXCEPT !.live = FALSE]
  <2>0. q \in Execs /\ q.saved = r.saved /\ q.pc = r.pc /\ q.inp = r.inp /\ q.out = r.out
        /\ q.stolen = r.stolen /\ q.conn = r.conn /\ q.cut = r.cut /\ q.pending = r.pending
    BY <1>0 DEF Execs
  <2>1. q \in Execs /\ Sane(q) /\ q.saved = r.saved /\ q.pc = r.pc
    <3> HIDE DEF q
    <3> QED BY <1>0, <2>0 DEF Sane
  <2>2. run' = [run EXCEPT ![i] = q] /\ UNCHANGED <<begun, mode>> /\ keys' \in 0 .. MaxKeys
    BY <1>0, <1>4 DEF Cancel, Set
  <2>3. Aside(i, q)
    BY <2>1, <2>2 DEF Aside
  <2> QED BY <2>3, AsideKeeps
<1> QED
  BY <1>1, <1>2, <1>3, <1>4

\* A new Exec begins when all others are at rest.
LEMMA BeginKeeps ==
    ASSUME Inv, Begin
    PROVE  Inv'
<1> DEFINE i == begun + 1
           q == [run[i] EXCEPT !.pc = "inspect"]
<1>1. i \in Ids /\ begun \in Nat /\ begun' = i /\ MaxExecs \in Nat
  BY ExecAssumption DEF Inv, TypeOK, Begin, Ids
<1>2. run' = [run EXCEPT ![i] = q] /\ UNCHANGED <<mode, keys>>
      /\ \A j \in Ids : run[j].pc \in AtRest
  BY DEF Begin, Set
<1>3. run[i].pc = "off" /\ run[i] \in Execs /\ Sane(run[i])
  BY <1>1 DEF Inv, TypeOK, Turns
<1>4. q \in Execs /\ q.pc = "inspect" /\ Sane(q)
  BY <1>3 DEF Sane, Execs, AtRest, Early
<1>5. mode = "cooked"
  BY <1>2 DEF Inv, Turns, TerminalRestored
<1> HIDE DEF q
<1>6. run' \in [Ids -> Execs] /\ run'[i] = q /\ \A j \in Ids : j # i => run'[j] = run[j]
  BY <1>1, <1>2, <1>4 DEF Inv, TypeOK
<1>7. TypeOK' /\ \A j \in Ids : Sane(run'[j])
  BY <1>1, <1>2, <1>4, <1>6 DEF Inv, TypeOK, Ids
<1>8. \A j \in Ids : j > begun' => run'[j].pc = "off"
  BY <1>1, <1>6 DEF Inv, Turns, Ids
<1>9. Turns'
  BY <1>1, <1>2, <1>4, <1>5, <1>6, <1>8 DEF Turns, TerminalRestored, AtRest
<1> QED
  BY <1>7, <1>9 DEF Inv

\* The invariant of Driver.Exec and the goroutines it leaves behind.
THEOREM ExecInvariant == Spec => []Inv
<1>1. ASSUME Init PROVE Inv
  <2>1. PICK k \in [Ids -> Kinds] : run = [i \in Ids |-> Fresh(k[i])]
    BY <1>1 DEF Init
  <2>2. \A i \in Ids : run[i] \in Execs /\ Sane(run[i]) /\ run[i].pc = "off"
    BY <2>1 DEF Fresh, Execs, Sane, AtRest, Early
  <2>3. TypeOK
    BY <1>1, <2>1, <2>2, ExecAssumption DEF Init, TypeOK
  <2>4. Turns
    BY <1>1, <2>2 DEF Init, Turns, TerminalRestored, AtRest
  <2> QED BY <2>2, <2>3, <2>4 DEF Inv
<1>2. ASSUME Inv, [Next]_vars PROVE Inv'
  <2>1. CASE UNCHANGED vars
    BY <1>2, <2>1 DEF Inv, TypeOK, Turns, TerminalRestored, vars
  <2>2. CASE Begin
    BY <1>2, <2>2, BeginKeeps
  <2>3. ASSUME NEW i \in Ids, Call(i) PROVE Inv'
    BY <1>2, <2>3, CallKeeps
  <2>4. ASSUME NEW i \in Ids, \/ Output(i) \/ Resize(i) \/ StdoutFails(i) \/ Key(i)
                              \/ StdinEnds(i) \/ WriteKey(i) \/ CloseWrite(i)
        PROVE Inv'
    BY <1>2, <2>4, GoroutinesKeep
  <2>5. ASSUME NEW i \in Ids, \/ RemoteWrites(i) \/ RemoteCloses(i)
                              \/ ConnectionBreaks(i) \/ Cancel(i)
        PROVE Inv'
    BY <1>2, <2>5, RemoteKeeps
  <2> QED BY <1>2, <2>1, <2>2, <2>3, <2>4, <2>5 DEF Next
<1> QED BY <1>1, <1>2, PTL DEF Spec

\* Between two Execs the host's terminal is as it was: every path out of
\* Driver.Exec runs the deferred term.Restore, with the mode of before.
THEOREM TerminalRestoredThm == Spec => []TerminalRestored
<1>1. Inv => TerminalRestored
  BY DEF Inv, Turns
<1> QED BY <1>1, ExecInvariant, PTL

\* An Exec that returns a status has handed on all of the output that its
\* connection delivered (<-outDone).
THEOREM OutputFirstThm == Spec => []OutputFirst
<1>1. Inv => OutputFirst
  BY DEF Inv, Sane, OutputFirst
<1> QED BY <1>1, ExecInvariant, PTL

\* However many Execs follow one another, the stdin goroutine of a finished one
\* takes at most one read of the keyboard.
THEOREM OneReadStolenThm == Spec => []OneReadStolen
<1>1. Inv => OneReadStolen
  BY DEF Inv, Sane, OneReadStolen
<1> QED BY <1>1, ExecInvariant, PTL
=============================================================================
