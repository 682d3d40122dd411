---------------------------- MODULE OracleProofs ----------------------------
(***************************************************************************)
(* Proofs about Oracle, for any number of oracles, any inputs and any      *)
(* request length and pipe capacity.                                       *)
(***************************************************************************)
EXTENDS OracleInv, SequenceTheorems, TLAPS

(* A digest is one of the tokens an answer pipe may hold. *)
LEMMA DigestType == ASSUME NEW o, NEW x PROVE Digest(o, x) \in Tokens
BY DEF Digest, Tokens

(* Types hold initially and after every step, on their own. *)
LEMMA TypeInit == Init => TypeOK
BY OracleAssumption DEF Init, TypeOK, Oracles, Live, Ended, Checking, Over, Tokens

(* Both outcomes of an oracle's sending keep the loop's variables typed. *)
LEMMA SentToType ==
    ASSUME TypeOK, fz = "send", NEW ok \in BOOLEAN, SentTo(ok)
    PROVE  /\ left' \in 0..ReqLen /\ k' \in Oracles /\ fz' \in {"send", "recv"}
           /\ sent' \in [Oracles -> BOOLEAN]
<1>1. left' \in 0..ReqLen /\ fz' \in {"send", "recv"}
  <2>1. CASE k < N
    BY <2>1, OracleAssumption DEF SentTo
  <2>2. CASE ~(k < N)
    BY <2>2, OracleAssumption DEF SentTo
  <2> QED
    BY <2>1, <2>2
<1>2. k' \in Oracles
  <2>1. CASE k < N
    <3>1. k' = k + 1
      BY <2>1 DEF SentTo
    <3> QED
      BY <2>1, <3>1, OracleAssumption DEF TypeOK, Oracles
  <2>2. CASE ~(k < N)
    <3>1. k' = 1
      BY <2>2 DEF SentTo
    <3> QED
      BY <3>1, OracleAssumption DEF Oracles
  <2> QED
    BY <2>1, <2>2
<1>3. sent' \in [Oracles -> BOOLEAN]
  BY DEF SentTo, TypeOK
<1> QED
  BY <1>1, <1>2, <1>3

(* So does the judgement of any answer. *)
LEMMA JudgeType ==
    ASSUME TypeOK, NEW a, Judge(a)
    PROVE  /\ fz' \in {"recv", "verdict"} /\ k' \in Oracles
           /\ line' = "none" /\ diverged' \in 0..N
<1>1. k' \in Oracles
  BY OracleAssumption DEF Judge, TypeOK, Oracles
<1>2. diverged' \in 0..N
  BY OracleAssumption DEF Judge, TypeOK, Oracles
<1> QED
  BY <1>1, <1>2 DEF Judge

(* Every step of either side keeps the types: one case per action. *)
LEMMA TypeStep == TypeOK /\ [Next]_vars => TypeOK'
<1> SUFFICES ASSUME TypeOK, [Next]_vars PROVE TypeOK'
  OBVIOUS
<1> USE OracleAssumption DEF TypeOK, Oracles, Live, Ended, Checking, Over,
                             fuzzVars, procVars, pipeVars
<1>1. CASE UNCHANGED vars
  BY <1>1 DEF vars
<1>2. CASE FSpawn
  <2>1. proc' \in [Oracles -> {"none"} \cup Live \cup Ended]
    BY <1>2 DEF FSpawn
  <2>2. k' \in Oracles /\ fz' \in {"spawn", "open"}
    BY <1>2 DEF FSpawn
  <2> QED
    BY <1>2, <2>1, <2>2 DEF FSpawn
<1>3. CASE FSpawnFail
  BY <1>3 DEF FSpawnFail
<1>4. CASE FBegin
  BY <1>4 DEF FBegin
<1>5. CASE FOpen
  BY <1>5 DEF FOpen
<1>6. CASE FWrite
  BY <1>6 DEF FWrite
<1>7. CASE FWriteFail
  BY <1>7 DEF FWriteFail
<1>8. CASE FSend
  <2>1. PICK n \in 1..left :
           /\ req[k] + n =< PipeCap
           /\ req' = [req EXCEPT ![k] = @ + n]
           /\ IF n = left THEN SentTo(TRUE)
                          ELSE left' = left - n /\ UNCHANGED <<fz, k, sent>>
    BY <1>8 DEF FSend
  <2>a. req[k] + n \in 0..PipeCap
    BY <2>1
  <2>2. req' \in [Oracles -> 0..PipeCap]
    BY <2>1, <2>a
  <2>3. left' \in 0..ReqLen /\ k' \in Oracles /\ sent' \in [Oracles -> BOOLEAN]
        /\ fz' \in {"send", "recv"}
    <3>1. CASE n = left
      BY <2>1, <3>1, <1>8, SentToType DEF FSend
    <3>2. CASE n # left
      BY <2>1, <3>2, <1>8 DEF FSend
    <3> QED BY <3>1, <3>2
  <2> QED
    BY <1>8, <2>2, <2>3 DEF FSend
<1>9. CASE FSendEpipe
  BY <1>9, SentToType DEF FSendEpipe
<1>10. CASE FSendEintr \/ FReadEintr \/ FReapEintr \/ Done
  BY <1>10 DEF FSendEintr, FReadEintr, FReapEintr, Done, vars
<1>11. CASE FRead
  <2>1. ans[k] \in Seq(Tokens) /\ ans[k] # << >>
    BY <1>11 DEF FRead
  <2>2. Head(ans[k]) \in Tokens /\ Tail(ans[k]) \in Seq(Tokens)
        /\ Len(Tail(ans[k])) =< PipeCap
    BY <2>1
  <2>3. ans' \in [Oracles -> Seq(Tokens)] /\ \A o \in Oracles : Len(ans'[o]) =< PipeCap
    BY <1>11, <2>2 DEF FRead
  <2>4. /\ fz' \in {"recv", "verdict"} /\ k' \in Oracles
        /\ line' \in Tokens \cup {"none"} /\ diverged' \in 0..N
    BY <1>11, <2>2, JudgeType DEF FRead, Tokens
  <2> QED
    BY <1>11, <2>3, <2>4 DEF FRead
<1>12. CASE FNoAnswer
  BY <1>12 DEF FNoAnswer
<1>13. CASE FReap
  BY <1>13, JudgeType DEF FReap
<1>14. CASE FVerdict
  BY <1>14 DEF FVerdict
<1>15. CASE FStop
  BY <1>15 DEF FStop
<1>16. CASE FTimeout
  BY <1>16 DEF FTimeout
<1>17. ASSUME NEW o \in Oracles, OracleStep(o) \/ OCrash(o) PROVE TypeOK'
  <2>1. CASE ORead(o)
    <3>1. got[o] + req[o] \in Nat /\ (got[o] + req[o] >= ReqLen => got[o] + req[o] - ReqLen \in Nat)
      OBVIOUS
    <3>2. got' \in [Oracles -> Nat]
      <4>1. CASE got[o] + req[o] >= ReqLen
        <5>1. got' = [got EXCEPT ![o] = got[o] + req[o] - ReqLen]
          BY <2>1, <4>1 DEF ORead
        <5>2. got[o] + req[o] - ReqLen \in Nat
          BY <3>1, <4>1
        <5> QED
          BY <5>1, <5>2
      <4>2. CASE ~(got[o] + req[o] >= ReqLen)
        BY <2>1, <3>1, <4>2 DEF ORead
      <4> QED
        BY <4>1, <4>2
    <3>3. proc' \in [Oracles -> {"none"} \cup Live \cup Ended]
      BY <2>1 DEF ORead
    <3>4. req' \in [Oracles -> 0..PipeCap]
      BY <2>1 DEF ORead
    <3> QED
      BY <2>1, <3>2, <3>3, <3>4 DEF ORead
  <2>2. CASE OEof(o)
    BY <2>2 DEF OEof
  <2>3. CASE OOpen(o)
    BY <2>3 DEF OOpen
  <2>4. ASSUME NEW t \in Tokens, Put(o, t)
        PROVE  /\ req' = req /\ ans' \in [Oracles -> Seq(Tokens)]
               /\ \A p \in Oracles : Len(ans'[p]) =< PipeCap
    <3>1. CASE fz \in Over
      BY <2>4, <3>1 DEF Put
    <3>2. CASE fz \notin Over
      <4>1. /\ Len(ans[o]) < PipeCap /\ req' = req
            /\ ans' = [ans EXCEPT ![o] = Append(@, t)]
        BY <2>4, <3>2 DEF Put
      <4>2. Append(ans[o], t) \in Seq(Tokens) /\ Len(Append(ans[o], t)) =< PipeCap
        BY <2>4, <4>1, AppendProperties
      <4> QED
        BY <4>1, <4>2
    <3> QED
      BY <3>1, <3>2
  <2>5. CASE OSay(o)
    BY <2>5, <2>4, DigestType DEF OSay
  <2>6. CASE OEol(o)
    BY <2>6, <2>4 DEF OEol, Tokens
  <2>7. CASE OExit(o) \/ OCrash(o)
    BY <2>7 DEF OExit, OCrash
  <2> QED
    BY <1>17, <2>1, <2>2, <2>3, <2>5, <2>6, <2>7 DEF OracleStep
<1> QED
  BY <1>1, <1>2, <1>3, <1>4, <1>5, <1>6, <1>7, <1>8, <1>9, <1>10, <1>11, <1>12,
     <1>13, <1>14, <1>15, <1>16, <1>17 DEF Next, FuzzerStep

(* In every behaviour, for any number of oracles up to ORACLE_MAX and any  *)
(* pipe capacity, the variables keep their types: no pipe exceeds its      *)
(* capacity and the loops stay within the oracles started.                 *)
THEOREM OracleTypes == Spec => []TypeOK
BY TypeInit, TypeStep, PTL DEF Spec

-----------------------------------------------------------------------------
(* What a step that leaves oracle o alone keeps of its stage. *)

Same(o) ==
    /\ proc'[o] = proc[o] /\ got'[o] = got[o] /\ held'[o] = held[o]
    /\ req'[o] = req[o] /\ ans'[o] = ans[o]

(* The frame of each stage: it depends on the variables of o alone, *)
LEMMA QuietFrame ==
    ASSUME NEW o \in Oracles, Same(o) PROVE Quiet(o) => Quiet(o)'
BY DEF Same, Quiet

(* before o is started, *)
LEMMA UnbornFrame ==
    ASSUME NEW o \in Oracles, Same(o) PROVE Unborn(o) => Unborn(o)'
BY DEF Same, Unborn

(* after its request failed, *)
LEMMA UnsentFrame ==
    ASSUME NEW o \in Oracles, Same(o) PROVE Unsent(o) => Unsent(o)'
BY DEF Same, Unsent

(* while its request is being written, *)
LEMMA SendingFrame ==
    ASSUME NEW o \in Oracles, Same(o), left' = left PROVE Sending(o) => Sending(o)'
BY DEF Same, Sending

(* and while its answer is owed, which the fuzzer's line is part of. *)
LEMMA PendingFrame ==
    ASSUME NEW o \in Oracles, Same(o), sent'[o] = sent[o], cur' = cur, bad' = bad,
           DigestRead(o)' <=> DigestRead(o), DigestRead(o) => line' = line
    PROVE  Pending(o) => Pending(o)'
<1> SUFFICES ASSUME Pending(o) PROVE Pending(o)'
  OBVIOUS
<1>1. Digest(o, cur)' = Digest(o, cur)
  BY DEF Digest
<1>2. CASE sent[o]
  <2>1. ASSUME NEW n \in 0..2, Written(o, n) PROVE Written(o, n)'
    BY <1>1, <2>1 DEF Same, Written
  <2>2. Owed(o)
    BY <1>2 DEF Pending
  <2>z. 0 \in 0..2 /\ 1 \in 0..2 /\ 2 \in 0..2
    OBVIOUS
  <2>3. /\ proc'[o] \in Live \cup Ended
        /\ DigestRead(o)' => line' = Digest(o, cur)'
        /\ proc'[o] \in {"open", "run", "eol"} => got'[o] = 0 /\ req'[o] = 0
        /\ proc'[o] \in {"run", "eol"} => held'[o] = cur'
    BY <2>2, <1>1 DEF Same, Owed
  <2>4. /\ proc'[o] = "idle" =>
             \/ got'[o] + req'[o] = ReqLen /\ Written(o, 0)'
             \/ got'[o] = 0 /\ req'[o] = 0 /\ Written(o, 2)'
    BY <2>2, <2>1, <2>z DEF Same, Owed
  <2>5. /\ proc'[o] \in {"open", "run"} => Written(o, 0)'
        /\ proc'[o] = "eol" => Written(o, 1)'
    BY <2>2, <2>1, <2>z DEF Same, Owed
  <2>6. proc'[o] \in Ended => \E n \in 0..2 : Written(o, n)'
    BY <2>2, <2>1 DEF Same, Owed
  <2>7. Owed(o)'
    BY <2>3, <2>4, <2>5, <2>6 DEF Owed
  <2> QED
    BY <2>7, <1>2 DEF Pending
<1>3. CASE ~sent[o]
  BY <1>3, UnsentFrame DEF Pending
<1> QED
  BY <1>2, <1>3

-----------------------------------------------------------------------------
(* A step of oracle o's own process. *)

(* It touches neither the fuzzer's variables nor another oracle's. *)
LEMMA OracleOthers ==
    ASSUME TypeOK, NEW o \in Oracles, OracleStep(o) \/ OCrash(o)
    PROVE  /\ UNCHANGED <<fuzzVars, file, bad>>
           /\ \A p \in Oracles \ {o} : Same(p)
<1> USE DEF TypeOK, pipeVars, fuzzVars, Same
<1>1. CASE ORead(o)
  BY <1>1 DEF ORead
<1>2. CASE OEof(o)
  BY <1>2 DEF OEof
<1>3. CASE OOpen(o)
  BY <1>3 DEF OOpen
<1>4. CASE OSay(o)
  BY <1>4 DEF OSay, Put
<1>5. CASE OEol(o)
  BY <1>5 DEF OEol, Put
<1>6. CASE OExit(o)
  BY <1>6 DEF OExit
<1>7. CASE OCrash(o)
  BY <1>7 DEF OCrash
<1> QED
  BY <1>1, <1>2, <1>3, <1>4, <1>5, <1>6, <1>7 DEF OracleStep

(* A process that ended stays so, and its answers stay as they are. *)
LEMMA OnceEnded ==
    ASSUME TypeOK, NEW o \in Oracles, OracleStep(o) \/ OCrash(o), proc[o] \in Ended
    PROVE  proc'[o] \in Ended /\ ans'[o] = ans[o]
BY DEF TypeOK, OracleStep, ORead, OEof, OOpen, OSay, OEol, OExit, OCrash, Live, Ended, pipeVars

(* A crash ends the process with its pipes as they are. *)
LEMMA CrashStep ==
    ASSUME TypeOK, NEW o \in Oracles, OCrash(o) \/ OExit(o)
    PROVE  /\ proc[o] \in Live \cup Ended /\ proc'[o] \in Ended /\ ans'[o] = ans[o]
BY DEF TypeOK, OCrash, OExit, Live, Ended, pipeVars

(* A process with nothing to do stays quiet: it waits, or it dies. *)
LEMMA QuietStep ==
    ASSUME TypeOK, fz \notin Over, NEW o \in Oracles, OracleStep(o) \/ OCrash(o), Quiet(o)
    PROVE  Quiet(o)'
<1>1. CASE OCrash(o) \/ OExit(o)
  BY <1>1, CrashStep DEF Quiet, Live, Ended
<1>2. CASE ORead(o)
  BY <1>2, OracleAssumption DEF ORead, Quiet, Live
<1>3. CASE OEof(o)
  BY <1>3 DEF OEof, StdinOpen
<1>4. CASE OOpen(o) \/ OSay(o) \/ OEol(o)
  BY <1>4 DEF OOpen, OSay, OEol, Quiet, Live
<1> QED
  BY <1>1, <1>2, <1>3, <1>4 DEF OracleStep

(* A process not started takes no step. *)
LEMMA UnbornStep ==
    ASSUME NEW o \in Oracles, OracleStep(o) \/ OCrash(o), Unborn(o)
    PROVE  FALSE
BY DEF Unborn, OracleStep, ORead, OEof, OOpen, OSay, OEol, OExit, OCrash, Live

(* One that ended without its request stays so. *)
LEMMA UnsentStep ==
    ASSUME TypeOK, NEW o \in Oracles, OracleStep(o) \/ OCrash(o), Unsent(o)
    PROVE  Unsent(o)'
BY OnceEnded DEF Unsent

(* One whose request is not yet whole may only read what has come of it. *)
LEMMA SendingStep ==
    ASSUME TypeOK, fz = "send", left # 0, NEW o \in Oracles,
           OracleStep(o) \/ OCrash(o), Sending(o)
    PROVE  Sending(o)'
<1>0. fz \notin Over /\ left' = left
  BY OracleOthers DEF Over, fuzzVars
<1>1. CASE OCrash(o) \/ OExit(o)
  BY <1>1, CrashStep DEF Sending, Live, Ended
<1>2. CASE ORead(o)
  <2>1. /\ proc[o] = "idle" /\ got[o] + req[o] + left = ReqLen /\ ans[o] = << >>
        /\ got[o] \in Nat /\ req[o] \in Nat /\ left \in Nat /\ ReqLen \in Nat
    BY <1>2, OracleAssumption DEF ORead, Sending, Live, TypeOK
  <2>2. ~(got[o] + req[o] >= ReqLen)
    BY <2>1
  <2>3. /\ proc' = proc /\ got'[o] = got[o] + req[o] /\ req'[o] = 0 /\ ans'[o] = ans[o]
    BY <1>2, <2>2 DEF ORead, TypeOK
  <2> QED
    BY <1>0, <2>1, <2>3 DEF Sending, Live
<1>3. CASE OEof(o)
  BY <1>0, <1>3 DEF OEof, StdinOpen
<1>4. CASE OOpen(o) \/ OSay(o) \/ OEol(o)
  BY <1>4 DEF OOpen, OSay, OEol, Sending, Live
<1> QED
  BY <1>1, <1>2, <1>3, <1>4 DEF OracleStep

(* The two lengths an answer pipe grows to. *)
LEMMA AppendToNone == ASSUME NEW S, NEW x \in S PROVE Append(<< >>, x) = <<x>>
OBVIOUS

(* The second byte, the newline, lands behind the digest. *)
LEMMA AppendToOne == ASSUME NEW S, NEW x \in S, NEW y \in S PROVE Append(<<x>>, y) = <<x, y>>
<1> DEFINE s == <<x>>
<1>1. s \in Seq(S) /\ Len(s) = 1 /\ s[1] = x
  OBVIOUS
<1>2. /\ Append(s, y) \in Seq(S) /\ Len(Append(s, y)) = 2
      /\ Append(s, y)[1] = x /\ Append(s, y)[2] = y
  BY <1>1, AppendProperties
<1>3. <<x, y>> \in Seq(S) /\ Len(<<x, y>>) = 2 /\ <<x, y>>[1] = x /\ <<x, y>>[2] = y
  OBVIOUS
<1> HIDE DEF s
<1>4. \A i \in 1 .. Len(Append(s, y)) : Append(s, y)[i] = <<x, y>>[i]
  BY <1>2, <1>3
<1> QED
  BY <1>2, <1>3, <1>4, SeqEqual DEF s

(* A process at work on the request keeps to it: it reads the file while   *)
(* that holds the input under comparison, and prints that input's digest.  *)
LEMMA OwedStep ==
    ASSUME TypeOK, fz \notin Over, file = cur, NEW o \in Oracles,
           OracleStep(o) \/ OCrash(o), Owed(o)
    PROVE  Owed(o)'
<1>0. /\ UNCHANGED <<fuzzVars, file, bad>> /\ Digest(o, cur)' = Digest(o, cur)
      /\ DigestRead(o)' = DigestRead(o) /\ line' = line /\ cur' = cur
  BY OracleOthers DEF fuzzVars, Digest, DigestRead
<1>z. 0 \in 0..2 /\ 1 \in 0..2 /\ 2 \in 0..2
  OBVIOUS
<1>a. ASSUME NEW n \in 0..2, Written(o, n), ans'[o] = ans[o] PROVE Written(o, n)'
  BY <1>0, <1>a DEF Written
<1>b. DigestRead(o)' => line' = Digest(o, cur)'
  BY <1>0 DEF Owed
<1>1. CASE OCrash(o) \/ OExit(o)
  <2>1. proc[o] \in Live \cup Ended /\ proc'[o] \in Ended /\ ans'[o] = ans[o]
    BY <1>1, CrashStep
  <2>2. \E n \in 0..2 : Written(o, n)
    BY <2>1, <1>z DEF Owed, Live
  <2>3. \E n \in 0..2 : Written(o, n)'
    BY <2>1, <2>2, <1>a
  <2> QED
    BY <1>b, <2>1, <2>3 DEF Owed, Ended
<1>2. CASE ORead(o)
  <2>0. /\ proc[o] = "idle" /\ got[o] \in Nat /\ req[o] \in Nat /\ ReqLen \in Nat \ {0}
        /\ req[o] > 0 \/ got[o] >= ReqLen
    BY <1>2, OracleAssumption DEF ORead, TypeOK
  <2>1. got[o] + req[o] = ReqLen /\ Written(o, 0)
    BY <2>0 DEF Owed
  <2>2. /\ proc'[o] = "open" /\ got'[o] = 0 /\ req'[o] = 0 /\ ans'[o] = ans[o]
    BY <1>2, <2>0, <2>1 DEF ORead, TypeOK
  <2>3. Written(o, 0)'
    BY <2>1, <2>2, <1>a, <1>z
  <2> QED
    BY <1>b, <2>2, <2>3 DEF Owed, Live, Ended
<1>3. CASE OEof(o)
  BY <1>3 DEF OEof, StdinOpen
<1>4. CASE OOpen(o)
  <2>1. /\ proc[o] = "open" /\ proc'[o] = "run" /\ held'[o] = cur'
        /\ got'[o] = got[o] /\ req'[o] = req[o] /\ ans'[o] = ans[o]
    BY <1>0, <1>4 DEF OOpen, TypeOK, pipeVars
  <2>2. Written(o, 0)'
    BY <2>1, <1>a, <1>z DEF Owed
  <2> QED
    BY <1>b, <2>1, <2>2 DEF Owed, Live, Ended
<1>5. CASE OSay(o)
  <2>1. /\ proc[o] = "run" /\ proc'[o] = "eol" /\ held'[o] = held[o] /\ held[o] = cur
        /\ got'[o] = 0 /\ req'[o] = 0 /\ Written(o, 0)
        /\ ans'[o] = Append(ans[o], Digest(o, cur))
    BY <1>5 DEF OSay, Put, TypeOK, Owed
  <2>2. ans[o] = << >> /\ ~DigestRead(o)
    BY <2>1 DEF Written
  <2>3. ans'[o] = <<Digest(o, cur)>>
    BY <2>1, <2>2, AppendToNone, DigestType
  <2>4. ans'[o] = <<Digest(o, cur)'>> /\ ~DigestRead(o)'
    BY <2>2, <2>3, <1>0
  <2>5. Written(o, 1)'
    BY <2>4 DEF Written
  <2> QED
    BY <1>0, <1>b, <2>1, <2>5 DEF Owed, Live, Ended
<1>6. CASE OEol(o)
  <2>1. /\ proc[o] = "eol" /\ proc'[o] = "idle"
        /\ got'[o] = 0 /\ req'[o] = 0 /\ Written(o, 1)
        /\ ans'[o] = Append(ans[o], "newline")
    BY <1>6 DEF OEol, Put, TypeOK, Owed
  <2>2. CASE DigestRead(o)
    <3>1. ans[o] = << >>
      BY <2>1, <2>2 DEF Written
    <3>2. ans'[o] = <<"newline">> /\ DigestRead(o)'
      BY <2>1, <2>2, <3>1, <1>0, AppendToNone
    <3>3. Written(o, 2)'
      BY <3>2 DEF Written
    <3> QED
      BY <1>b, <2>1, <3>3 DEF Owed, Live, Ended
  <2>3. CASE ~DigestRead(o)
    <3>1. ans[o] = <<Digest(o, cur)>>
      BY <2>1, <2>3 DEF Written
    <3>2. "newline" \in Tokens
      BY DEF Tokens
    <3>3. ans'[o] = <<Digest(o, cur), "newline">>
      BY <2>1, <3>1, <3>2, AppendToOne, DigestType
    <3>4. ans'[o] = <<Digest(o, cur)', "newline">> /\ ~DigestRead(o)'
      BY <2>3, <3>3, <1>0
    <3>5. Written(o, 2)'
      BY <3>4 DEF Written
    <3> QED
      BY <1>b, <2>1, <3>5 DEF Owed, Live, Ended
  <2> QED
    BY <2>2, <2>3
<1> QED
  BY <1>1, <1>2, <1>3, <1>4, <1>5, <1>6 DEF OracleStep

(* Both outcomes of the sending are stable under the steps of the process. *)
LEMMA PendingStep ==
    ASSUME TypeOK, fz \notin Over, file = cur, NEW o \in Oracles,
           OracleStep(o) \/ OCrash(o), Pending(o)
    PROVE  Pending(o)'
<1>1. sent' = sent
  BY OracleOthers DEF fuzzVars
<1> QED
  BY <1>1, OwedStep, UnsentStep DEF Pending

-----------------------------------------------------------------------------
(* The verdict. *)

(* A verdict stays sound while the input is the same and what ended stays   *)
(* ended.                                                                   *)
LEMMA VerdictFrame ==
    ASSUME TypeOK, VerdictSound, diverged' = diverged, cur' = cur, bad' = bad,
           \A o \in Oracles : proc[o] \in Ended => proc'[o] \in Ended
    PROVE  VerdictSound'
BY DEF VerdictSound, TypeOK, Oracles

(* The judgement of oracle k's answer a, when a is the reference digest     *)
(* only if k's build agrees, and not only if it disagrees or has ended.     *)
LEMMA JudgeSound ==
    ASSUME TypeOK, Places, NoneMissed, VerdictSound, fz \in {"recv", "reap"},
           NEW a, Judge(a), cur' = cur, bad' = bad,
           \A o \in Oracles : proc[o] \in Ended => proc'[o] \in Ended,
           a = cur => <<k, cur>> \notin bad,
           a # cur => <<k, cur>> \in bad \/ proc'[k] \in Ended
    PROVE  /\ NoneMissed' /\ VerdictSound'
           /\ fz' = "recv" => diverged' < k'
<1>0. k \in Oracles /\ diverged \in 0..N /\ diverged < k /\ N \in 1..16
  BY OracleAssumption DEF Places, TypeOK
<1>1. diverged = 0 => \A o \in Oracles : o < k => <<o, cur>> \notin bad
  BY DEF NoneMissed
<1>2. NoneMissed'
  <2> SUFFICES ASSUME diverged' = 0 PROVE
                 /\ fz' \in {"recv", "reap"} => \A o \in Oracles : o < k' => <<o, cur>> \notin bad
                 /\ fz' \in {"verdict", "idle"} => \A o \in Oracles : <<o, cur>> \notin bad
    BY DEF NoneMissed
  <2>1. diverged = 0 /\ a = cur
    BY <1>0 DEF Judge, Oracles
  <2>2. \A o \in Oracles : o < k \/ o = k => <<o, cur>> \notin bad
    BY <2>1, <1>1
  <2>3. CASE k < N
    <3>1. fz' = "recv" /\ k' = k + 1
      BY <2>3 DEF Judge
    <3> QED
      BY <3>1, <2>2, <1>0 DEF Oracles
  <2>4. CASE ~(k < N)
    <3>1. fz' = "verdict" /\ \A o \in Oracles : o < k \/ o = k
      BY <2>4, <1>0 DEF Judge, Oracles
    <3> QED
      BY <3>1, <2>2
  <2> QED
    BY <2>3, <2>4
<1>3. VerdictSound'
  <2>1. CASE diverged' = diverged
    BY <2>1, VerdictFrame
  <2>2. CASE diverged' # diverged
    <3>1. diverged = 0 /\ a # cur /\ diverged' = k
      BY <2>2 DEF Judge
    <3>2. \A o \in 1..(k - 1) : <<o, cur>> \notin bad
      BY <3>1, <1>0, <1>1 DEF Oracles
    <3> QED
      BY <3>1, <3>2 DEF VerdictSound
  <2> QED
    BY <2>1, <2>2
<1>4. ASSUME fz' = "recv" PROVE diverged' < k'
  <2>1. k' = k + 1
    BY <1>4 DEF Judge
  <2>2. diverged' = diverged \/ diverged' = k
    BY DEF Judge
  <2> QED
    BY <2>1, <2>2, <1>0 DEF Oracles
<1> QED
  BY <1>2, <1>3, <1>4

-----------------------------------------------------------------------------
(* The steps of the fuzzer, one lemma each where there is something to say. *)

Rest == Stages /\ Places /\ NoneMissed /\ VerdictSound

(* However the fuzzer ends, nothing is promised but the verdict it reached. *)
LEMMA OverStep ==
    ASSUME TypeOK, Rest, fz' \in Over, UNCHANGED <<cur, diverged, proc, file, bad>>
    PROVE  Rest'
<1>1. VerdictSound'
  BY VerdictFrame DEF Rest
<1> QED
  BY <1>1 DEF Rest, Stages, Places, NoneMissed, Over

(* Starting oracle k makes it quiet and leaves the later ones unborn. *)
LEMMA SpawnStep == ASSUME TypeOK, Rest, FSpawn PROVE Rest'
<1>0. fz = "spawn" /\ diverged' = 0 /\ k \in Oracles /\ line' = "none" /\ fz' \in {"spawn", "open"}
  BY DEF FSpawn, Rest, Places, TypeOK, Over
<1>1. ASSUME NEW o \in Oracles PROVE IF o < k \/ o = k THEN Quiet(o)' ELSE Unborn(o)'
  <2>1. CASE o = k
    <3>1. Unborn(o)
      BY <1>0, <2>1 DEF Rest, Stages, Oracles
    <3> QED
      BY <2>1, <3>1 DEF FSpawn, Unborn, Quiet, TypeOK, Live, pipeVars
  <2>2. CASE o # k
    <3>1. Same(o)
      BY <2>2 DEF FSpawn, Same, TypeOK, pipeVars
    <3>2. IF o < k THEN Quiet(o) ELSE Unborn(o)
      BY <1>0 DEF Rest, Stages
    <3> QED
      BY <2>2, <3>1, <3>2, QuietFrame, UnbornFrame
  <2> QED
    BY <2>1, <2>2
<1>2. Stages'
  <2>1. CASE k < N
    <3>1. k' = k + 1 /\ fz' = "spawn"
      BY <1>0, <2>1 DEF FSpawn
    <3>2. \A o \in Oracles : o < k' <=> (o < k \/ o = k)
      BY <1>0, <3>1 DEF Oracles
    <3> QED
      BY <1>1, <3>1, <3>2 DEF Stages
  <2>2. CASE ~(k < N)
    <3>1. fz' = "open"
      BY <2>2 DEF FSpawn
    <3>2. \A o \in Oracles : o < k \/ o = k
      BY <2>2, <1>0, OracleAssumption DEF Oracles
    <3> QED
      BY <1>1, <3>1, <3>2 DEF Stages
  <2> QED
    BY <2>1, <2>2
<1> QED
  BY <1>0, <1>2 DEF Rest, Places, NoneMissed, VerdictSound

(* A check begins, and its input goes to the file: every oracle is quiet.   *)
LEMMA OpenStep == ASSUME TypeOK, Rest, FBegin \/ FOpen PROVE Rest'
<1>0. /\ fz \in {"idle", "open"} /\ fz' \in {"open", "write"} /\ diverged' = 0
      /\ line' = "none" /\ \A o \in Oracles : Same(o)
  BY DEF FBegin, FOpen, Rest, Places, Same, Over, procVars, pipeVars
<1>1. \A o \in Oracles : Quiet(o)'
  BY <1>0, QuietFrame DEF Rest, Stages
<1> QED
  BY <1>0, <1>1 DEF Rest, Stages, Places, NoneMissed, VerdictSound

(* With the file whole the sending loop starts at the first oracle. *)
LEMMA WriteStep == ASSUME TypeOK, Rest, FWrite PROVE Rest'
<1>0. /\ fz = "write" /\ fz' = "send" /\ diverged' = 0 /\ k' = 1 /\ left' = ReqLen
      /\ line' = "none" /\ file' = cur' /\ \A o \in Oracles : Same(o)
  BY DEF FWrite, Rest, Places, Same, Over, procVars, pipeVars
<1>1. \A o \in Oracles : Quiet(o) /\ Quiet(o)'
  BY <1>0, QuietFrame DEF Rest, Stages
<1>2. ASSUME NEW o \in Oracles PROVE Sending(o)'
  BY <1>0, <1>1, OracleAssumption DEF Quiet, Sending
<1>3. \A o \in Oracles : ~(o < k')
  BY <1>0 DEF Oracles
<1> QED
  BY <1>0, <1>1, <1>2, <1>3, OracleAssumption DEF Rest, Stages, Places, NoneMissed, VerdictSound

(* The end of the sending loop's iteration k. *)
LEMMA SentStep ==
    ASSUME TypeOK, Rest, fz = "send", NEW ok \in BOOLEAN, SentTo(ok),
           UNCHANGED <<cur, line, diverged, file, bad, proc>>,
           \A o \in Oracles : IF o = k THEN Pending(o)' ELSE Same(o)
    PROVE  Rest'
<1>0. /\ k \in Oracles /\ diverged' = 0 /\ line' = "none" /\ line = "none" /\ file' = cur'
      /\ N \in 1..16 /\ ReqLen \in Nat \ {0}
  BY OracleAssumption DEF Rest, Places, Over, TypeOK
<1>1. \A o \in Oracles : ~DigestRead(o) /\ ~DigestRead(o)'
  BY <1>0 DEF DigestRead
<1>2. ASSUME NEW o \in Oracles, o < k \/ o = k PROVE Pending(o)'
  <2>1. CASE o # k
    <3>1. sent'[o] = sent[o] /\ Same(o) /\ Pending(o)
      BY <1>2, <2>1 DEF SentTo, TypeOK, Rest, Stages
    <3> QED
      BY <3>1, <1>1, PendingFrame
  <2> QED
    BY <2>1
<1>3. ASSUME NEW o \in Oracles, ~(o < k \/ o = k) PROVE Quiet(o) /\ Quiet(o)'
  BY <1>3, QuietFrame DEF Rest, Stages
<1>4. Stages' /\ (fz' = "send" => left' # 0) /\ fz' \in {"send", "recv"} /\ (fz' = "recv" => k' = 1)
  <2>1. CASE k < N
    <3>1. k' = k + 1 /\ left' = ReqLen /\ fz' = "send"
      BY <2>1 DEF SentTo
    <3>2. ASSUME NEW o \in Oracles
          PROVE  IF o < k' THEN Pending(o)' ELSE IF o = k' THEN Sending(o)' ELSE Quiet(o)'
      <4>1. CASE o < k'
        BY <4>1, <3>1, <1>0, <1>2 DEF Oracles
      <4>2. CASE ~(o < k')
        <5>1. Quiet(o)'
          BY <4>2, <3>1, <1>0, <1>3 DEF Oracles
        <5>2. Sending(o)'
          BY <5>1, <3>1, <1>0 DEF Quiet, Sending
        <5> QED
          BY <4>2, <5>1, <5>2
      <4> QED
        BY <4>1, <4>2
    <3> QED
      BY <1>0, <3>1, <3>2 DEF Stages
  <2>2. CASE ~(k < N)
    <3>1. fz' = "recv" /\ k' = 1
      BY <2>2 DEF SentTo
    <3>2. \A o \in Oracles : (o < k \/ o = k) /\ ~(o < k')
      BY <3>1, <2>2, <1>0 DEF Oracles
    <3> QED
      BY <1>2, <3>1, <3>2 DEF Stages
  <2> QED
    BY <2>1, <2>2
<1> QED
  BY <1>0, <1>4 DEF Rest, Places, NoneMissed, VerdictSound, Oracles

(* A request that reaches the pipe whole is owed an answer. *)
LEMMA SendStep == ASSUME TypeOK, Rest, FSend PROVE Rest'
<1>0. /\ fz = "send" /\ k \in Oracles /\ proc[k] \in Live /\ Sending(k) /\ diverged = 0
      /\ line = "none" /\ file = cur
      /\ UNCHANGED <<startup, cur, line, diverged, proc, got, held, ans, file, bad>>
  BY DEF FSend, Rest, Stages, Places, TypeOK, Over, procVars, Oracles
<1>1. PICK n \in 1..left :
         /\ req' = [req EXCEPT ![k] = @ + n]
         /\ IF n = left THEN SentTo(TRUE)
                        ELSE left' = left - n /\ UNCHANGED <<fz, k, sent>>
  BY DEF FSend
<1>2. /\ proc[k] = "idle" /\ got[k] + req[k] + left = ReqLen /\ ans[k] = << >>
      /\ req'[k] = req[k] + n
      /\ left \in Nat /\ got[k] \in Nat /\ req[k] \in Nat /\ n \in Nat
  BY <1>0, <1>1, OracleAssumption DEF Sending, TypeOK
<1>3. \A o \in Oracles \ {k} : Same(o)
  BY <1>0, <1>1 DEF Same, TypeOK
<1>4. CASE n = left
  <2>0. SentTo(TRUE)
    BY <1>1, <1>4
  <2>1. got[k] + req'[k] = ReqLen
    BY <1>2, <1>4
  <2>2. ASSUME NEW o \in Oracles, o = k PROVE Pending(o)'
    <3>1. ~DigestRead(o)'
      BY <1>0 DEF DigestRead
    <3>2. Written(o, 0)'
      BY <1>0, <1>2, <2>2, <3>1 DEF Written
    <3>3. Owed(o)'
      BY <1>0, <1>2, <2>1, <2>2, <3>1, <3>2 DEF Owed, Live, Ended
    <3>4. sent'[o]
      BY <2>0, <2>2 DEF SentTo, TypeOK
    <3> QED
      BY <3>3, <3>4 DEF Pending
  <2> QED
    BY <1>0, <1>3, <2>0, <2>2, SentStep
<1>5. CASE n # left
  <2>1. left' = left - n /\ left' # 0 /\ UNCHANGED <<fz, k, sent>>
    BY <1>1, <1>2, <1>5
  <2>2. got[k] + req'[k] + left' = ReqLen
    BY <1>2, <2>1
  <2>3. Sending(k)'
    BY <1>0, <1>2, <2>1, <2>2 DEF Sending, Live
  <2>4. \A o \in Oracles : ~DigestRead(o) /\ ~DigestRead(o)'
    BY <1>0 DEF DigestRead
  <2>5. \A o \in Oracles \ {k} : Pending(o) => Pending(o)'
    BY <1>0, <1>3, <2>1, <2>4, PendingFrame
  <2>6. \A o \in Oracles \ {k} : Quiet(o) => Quiet(o)'
    BY <1>3, QuietFrame
  <2>7. Stages'
    BY <1>0, <2>1, <2>3, <2>5, <2>6 DEF Rest, Stages, Oracles
  <2> QED
    BY <1>0, <2>1, <2>7 DEF Rest, Places, NoneMissed, VerdictSound
<1> QED
  BY <1>4, <1>5

(* A request whose reader is gone is answered by nothing. *)
LEMMA EpipeStep == ASSUME TypeOK, Rest, FSendEpipe PROVE Rest'
<1>a. /\ fz = "send" /\ k \in Oracles /\ proc[k] \in Ended /\ SentTo(FALSE)
      /\ UNCHANGED <<startup, cur, line, diverged, proc, got, held, req, ans, file, bad>>
  BY DEF FSendEpipe, TypeOK, procVars, pipeVars
<1>b. ~(k < k)
  BY <1>a DEF Oracles
<1>0. Sending(k)
  BY <1>a, <1>b DEF Rest, Stages
<1>1. \A o \in Oracles \ {k} : Same(o)
  BY <1>a, <1>0 DEF Same
<1>2. ASSUME NEW o \in Oracles, o = k PROVE Pending(o)'
  <2>1. sent'[o] = FALSE
    BY <1>a, <1>0, <1>2 DEF SentTo, TypeOK
  <2> QED
    BY <1>a, <1>0, <1>2, <2>1 DEF Pending, Unsent, Sending
<1> QED
  BY <1>a, <1>0, <1>1, <1>2, SentStep

(* The end of the receiving loop's iteration k: oracle k is quiet again. *)
LEMMA JudgeStep ==
    ASSUME TypeOK, Rest, fz \in {"recv", "reap"}, NEW a, Judge(a),
           UNCHANGED <<cur, sent, file, bad>>,
           \A o \in Oracles : IF o = k THEN Quiet(o)' ELSE Same(o),
           \A o \in Oracles : proc[o] \in Ended => proc'[o] \in Ended,
           a = cur => <<k, cur>> \notin bad,
           a # cur => <<k, cur>> \in bad \/ proc'[k] \in Ended
    PROVE  Rest'
<1>0. /\ k \in Oracles /\ N \in 1..16 /\ line' = "none" /\ fz' \in {"recv", "verdict"}
      /\ file' = cur'
  BY OracleAssumption DEF TypeOK, Judge, Rest, Places
<1>1. NoneMissed' /\ VerdictSound' /\ (fz' = "recv" => diverged' < k')
  BY JudgeSound DEF Rest
<1>2. ASSUME NEW o \in Oracles, o < k \/ o = k PROVE Quiet(o)'
  <2>1. CASE o # k
    BY <1>2, <2>1, QuietFrame DEF Rest, Stages
  <2> QED
    BY <2>1
<1>3. ASSUME NEW o \in Oracles, ~(o < k \/ o = k) PROVE Pending(o)'
  <2>1. Same(o) /\ Pending(o) /\ sent'[o] = sent[o]
    BY <1>3 DEF Rest, Stages
  <2>2. ~DigestRead(o) /\ ~DigestRead(o)'
    BY <1>0, <1>3 DEF DigestRead
  <2> QED
    BY <2>1, <2>2, PendingFrame
<1>4. Stages'
  <2>1. CASE k < N
    <3>1. k' = k + 1 /\ fz' = "recv"
      BY <2>1 DEF Judge
    <3>2. \A o \in Oracles : o < k' <=> (o < k \/ o = k)
      BY <3>1, <1>0 DEF Oracles
    <3> QED
      BY <1>2, <1>3, <3>1, <3>2 DEF Stages
  <2>2. CASE ~(k < N)
    <3>1. fz' = "verdict"
      BY <2>2 DEF Judge
    <3>2. \A o \in Oracles : o < k \/ o = k
      BY <2>2, <1>0 DEF Oracles
    <3> QED
      BY <1>2, <3>1, <3>2 DEF Stages
  <2> QED
    BY <2>1, <2>2
<1> QED
  BY <1>0, <1>1, <1>4 DEF Rest, Places

(* What an oracle's build makes of the input tells whether it agrees. *)
LEMMA DigestTells ==
    ASSUME TypeOK, NEW o \in Oracles
    PROVE  /\ Digest(o, cur) \notin {"newline", "none", "ended"}
           /\ Digest(o, cur) = cur <=> <<o, cur>> \notin bad
           /\ cur # "ended"
BY OracleAssumption DEF Digest, TypeOK

(* The first byte of an answer is the digest. *)
LEMMA DigestByteStep ==
    ASSUME TypeOK, Rest, FRead, line = "none" PROVE Rest'
<1>0. /\ fz = "recv" /\ k \in Oracles /\ sent[k] /\ ans[k] # << >>
      /\ UNCHANGED <<cur, left, sent, proc, got, held, req, file, bad>>
  BY DEF FRead, TypeOK, procVars
<1>a. ~(k < k)
  BY <1>0 DEF Oracles
<1>b. Owed(k) /\ ~DigestRead(k) /\ Digest(k, cur) # "newline" /\ Digest(k, cur) # "none"
  BY <1>0, <1>a, DigestTells DEF Rest, Stages, Pending, DigestRead
<1>1. \/ ans[k] = <<Digest(k, cur)>> /\ (proc[k] \in Ended \/ proc[k] = "eol")
      \/ ans[k] = <<Digest(k, cur), "newline">>
         /\ (proc[k] \in Ended \/ (proc[k] = "idle" /\ got[k] = 0 /\ req[k] = 0))
  <2>1. ~Written(k, 0)
    BY <1>0 DEF Written
  <2>2. Written(k, 1) => ans[k] = <<Digest(k, cur)>>
    BY <1>b DEF Written
  <2>3. Written(k, 2) => ans[k] = <<Digest(k, cur), "newline">>
    BY <1>b DEF Written
  <2>4. proc[k] \in Ended => Written(k, 1) \/ Written(k, 2)
    BY <1>b, <2>1 DEF Owed
  <2> QED
    BY <1>b, <2>1, <2>2, <2>3, <2>4 DEF Owed, Live
<1>2. /\ Head(ans[k]) = Digest(k, cur)
      /\ Tail(ans[k]) = IF ans[k] = <<Digest(k, cur)>> THEN << >> ELSE <<"newline">>
  <2>1. CASE ans[k] = <<Digest(k, cur)>>
    BY <2>1
  <2>2. CASE ans[k] = <<Digest(k, cur), "newline">>
    BY <2>2
  <2> QED
    BY <1>1, <2>1, <2>2
<1>3. /\ ans' = [ans EXCEPT ![k] = Tail(@)] /\ line' = Digest(k, cur)
      /\ UNCHANGED <<fz, k, diverged>>
  BY <1>b, <1>2 DEF FRead
<1>4. ASSUME NEW o \in Oracles, o = k PROVE Pending(o)'
  <2>1. DigestRead(o)' /\ Digest(o, cur)' = Digest(o, cur) /\ line' = Digest(o, cur)'
    BY <1>0, <1>3, <1>4, <1>b DEF DigestRead, Digest
  <2>2. ans'[o] = Tail(ans[o])
    BY <1>3, <1>4, <1>0 DEF TypeOK
  <2>3. CASE ans[k] = <<Digest(k, cur)>>
    <3>1. Written(o, 1)' /\ proc'[o] \in Ended \cup {"eol"}
      BY <1>0, <1>1, <1>2, <1>4, <2>1, <2>2, <2>3 DEF Written
    <3>2. /\ proc'[o] \in Ended \cup {"eol"} /\ proc'[o] \in Live \cup Ended
          /\ proc'[o] = "eol" => got'[o] = 0 /\ req'[o] = 0 /\ held'[o] = cur'
      BY <1>0, <1>4, <1>b, <3>1 DEF Owed, Live
    <3>3. Owed(o)'
      BY <2>1, <3>1, <3>2 DEF Owed, Live, Ended
    <3> QED
      BY <1>0, <1>4, <3>3 DEF Pending
  <2>4. CASE ans[k] # <<Digest(k, cur)>>
    <3>0. ans'[o] = <<"newline">> /\ proc'[o] \in Ended \cup {"idle"}
      BY <1>0, <1>1, <1>2, <1>4, <2>2, <2>4
    <3>1. Written(o, 2)'
      BY <2>1, <3>0 DEF Written
    <3>2. proc'[o] = "idle" => got'[o] = 0 /\ req'[o] = 0
      BY <1>0, <1>1, <1>4, <2>4 DEF Ended
    <3>3. Owed(o)'
      BY <2>1, <3>0, <3>1, <3>2 DEF Owed, Live, Ended
    <3> QED
      BY <1>0, <1>4, <3>3 DEF Pending
  <2> QED
    BY <2>3, <2>4
<1>5. ASSUME NEW o \in Oracles, o # k
      PROVE  (Quiet(o) => Quiet(o)') /\ (Pending(o) => Pending(o)')
  <2>1. Same(o)
    BY <1>0, <1>3, <1>5 DEF Same, TypeOK
  <2>2. ~DigestRead(o) /\ ~DigestRead(o)'
    BY <1>3, <1>5 DEF DigestRead
  <2> QED
    BY <1>0, <2>1, <2>2, QuietFrame, PendingFrame
<1>6. Stages'
  <2>1. ASSUME NEW o \in Oracles PROVE IF o < k THEN Quiet(o)' ELSE Pending(o)'
    <3>1. IF o < k THEN Quiet(o) ELSE Pending(o)
      BY <1>0 DEF Rest, Stages
    <3>2. CASE o = k
      <4>1. Pending(o)' /\ ~(o < k)
        BY <1>4, <1>a, <3>2
      <4> QED
        BY <4>1
    <3>3. CASE o # k
      BY <3>1, <3>3, <1>5
    <3> QED
      BY <3>2, <3>3
  <2> QED
    BY <1>0, <1>3, <2>1 DEF Stages
<1>7. VerdictSound'
  BY <1>0, <1>3, VerdictFrame DEF Rest
<1> QED
  BY <1>0, <1>3, <1>6, <1>7 DEF Rest, Places, NoneMissed

(* The second is the newline, and then the digest is judged. *)
LEMMA NewlineStep ==
    ASSUME TypeOK, Rest, FRead, line # "none" PROVE Rest'
<1>0. /\ fz = "recv" /\ k \in Oracles /\ sent[k] /\ ans[k] # << >>
      /\ UNCHANGED <<cur, left, sent, proc, got, held, req, file, bad>>
      /\ ans' = [ans EXCEPT ![k] = Tail(@)]
  BY DEF FRead, TypeOK, procVars
<1>a. ~(k < k)
  BY <1>0 DEF Oracles
<1>b. Owed(k) /\ DigestRead(k) /\ line = Digest(k, cur)
  BY <1>0, <1>a DEF Rest, Stages, Pending, DigestRead, Owed
<1>1. /\ ans[k] = <<"newline">>
      /\ proc[k] \in Ended \/ (proc[k] = "idle" /\ got[k] = 0 /\ req[k] = 0)
  <2>1. ~Written(k, 0) /\ ~Written(k, 1)
    BY <1>0, <1>b DEF Written
  <2>2. Written(k, 2) => ans[k] = <<"newline">>
    BY <1>b DEF Written
  <2>3. proc[k] \in Ended => Written(k, 2)
    BY <1>b, <2>1 DEF Owed
  <2> QED
    BY <1>b, <2>1, <2>2, <2>3 DEF Owed, Live
<1>2. Head(ans[k]) = "newline" /\ Tail(ans[k]) = << >>
  BY <1>1
<1>3. Judge(line)
  BY <1>2 DEF FRead
<1>4. ASSUME NEW o \in Oracles PROVE IF o = k THEN Quiet(o)' ELSE Same(o)
  <2>1. CASE o = k
    BY <1>0, <1>1, <1>2, <2>1 DEF Quiet, TypeOK, Live, Ended
  <2>2. CASE o # k
    BY <1>0, <2>2 DEF Same, TypeOK
  <2> QED
    BY <2>1, <2>2
<1>5. line = cur <=> <<k, cur>> \notin bad
  BY <1>0, <1>b, DigestTells
<1> QED
  BY <1>0, <1>3, <1>4, <1>5, JudgeStep

(* No answer: the request was not sent, or the process ended before it      *)
(* answered in full.                                                        *)
LEMMA NoAnswerStep == ASSUME TypeOK, Rest, FNoAnswer PROVE Rest'
<1>0. /\ fz = "recv" /\ k \in Oracles /\ fz' = "reap" /\ line' = "none"
      /\ sent[k] => ans[k] = << >> /\ proc[k] \in Ended
      /\ UNCHANGED <<k, cur, left, sent, diverged, proc, got, held, req, ans, file, bad>>
  BY DEF FNoAnswer, TypeOK, procVars, pipeVars
<1>a. ~(k < k)
  BY <1>0 DEF Oracles
<1>1. \A o \in Oracles : Same(o)
  BY <1>0 DEF Same
<1>2. Unsent(k)'
  <2>1. Unsent(k)
    BY <1>0, <1>a DEF Rest, Stages, Pending, Unsent
  <2> QED
    BY <1>0, <2>1 DEF Unsent
<1>3. ASSUME NEW o \in Oracles \ {k} PROVE Pending(o) => Pending(o)'
  <2>1. ~DigestRead(o) /\ ~DigestRead(o)'
    BY <1>0 DEF DigestRead
  <2> QED
    BY <1>0, <1>1, <2>1, PendingFrame
<1>4. Stages'
  BY <1>0, <1>1, <1>2, <1>3, QuietFrame DEF Rest, Stages
<1>5. VerdictSound'
  BY <1>0, VerdictFrame DEF Rest
<1> QED
  BY <1>0, <1>4, <1>5 DEF Rest, Places, NoneMissed

(* The oracle without an answer is waited for. *)
LEMMA ReapStep == ASSUME TypeOK, Rest, FReap PROVE Rest'
<1>0. /\ fz = "reap" /\ k \in Oracles /\ proc[k] \in Ended
      /\ proc' = [proc EXCEPT ![k] = "reaped"] /\ Judge("ended")
      /\ UNCHANGED <<cur, sent, got, held, req, ans, file, bad>>
  BY DEF FReap, TypeOK, pipeVars, Ended
<1>a. ~(k < k)
  BY <1>0 DEF Oracles
<1>b. Unsent(k)
  BY <1>0, <1>a DEF Rest, Stages
<1>1. \A o \in Oracles : proc[o] \in Ended => proc'[o] \in Ended
  BY <1>0 DEF TypeOK, Ended
<1>2. ASSUME NEW o \in Oracles PROVE IF o = k THEN Quiet(o)' ELSE Same(o)
  <2>1. CASE o = k
    BY <1>0, <1>b, <2>1 DEF Quiet, Unsent, TypeOK, Live, Ended
  <2>2. CASE o # k
    BY <1>0, <2>2 DEF Same, TypeOK
  <2> QED
    BY <2>1, <2>2
<1>3. cur # "ended" /\ proc'[k] \in Ended
  BY <1>0, <1>1, DigestTells
<1> QED
  BY <1>0, <1>1, <1>2, <1>3, JudgeStep

(* The verdict ends the check: nothing changes but what comes next. *)
LEMMA VerdictStep == ASSUME TypeOK, Rest, FVerdict PROVE Rest'
<1>0. /\ fz = "verdict" /\ fz' \in {"idle"} \cup Over
      /\ UNCHANGED <<cur, line, diverged, proc, got, held, req, ans, file, bad>>
      /\ fz' = "idle" => diverged = 0
  BY DEF FVerdict, Over, procVars, pipeVars
<1>1. CASE fz' \in Over
  BY <1>0, <1>1, OverStep
<1>2. CASE fz' = "idle"
  <2>1. \A o \in Oracles : Quiet(o)'
    BY <1>0, QuietFrame DEF Rest, Stages, Same
  <2>2. VerdictSound'
    BY <1>0, VerdictFrame DEF Rest
  <2> QED
    BY <1>0, <1>2, <2>1, <2>2 DEF Rest, Stages, Places, NoneMissed, Over
<1> QED
  BY <1>0, <1>1, <1>2

(* A step of an oracle's process, whatever the fuzzer is doing. *)
LEMMA ProcessStep ==
    ASSUME TypeOK, Rest, NEW o \in Oracles, OracleStep(o) \/ OCrash(o) PROVE Rest'
<1>0. /\ UNCHANGED <<fz, startup, k, cur, left, line, sent, diverged, file, bad>>
      /\ \A p \in Oracles \ {o} : Same(p)
  BY OracleOthers DEF fuzzVars
<1>1. VerdictSound'
  <2>1. \A p \in Oracles : proc[p] \in Ended => proc'[p] \in Ended
    BY <1>0, OnceEnded DEF Same
  <2> QED
    BY <1>0, <2>1, VerdictFrame DEF Rest
<1>2. Places' /\ NoneMissed'
  BY <1>0 DEF Rest, Places, NoneMissed
<1>3. Stages'
  <2>1. CASE fz \in Over
    BY <1>0, <2>1 DEF Stages, Over
  <2>2. CASE fz \notin Over
    <3>1. ASSUME NEW p \in Oracles
          PROVE  /\ Quiet(p) => Quiet(p)'
                 /\ Unborn(p) => Unborn(p)'
                 /\ Unsent(p) => Unsent(p)'
                 /\ fz = "send" /\ Sending(p) => Sending(p)'
                 /\ fz \in {"send", "recv", "reap"} /\ Pending(p) => Pending(p)'
      <4>1. CASE p = o
        <5>1. fz = "send" => left # 0
          BY DEF Rest, Places
        <5>2. fz \in {"send", "recv", "reap"} => file = cur
          BY DEF Rest, Places
        <5> QED
          BY <2>2, <4>1, <5>1, <5>2, QuietStep, UnbornStep, UnsentStep, SendingStep, PendingStep
      <4>2. CASE p # o
        <5>1. Same(p) /\ DigestRead(p)' = DigestRead(p)
          BY <1>0, <4>2 DEF DigestRead
        <5> QED
          BY <1>0, <5>1, QuietFrame, UnbornFrame, UnsentFrame, SendingFrame, PendingFrame
      <4> QED
        BY <4>1, <4>2
    <3> QED
      BY <1>0, <3>1 DEF Rest, Stages
  <2> QED
    BY <2>1, <2>2
<1> QED
  BY <1>1, <1>2, <1>3 DEF Rest

(* The invariant holds when the oracles are yet to be started. *)
LEMMA RestInit == Init => Rest
<1> SUFFICES ASSUME Init PROVE Rest
  OBVIOUS
<1>1. ASSUME NEW o \in Oracles PROVE ~(o < k) /\ Unborn(o)
  BY <1>1 DEF Init, Oracles, Unborn
<1> QED
  BY <1>1 DEF Init, Rest, Stages, Places, NoneMissed, VerdictSound

(* It survives every step. *)
LEMMA RestStep == TypeOK /\ Rest /\ [Next]_vars => Rest'
<1> SUFFICES ASSUME TypeOK, Rest, [Next]_vars PROVE Rest'
  OBVIOUS
<1>1. CASE UNCHANGED vars
  <2>1. UNCHANGED <<fz, k, cur, left, line, sent, diverged, proc, got, held, req, ans, file, bad>>
    BY <1>1 DEF vars, fuzzVars, procVars, pipeVars
  <2>2. \A o \in Oracles : Same(o) /\ DigestRead(o)' = DigestRead(o)
    BY <2>1 DEF Same, DigestRead
  <2>3. Stages'
    BY <2>1, <2>2, QuietFrame, UnbornFrame, UnsentFrame, SendingFrame, PendingFrame
       DEF Rest, Stages
  <2>4. VerdictSound'
    BY <2>1, VerdictFrame DEF Rest
  <2> QED
    BY <2>1, <2>3, <2>4 DEF Rest, Places, NoneMissed
<1>2. CASE FSendEintr \/ FReadEintr \/ FReapEintr \/ Done
  BY <1>1, <1>2 DEF FSendEintr, FReadEintr, FReapEintr, Done
<1>3. CASE FSpawnFail \/ FWriteFail \/ FStop \/ FTimeout
  <2>1. fz' \in Over /\ UNCHANGED <<cur, diverged, proc, file, bad>>
    BY <1>3 DEF FSpawnFail, FWriteFail, FStop, FTimeout, Over, procVars
  <2> QED
    BY <2>1, OverStep
<1>4. CASE FRead
  BY <1>4, DigestByteStep, NewlineStep
<1>5. CASE \E o \in Oracles : OracleStep(o) \/ OCrash(o)
  BY <1>5, ProcessStep
<1> QED
  BY <1>1, <1>2, <1>3, <1>4, <1>5, SpawnStep, OpenStep, WriteStep, SendStep, EpipeStep,
     NoAnswerStep, ReapStep, VerdictStep DEF Next, FuzzerStep

(* The invariant promises what a check and its verdict are worth. *)
LEMMA RestSafe ==
    TypeOK /\ Rest => LinesPaired /\ FreshInput /\ VerdictSound /\ WaitsOnlyForEnded
<1> SUFFICES ASSUME TypeOK, Rest
    PROVE LinesPaired /\ FreshInput /\ VerdictSound /\ WaitsOnlyForEnded
  OBVIOUS
<1>1. LinesPaired
  BY DEF LinesPaired, Rest, Stages, Quiet
<1>2. FreshInput
  <2> SUFFICES ASSUME NEW o \in Oracles, fz \notin Over, proc[o] \in {"run", "eol"}
               PROVE  held[o] = cur
    BY DEF FreshInput
  <2>1. ~Quiet(o) /\ ~Unborn(o) /\ ~Sending(o) /\ ~Unsent(o)
    BY DEF Quiet, Unborn, Sending, Unsent, Live, Ended
  <2>2. Pending(o)
    BY <2>1 DEF Rest, Stages, TypeOK, Checking
  <2> QED
    BY <2>1, <2>2 DEF Pending, Owed
<1>3. WaitsOnlyForEnded
  <2> SUFFICES ASSUME fz = "reap" PROVE proc[k] \in Ended
    BY DEF WaitsOnlyForEnded
  <2>1. k \in Oracles /\ ~(k < k)
    BY DEF TypeOK, Oracles
  <2>2. Unsent(k)
    BY <2>1 DEF Rest, Stages
  <2> QED
    BY <2>2 DEF Unsent
<1>4. VerdictSound
  BY DEF Rest
<1> QED
  BY <1>1, <1>2, <1>3, <1>4

(* In every behaviour, whatever crashes or is interrupted: between two      *)
(* checks no request or answer is left in a pipe or a process, a process    *)
(* that answers has read the input under comparison, a verdict names the    *)
(* first oracle that disagrees or ended, and oracle_no_answer waits only    *)
(* for a process that is ending.                                            *)
THEOREM OracleSafe ==
    Spec => [](LinesPaired /\ FreshInput /\ VerdictSound /\ WaitsOnlyForEnded)
<1>1. Init => TypeOK /\ Rest
  BY TypeInit, RestInit
<1>2. TypeOK /\ Rest /\ [Next]_vars => (TypeOK /\ Rest)'
  BY TypeStep, RestStep
<1>3. TypeOK /\ Rest => LinesPaired /\ FreshInput /\ VerdictSound /\ WaitsOnlyForEnded
  BY RestSafe
<1> QED
  BY <1>1, <1>2, <1>3, PTL DEF Spec

(* An answer is about the input under comparison, never an earlier one. *)
COROLLARY FreshInputAlways == Spec => []FreshInput
BY OracleSafe, PTL

(* A verdict names the first oracle that disagrees or ended. *)
COROLLARY VerdictSoundAlways == Spec => []VerdictSound
BY OracleSafe, PTL

(* oracle_no_answer never waits for a process that lives on. *)
COROLLARY WaitsOnlyForEndedAlways == Spec => []WaitsOnlyForEnded
BY OracleSafe, PTL
-----------------------------------------------------------------------------
(* Refinement: the exchange over pipes implements the comparison it stands  *)
(* for.  The mapping is Promise's; Rest says that an agreement and an abort *)
(* mean what Comparison says they mean.                                     *)

Phase    == IF fz \in {"spawn"} \cup Checking THEN "checking" ELSE fz
EndedSet == {o \in Oracles : proc[o] \in Ended}
Reported == IF fz = "aborted" THEN diverged ELSE 0

(* A step that changes nothing Comparison sees. *)
Unseen == UNCHANGED <<Phase, startup, cur, EndedSet, Reported, bad>>

(* The initial states map to initial states. *)
LEMMA PromiseInit == Init => Promise!Init
<1> SUFFICES ASSUME Init PROVE Promise!Init
  OBVIOUS
<1>1. EndedSet = {}
  BY DEF EndedSet, Init, Oracles, Ended
<1> QED
  BY <1>1 DEF Init, Promise!Init, EndedSet, Oracles

(* A step unseen stutters. *)
LEMMA UnseenStutters == ASSUME Unseen PROVE UNCHANGED Promise!cvars
BY DEF Unseen, Phase, EndedSet, Reported, Promise!cvars

(* The fuzzer's way through a check is unseen: it reaps only what ended,    *)
(* and it starts only what was not started.                                 *)
LEMMA CheckingUnseen ==
    ASSUME TypeOK, Rest,
           FSpawn \/ FOpen \/ FWrite \/ FSend \/ FSendEpipe \/ FRead \/ FNoAnswer \/ FReap
    PROVE  Unseen
<1>1. /\ fz \in {"spawn"} \cup Checking /\ fz' \in {"spawn"} \cup Checking
      /\ UNCHANGED <<startup, cur, bad>>
  BY DEF FSpawn, FOpen, FWrite, FSend, FSendEpipe, FRead, FNoAnswer, FReap, SentTo,
         Judge, Checking
<1>2. \A o \in Oracles : proc'[o] \in Ended <=> proc[o] \in Ended
  <2>1. CASE FSpawn
    <3>1. Unborn(k)
      <4>1. fz = "spawn" /\ k \in Oracles /\ ~(k < k)
        BY <2>1 DEF FSpawn, TypeOK, Oracles
      <4> QED
        BY <4>1 DEF Rest, Stages
    <3> QED
      BY <2>1, <3>1 DEF FSpawn, Unborn, TypeOK, Ended
  <2>2. CASE FReap
    BY <2>2 DEF FReap, TypeOK, Ended
  <2>3. CASE FOpen \/ FWrite \/ FSend \/ FSendEpipe \/ FRead \/ FNoAnswer
    BY <2>3 DEF FOpen, FWrite, FSend, FSendEpipe, FRead, FNoAnswer, procVars
  <2> QED
    BY <2>1, <2>2, <2>3
<1> QED
  BY <1>1, <1>2 DEF Unseen, Phase, EndedSet, Reported, Checking

(* A check begins as Comparison's does. *)
LEMMA BeginStep == ASSUME TypeOK, FBegin PROVE Promise!Begin
<1>1. /\ fz = "idle" /\ fz' = "open" /\ UNCHANGED <<startup, proc, bad>>
      /\ \E i \in Inputs : cur' = i
  BY DEF FBegin, procVars
<1> QED
  BY <1>1 DEF Promise!Begin, Checking

(* The ways out: nothing is reported but by an abort. *)
LEMMA QuitStep ==
    ASSUME TypeOK, FSpawnFail \/ FWriteFail \/ FStop \/ FTimeout
    PROVE  Promise!Quit
<1>1. /\ fz \in {"spawn", "idle"} \cup Checking /\ fz' = "exited"
      /\ UNCHANGED <<startup, cur, proc, bad>>
  BY DEF FSpawnFail, FWriteFail, FStop, FTimeout, procVars, Checking
<1> QED
  BY <1>1 DEF Promise!Quit, Checking

(* The verdict: agreement, because no divergence was missed; an abort, that *)
(* names the first oracle to disagree; or the exit of a failed startup.     *)
LEMMA VerdictRefines ==
    ASSUME TypeOK, Rest, FVerdict
    PROVE  Promise!Agree \/ Promise!Report \/ Promise!Quit
<1>1. fz = "verdict" /\ UNCHANGED <<cur, diverged, proc, bad>>
  BY DEF FVerdict, procVars
<1>2. CASE diverged = 0
  <2>1. \A o \in 1..N : <<o, cur>> \notin bad
    BY <1>1, <1>2 DEF Rest, NoneMissed, Oracles
  <2>2. fz' = "idle" /\ startup' = FALSE
    BY <1>2 DEF FVerdict
  <2> QED
    BY <1>1, <2>1, <2>2 DEF Promise!Agree, Promise!Disagrees, Checking
<1>3. CASE diverged # 0 /\ startup
  BY <1>1, <1>3 DEF FVerdict, Promise!Quit, Checking
<1>4. CASE diverged # 0 /\ ~startup
  <2>1. fz' = "aborted" /\ startup' = startup
    BY <1>4 DEF FVerdict
  <2>2. /\ diverged \in 1..N
        /\ <<diverged, cur>> \in bad \/ diverged \in EndedSet
        /\ \A p \in 1..(diverged - 1) : <<p, cur>> \notin bad
    BY <1>4 DEF Rest, VerdictSound, TypeOK, EndedSet, Oracles
  <2> QED
    BY <1>1, <1>4, <2>1, <2>2 DEF Promise!Report, Promise!Disagrees, Checking, EndedSet
<1> QED
  BY <1>2, <1>3, <1>4 DEF TypeOK

(* A process works unseen until it ends. *)
LEMMA ProcessRefines ==
    ASSUME TypeOK, NEW o \in Oracles, OracleStep(o) \/ OCrash(o)
    PROVE  Unseen \/ Promise!End
<1>1. UNCHANGED <<fz, startup, cur, diverged, bad>> /\ \A p \in Oracles \ {o} : proc'[p] = proc[p]
  BY OracleOthers DEF fuzzVars, Same
<1>2. UNCHANGED <<Phase, Reported>>
  BY <1>1 DEF Phase, Reported
<1>3. CASE ORead(o) \/ OOpen(o) \/ OSay(o) \/ OEol(o) \/ OExit(o)
  <2>1. proc'[o] \in Ended <=> proc[o] \in Ended
    BY <1>3 DEF TypeOK, ORead, OOpen, OSay, OEol, OExit, Ended
  <2>2. \A p \in Oracles : proc'[p] \in Ended <=> proc[p] \in Ended
    BY <1>1, <2>1
  <2> QED
    BY <1>1, <1>2, <2>2 DEF Unseen, EndedSet
<1>4. CASE OEof(o) \/ OCrash(o)
  <2>1. proc[o] \notin Ended /\ proc'[o] \in Ended
    BY <1>4 DEF TypeOK, OEof, OCrash, Live, Ended
  <2>2. EndedSet' = EndedSet \cup {o} /\ o \in (1..N) \ EndedSet
    BY <1>1, <2>1 DEF EndedSet, Oracles
  <2> QED
    BY <1>1, <1>2, <2>2 DEF Promise!End, Phase, Reported, EndedSet
<1> QED
  BY <1>3, <1>4 DEF OracleStep

(* Every step is a step of Comparison or stutters. *)
LEMMA PromiseStep == TypeOK /\ Rest /\ [Next]_vars => [Promise!Next]_(Promise!cvars)
<1> SUFFICES ASSUME TypeOK, Rest, [Next]_vars
             PROVE  Promise!Next \/ Unseen
  BY UnseenStutters
<1>1. CASE UNCHANGED vars \/ FSendEintr \/ FReadEintr \/ FReapEintr \/ Done
  BY <1>1 DEF FSendEintr, FReadEintr, FReapEintr, Done, vars, fuzzVars, procVars,
              Unseen, Phase, EndedSet, Reported
<1>2. CASE FSpawn \/ FOpen \/ FWrite \/ FSend \/ FSendEpipe \/ FRead \/ FNoAnswer \/ FReap
  BY <1>2, CheckingUnseen
<1>3. CASE FVerdict
  BY <1>3, VerdictRefines DEF Promise!Next
<1>4. CASE FSpawnFail \/ FWriteFail \/ FStop \/ FTimeout
  BY <1>4, QuitStep DEF Promise!Next
<1>5. CASE FBegin
  BY <1>5, BeginStep DEF Promise!Next
<1>6. CASE \E o \in Oracles : OracleStep(o) \/ OCrash(o)
  BY <1>6, ProcessRefines DEF Promise!Next
<1> QED
  BY <1>1, <1>2, <1>3, <1>4, <1>5, <1>6 DEF Next, FuzzerStep

(* Whatever happens to the processes, the pipes and the file, a check ends  *)
(* in agreement only if every build agrees, and in an abort that names an   *)
(* oracle only if that one disagrees or ended and no earlier one disagrees. *)
THEOREM OracleImplements == Spec => Implements
<1>1. Init => TypeOK /\ Rest /\ Promise!Init
  BY TypeInit, RestInit, PromiseInit
<1>2. TypeOK /\ Rest /\ [Next]_vars => (TypeOK /\ Rest)' /\ [Promise!Next]_(Promise!cvars)
  BY TypeStep, RestStep, PromiseStep
<1> QED
  BY <1>1, <1>2, PTL DEF Spec, Implements, Promise!Spec
=============================================================================
