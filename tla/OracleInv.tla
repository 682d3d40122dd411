------------------------------ MODULE OracleInv ------------------------------
(***************************************************************************)
(* The inductive invariant of Oracle: how far each oracle is with the      *)
(* request of the check under way, and what the verdict so far says.       *)
(***************************************************************************)
EXTENDS Oracle

(* Oracle o's process owes nothing and nothing of an exchange is left. *)
Quiet(o) ==
    /\ proc[o] \in Live \cup Ended
    /\ ans[o] = << >>
    /\ proc[o] \in Live => proc[o] = "idle" /\ got[o] = 0 /\ req[o] = 0

(* Not started yet. *)
Unborn(o) == proc[o] = "none" /\ got[o] = 0 /\ req[o] = 0 /\ ans[o] = << >>

(* Its request is being written: `left' bytes are still to come. *)
Sending(o) ==
    /\ proc[o] \in Live \cup Ended
    /\ ans[o] = << >>
    /\ proc[o] \in Live => proc[o] = "idle" /\ got[o] + req[o] + left = ReqLen

(* The fuzzer has read o's digest but not its newline. *)
DigestRead(o) == fz = "recv" /\ o = k /\ line # "none"

(* The bytes of the answer still in the pipe, n of the two written. *)
Written(o, n) ==
    CASE n = 0 -> ans[o] = << >> /\ ~DigestRead(o)
      [] n = 1 -> ans[o] = IF DigestRead(o) THEN << >> ELSE <<Digest(o, cur)>>
      [] n = 2 -> ans[o] = IF DigestRead(o) THEN <<"newline">>
                                            ELSE <<Digest(o, cur), "newline">>

(* Its request is written and its answer not read to the end: whatever the  *)
(* process is at, it is this request, and the bytes in the pipe are of the  *)
(* answer to it.                                                            *)
Owed(o) ==
    /\ proc[o] \in Live \cup Ended
    /\ DigestRead(o) => line = Digest(o, cur)
    /\ proc[o] = "idle" =>
        \/ got[o] + req[o] = ReqLen /\ Written(o, 0)
        \/ got[o] = 0 /\ req[o] = 0 /\ Written(o, 2)
    /\ proc[o] \in {"open", "run", "eol"} => got[o] = 0 /\ req[o] = 0
    /\ proc[o] \in {"open", "run"} => Written(o, 0)
    /\ proc[o] = "eol" => Written(o, 1)
    /\ proc[o] \in {"run", "eol"} => held[o] = cur
    /\ proc[o] \in Ended => \E n \in 0..2 : Written(o, n)

(* The request failed: o ended without it. *)
Unsent(o) == proc[o] \in Ended /\ ans[o] = << >>

Pending(o) == IF sent[o] THEN Owed(o) ELSE Unsent(o)

Stages ==
    \A o \in Oracles :
        /\ fz = "spawn" => IF o < k THEN Quiet(o) ELSE Unborn(o)
        /\ fz \in {"open", "write", "verdict", "idle"} => Quiet(o)
        /\ fz = "send" => IF o < k THEN Pending(o)
                          ELSE IF o = k THEN Sending(o) ELSE Quiet(o)
        /\ fz = "recv" => IF o < k THEN Quiet(o) ELSE Pending(o)
        /\ fz = "reap" => IF o < k THEN Quiet(o)
                          ELSE IF o = k THEN Unsent(o) ELSE Pending(o)

(* The fuzzer's own variables. *)
Places ==
    /\ fz \in {"send", "recv", "reap", "verdict", "idle"} => file = cur
    /\ fz = "send" => left # 0
    /\ line # "none" => fz \in {"recv"} \cup Over
    /\ fz \in {"spawn", "open", "write", "send", "idle"} => diverged = 0
    /\ fz \in {"recv", "reap"} => diverged < k

(* With no divergence found, no oracle already judged disagrees. *)
NoneMissed ==
    diverged = 0 =>
        /\ fz \in {"recv", "reap"} => \A o \in Oracles : o < k => <<o, cur>> \notin bad
        /\ fz \in {"verdict", "idle"} => \A o \in Oracles : <<o, cur>> \notin bad

OracleIInv == TypeOK /\ Stages /\ Places /\ NoneMissed /\ VerdictSound
=============================================================================
