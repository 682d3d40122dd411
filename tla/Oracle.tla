------------------------------- MODULE Oracle -------------------------------
(***************************************************************************)
(* The comparison of an input with other architectures, src/oracle.h, with *)
(* its two callers in src/fuzz.c and the far side of the pipes, the loop   *)
(* of src/replay.c.                                                        *)
(*                                                                         *)
(* One fuzzer and N oracle processes share a file (the input) and, per     *)
(* oracle, a request pipe and an answer pipe.  A request is ReqLen bytes,  *)
(* all of them the same path, so the request pipe is a count.  An answer   *)
(* is two bytes, its digest and its newline.                               *)
(*                                                                         *)
(* The reference digest of an input is the input itself; `bad' holds the   *)
(* oracles whose build computes another digest of an input.                *)
(***************************************************************************)
EXTENDS Naturals, Sequences

CONSTANTS
    N,          \* oracles named in DIFFSECP_ORACLE
    Inputs,     \* what libFuzzer may hand the target
    Empty,      \* the empty input of the startup check
    ReqLen,     \* bytes of a request
    PipeCap     \* bytes a pipe holds before a write to it blocks

ASSUME OracleAssumption ==
    /\ N \in 1..16                      \* ORACLE_MAX
    /\ Empty \in Inputs
    /\ Inputs \cap {"torn", "wrong", "newline", "none", "ended"} = {}
    /\ ReqLen \in Nat \ {0}
    /\ PipeCap \in Nat \ {0}

VARIABLES
    fz,         \* what the fuzzer does next
    startup,    \* inside LLVMFuzzerInitialize, before libFuzzer's timer runs
    k,          \* the oracle its current loop is at
    cur,        \* the input under comparison
    left,       \* bytes of the request still to write to oracle k
    line,       \* what it has read of oracle k's answer
    sent,       \* sent[o]: the whole request reached o's pipe
    diverged,   \* first oracle that disagrees, 0 for NULL
    proc,       \* proc[o]: state of the oracle's process
    got,        \* got[o]: request bytes in the process's stdin buffer
    held,       \* held[o]: the file contents it last read
    req,        \* req[o]: bytes in the request pipe
    ans,        \* ans[o]: bytes in the answer pipe
    file,       \* contents of the input file
    bad         \* <<o, i>>: o's build gets another digest for input i

fuzzVars == <<fz, startup, k, cur, left, line, sent, diverged>>
procVars == <<proc, got, held>>
pipeVars == <<req, ans>>
vars == <<fuzzVars, procVars, pipeVars, file, bad>>

Oracles  == 1..N
Live     == {"idle", "open", "run", "eol"}
Ended    == {"dying", "zombie", "reaped"}
Checking == {"open", "write", "send", "recv", "reap", "verdict"}
Over     == {"aborted", "exited"}
Tokens   == Inputs \cup {"wrong", "newline"}

(* The digest o's build prints for contents x: a torn file has another one. *)
Digest(o, x) == IF x \in Inputs /\ <<o, x>> \notin bad THEN x ELSE "wrong"

(* Mutated Inherited: pipes left open across exec by a plain pipe(). *)
InheritedOpen(o) == 1..o

(* The request pipes whose write end process o inherited: pipe2 makes every *)
(* end close-on-exec, so none.                                              *)
Inherited(o) == {}

(* Someone can still write to o's stdin, so its read does not end. *)
StdinOpen(o) ==
    \/ fz \notin Over
    \/ \E p \in Oracles : proc[p] \in Live /\ o \in Inherited(p)

TypeOK ==
    /\ fz \in {"spawn", "idle"} \cup Checking \cup Over
    /\ startup \in BOOLEAN
    /\ k \in Oracles
    /\ cur \in Inputs
    /\ left \in 0..ReqLen
    /\ line \in Tokens \cup {"none"}
    /\ sent \in [Oracles -> BOOLEAN]
    /\ diverged \in 0..N
    /\ proc \in [Oracles -> {"none"} \cup Live \cup Ended]
    /\ got \in [Oracles -> Nat]
    /\ held \in [Oracles -> Inputs \cup {"torn"}]
    /\ req \in [Oracles -> 0..PipeCap]
    /\ ans \in [Oracles -> Seq(Tokens)]
    /\ \A o \in Oracles : Len(ans[o]) =< PipeCap
    /\ file \in Inputs \cup {"torn"}
    /\ bad \subseteq Oracles \X Inputs

Init ==
    /\ fz = "spawn" /\ startup = TRUE /\ k = 1 /\ cur = Empty
    /\ left = 0 /\ line = "none" /\ diverged = 0
    /\ sent = [o \in Oracles |-> FALSE]
    /\ proc = [o \in Oracles |-> "none"]
    /\ got = [o \in Oracles |-> 0]
    /\ held = [o \in Oracles |-> "torn"]
    /\ req = [o \in Oracles |-> 0]
    /\ ans = [o \in Oracles |-> << >>]
    /\ file = "torn"
    /\ bad \in SUBSET (Oracles \X Inputs)

-----------------------------------------------------------------------------
(* The fuzzer. *)

(* oracle_start: pipes and a process for entry k; after the last, the check *)
(* of the empty input begins.                                               *)
FSpawn ==
    /\ fz = "spawn"
    /\ proc' = [proc EXCEPT ![k] = "idle"]
    /\ IF k < N THEN k' = k + 1 /\ fz' = fz ELSE k' = 1 /\ fz' = "open"
    /\ UNCHANGED <<startup, cur, left, line, sent, diverged, got, held, pipeVars, file, bad>>

(* No pipe, no command or a malformed entry: the caller exits. *)
FSpawnFail ==
    /\ fz = "spawn"
    /\ fz' = "exited"
    /\ UNCHANGED <<startup, k, cur, left, line, sent, diverged, procVars, pipeVars, file, bad>>

(* check_oracle on an input that oracle_due picked. *)
FBegin ==
    /\ fz = "idle"
    /\ \E i \in Inputs : cur' = i
    /\ fz' = "open"
    /\ diverged' = 0
    /\ UNCHANGED <<startup, k, left, line, sent, procVars, pipeVars, file, bad>>

(* fopen "wb" truncates the file. *)
FOpen ==
    /\ fz = "open"
    /\ fz' = "write"
    /\ file' = "torn"
    /\ UNCHANGED <<startup, k, cur, left, line, sent, diverged, procVars, pipeVars, bad>>

(* Mutated FWrite: the requests go out before fclose flushes the file. *)
FWriteUnflushed ==
    /\ fz = "write"
    /\ file' = "torn"
    /\ fz' = "send" /\ k' = 1 /\ left' = ReqLen
    /\ UNCHANGED <<startup, cur, line, sent, diverged, procVars, pipeVars, bad>>

(* fwrite and fclose put the whole input in it; the sending loop starts. *)
FWrite ==
    /\ fz = "write"
    /\ file' = cur
    /\ fz' = "send" /\ k' = 1 /\ left' = ReqLen
    /\ UNCHANGED <<startup, cur, line, sent, diverged, procVars, pipeVars, bad>>

FWriteFail ==
    /\ fz \in {"open", "write"}
    /\ fz' = "exited"
    /\ UNCHANGED <<startup, k, cur, left, line, sent, diverged, procVars, pipeVars, file, bad>>

(* The sending loop's end of iteration k: ok is oracle_write's success. *)
SentTo(ok) ==
    /\ sent' = [sent EXCEPT ![k] = ok]
    /\ IF k < N THEN k' = k + 1 /\ left' = ReqLen /\ fz' = fz
                ELSE k' = 1 /\ left' = 0 /\ fz' = "recv"

(* Mutated FSend: a short write is followed by the whole request again. *)
FSendAgain ==
    /\ fz = "send" /\ proc[k] \in Live
    /\ \E n \in 1..left :
        /\ req[k] + n =< PipeCap
        /\ req' = [req EXCEPT ![k] = @ + n]
        /\ IF n = left THEN SentTo(TRUE) ELSE UNCHANGED <<left, fz, k, sent>>
    /\ UNCHANGED <<startup, cur, line, diverged, procVars, ans, file, bad>>

(* write takes n bytes of what is left of the request. *)
FSend ==
    /\ fz = "send" /\ proc[k] \in Live
    /\ \E n \in 1..left :
        /\ req[k] + n =< PipeCap
        /\ req' = [req EXCEPT ![k] = @ + n]
        /\ IF n = left THEN SentTo(TRUE)
                       ELSE left' = left - n /\ UNCHANGED <<fz, k, sent>>
    /\ UNCHANGED <<startup, cur, line, diverged, procVars, ans, file, bad>>

(* EPIPE: the process, the only reader of its stdin, has ended. *)
FSendEpipe ==
    /\ fz = "send" /\ proc[k] \in Ended
    /\ SentTo(FALSE)
    /\ UNCHANGED <<startup, cur, line, diverged, procVars, pipeVars, file, bad>>

(* Mutated FSendEintr: EINTR is an error like any other. *)
FSendEintrFails ==
    /\ fz = "send" /\ ~startup /\ proc[k] \in Live /\ req[k] = PipeCap
    /\ SentTo(FALSE)
    /\ UNCHANGED <<startup, cur, line, diverged, procVars, pipeVars, file, bad>>

(* libFuzzer's alarm fails a blocked write with EINTR: written again. *)
FSendEintr ==
    /\ fz = "send" /\ ~startup /\ proc[k] \in Live /\ req[k] = PipeCap
    /\ UNCHANGED vars

(* Mutated Judge: the last oracle that disagrees, not the first, *)
JudgeLast(a) ==
    /\ diverged' = IF a # cur THEN k ELSE diverged
    /\ line' = "none"
    /\ IF k < N THEN k' = k + 1 /\ fz' = "recv" ELSE k' = 1 /\ fz' = "verdict"

(* or what the last oracle says, whatever those before it said. *)
JudgeForgets(a) ==
    /\ diverged' = IF a # cur THEN k ELSE 0
    /\ line' = "none"
    /\ IF k < N THEN k' = k + 1 /\ fz' = "recv" ELSE k' = 1 /\ fz' = "verdict"

(* The comparison of oracle k's answer a, and the end of its iteration. *)
Judge(a) ==
    /\ diverged' = IF diverged = 0 /\ a # cur THEN k ELSE diverged
    /\ line' = "none"
    /\ IF k < N THEN k' = k + 1 /\ fz' = "recv" ELSE k' = 1 /\ fz' = "verdict"

(* Mutated FRead: the line ends with its digest, the newline stays behind. *)
FReadNoNewline ==
    /\ fz = "recv" /\ sent[k] /\ ans[k] # << >>
    /\ ans' = [ans EXCEPT ![k] = Tail(@)]
    /\ Judge(Head(ans[k]))
    /\ UNCHANGED <<startup, cur, left, sent, procVars, req, file, bad>>

(* oracle_read_line: one byte; the newline ends the line. *)
FRead ==
    /\ fz = "recv" /\ sent[k] /\ ans[k] # << >>
    /\ ans' = [ans EXCEPT ![k] = Tail(@)]
    /\ IF Head(ans[k]) = "newline"
         THEN Judge(line)
         ELSE /\ line' = IF line = "none" THEN Head(ans[k]) ELSE "wrong"
              /\ UNCHANGED <<fz, k, diverged>>
    /\ UNCHANGED <<startup, cur, left, sent, procVars, req, file, bad>>

(* The request was not sent, or the answer pipe is at its end. *)
FNoAnswer ==
    /\ fz = "recv"
    /\ sent[k] => ans[k] = << >> /\ proc[k] \in Ended
    /\ fz' = "reap" /\ line' = "none"
    /\ UNCHANGED <<startup, k, cur, left, sent, diverged, procVars, pipeVars, file, bad>>

(* Mutated FReadEintr: EINTR taken for the end of the pipe. *)
FReadEintrEnds ==
    /\ fz = "recv" /\ ~startup /\ sent[k] /\ ans[k] = << >> /\ proc[k] \in Live
    /\ fz' = "reap" /\ line' = "none"
    /\ UNCHANGED <<startup, k, cur, left, sent, diverged, procVars, pipeVars, file, bad>>

(* EINTR on a blocked read: read again. *)
FReadEintr ==
    /\ fz = "recv" /\ ~startup /\ sent[k] /\ ans[k] = << >> /\ proc[k] \in Live
    /\ UNCHANGED vars

(* oracle_no_answer: waitpid returns once the process is a zombie, or fails *)
(* at once when it was reaped before.                                       *)
FReap ==
    /\ fz = "reap" /\ proc[k] \in {"zombie", "reaped"}
    /\ proc' = [proc EXCEPT ![k] = "reaped"]
    /\ Judge("ended")
    /\ UNCHANGED <<startup, cur, left, sent, got, held, pipeVars, file, bad>>

FReapEintr ==
    /\ fz = "reap" /\ ~startup /\ proc[k] \notin {"zombie", "reaped"}
    /\ UNCHANGED vars

(* oracle_check returns: start_oracle exits on a divergence, check_oracle   *)
(* aborts, so that libFuzzer saves the input.                               *)
FVerdict ==
    /\ fz = "verdict"
    /\ IF diverged = 0 THEN fz' = "idle" /\ startup' = FALSE
                       ELSE /\ fz' = IF startup THEN "exited" ELSE "aborted"
                            /\ startup' = startup
    /\ UNCHANGED <<k, cur, left, line, sent, diverged, procVars, pipeVars, file, bad>>

(* libFuzzer ends between inputs, *)
FStop ==
    /\ fz = "idle"
    /\ fz' = "exited"
    /\ UNCHANGED <<startup, k, cur, left, line, sent, diverged, procVars, pipeVars, file, bad>>

(* or its timer finds the input past -timeout. *)
FTimeout ==
    /\ fz \in Checking /\ ~startup
    /\ fz' = "exited"
    /\ UNCHANGED <<startup, k, cur, left, line, sent, diverged, procVars, pipeVars, file, bad>>

-----------------------------------------------------------------------------
(* Process o, `replay TARGET'. *)

(* fgets: takes what the pipe holds, and returns once a line is whole. *)
ORead(o) ==
    /\ proc[o] = "idle" /\ (req[o] > 0 \/ got[o] >= ReqLen)
    /\ LET n == got[o] + req[o] IN
        IF n >= ReqLen
          THEN proc' = [proc EXCEPT ![o] = "open"] /\ got' = [got EXCEPT ![o] = n - ReqLen]
          ELSE proc' = proc /\ got' = [got EXCEPT ![o] = n]
    /\ req' = [req EXCEPT ![o] = 0]
    /\ UNCHANGED <<fuzzVars, held, ans, file, bad>>

(* fgets at the end of stdin: the loop ends, or the path cut short names no *)
(* file; either way the process does.                                       *)
OEof(o) ==
    /\ proc[o] = "idle" /\ got[o] < ReqLen /\ req[o] = 0 /\ ~StdinOpen(o)
    /\ proc' = [proc EXCEPT ![o] = "dying"]
    /\ UNCHANGED <<fuzzVars, got, held, pipeVars, file, bad>>

(* read_input *)
OOpen(o) ==
    /\ proc[o] = "open"
    /\ held' = [held EXCEPT ![o] = file]
    /\ proc' = [proc EXCEPT ![o] = "run"]
    /\ UNCHANGED <<fuzzVars, got, pipeVars, file, bad>>

(* A write to the answer pipe.  Once the fuzzer is gone it fails with EPIPE, *)
(* which the process ignores: oracle_start's SIG_IGN outlives the exec.      *)
Put(o, token) ==
    IF fz \in Over THEN UNCHANGED pipeVars
    ELSE /\ Len(ans[o]) < PipeCap
         /\ ans' = [ans EXCEPT ![o] = Append(@, token)]
         /\ UNCHANGED req

(* The target runs and its digest is printed, *)
OSay(o) ==
    /\ proc[o] = "run"
    /\ Put(o, Digest(o, held[o]))
    /\ proc' = [proc EXCEPT ![o] = "eol"]
    /\ UNCHANGED <<fuzzVars, got, held, file, bad>>

(* with the newline that ends the flushed line. *)
OEol(o) ==
    /\ proc[o] = "eol"
    /\ Put(o, "newline")
    /\ proc' = [proc EXCEPT ![o] = "idle"]
    /\ UNCHANGED <<fuzzVars, got, held, file, bad>>

(* The build crashes, or something kills it: its pipe ends close, *)
OCrash(o) ==
    /\ proc[o] \in Live
    /\ proc' = [proc EXCEPT ![o] = "dying"]
    /\ UNCHANGED <<fuzzVars, got, held, pipeVars, file, bad>>

(* and then it can be waited for. *)
OExit(o) ==
    /\ proc[o] = "dying"
    /\ proc' = [proc EXCEPT ![o] = "zombie"]
    /\ UNCHANGED <<fuzzVars, got, held, pipeVars, file, bad>>

-----------------------------------------------------------------------------
(* The fuzzer ended and so did every process it started. *)
Done ==
    /\ fz \in Over
    /\ \A o \in Oracles : proc[o] \in {"none", "zombie", "reaped"}
    /\ UNCHANGED vars

FuzzerStep ==
    \/ FSpawn \/ FOpen \/ FWrite \/ FSend \/ FSendEpipe \/ FRead \/ FNoAnswer
    \/ FReap \/ FVerdict

OracleStep(o) == ORead(o) \/ OEof(o) \/ OOpen(o) \/ OSay(o) \/ OEol(o) \/ OExit(o)

Next ==
    \/ FuzzerStep
    \/ FSpawnFail \/ FBegin \/ FWriteFail \/ FSendEintr \/ FReadEintr
    \/ FReapEintr \/ FStop \/ FTimeout
    \/ \E o \in Oracles : OracleStep(o) \/ OCrash(o)
    \/ Done

Spec == Init /\ [][Next]_vars

(* Each process runs on, its builds' calls return, and the kernel ends what *)
(* is dying.  Nothing need fail, crash, time out, be checked or stop.       *)
FairSpec ==
    /\ Spec
    /\ WF_vars(FuzzerStep)
    /\ \A o \in Oracles : WF_vars(OracleStep(o))
-----------------------------------------------------------------------------
(* Properties. *)

(* Between two checks nothing of the last one is left anywhere: no process  *)
(* holds part of a request, no answer byte waits to be read as the next     *)
(* answer ("to keep the lines paired", src/oracle.h).                       *)
LinesPaired ==
    fz = "idle" =>
        \A o \in Oracles : proc[o] \in Live =>
            proc[o] = "idle" /\ got[o] = 0 /\ req[o] = 0 /\ ans[o] = << >>

(* An oracle that answers a living fuzzer has read the input under          *)
(* comparison: never the last one, never a file written half.               *)
FreshInput ==
    \A o \in Oracles :
        fz \notin Over /\ proc[o] \in {"run", "eol"} => held[o] = cur

(* oracle_check's result is the first oracle that disagrees: the one named  *)
(* has another digest or ended, and none before it has another digest.      *)
VerdictSound ==
    diverged # 0 =>
        /\ <<diverged, cur>> \in bad \/ proc[diverged] \in Ended
        /\ \A o \in 1..(diverged - 1) : <<o, cur>> \notin bad

(* oracle_no_answer waits only for a process that is ending: waitpid on one *)
(* that still reads its stdin would never return.                           *)
WaitsOnlyForEnded == fz = "reap" => proc[k] \in Ended

Promise == INSTANCE Comparison WITH
    phase    <- IF fz \in {"spawn"} \cup Checking THEN "checking" ELSE fz,
    startup  <- startup,
    input    <- cur,
    ended    <- {o \in Oracles : proc[o] \in Ended},
    reported <- IF fz = "aborted" THEN diverged ELSE 0,
    bad      <- bad

(* The exchange over pipes implements the comparison it stands for. *)
Implements == Promise!Spec

(* Every check ends, with a verdict or the fuzzer's exit, whatever oracle   *)
(* crashes and whenever the alarm interrupts a read, a write or a wait.     *)
CheckEnds == fz \in Checking ~> fz \notin Checking

(* Once the fuzzer is gone every oracle sees the end of its stdin and ends. *)
OraclesEnd ==
    fz \in Over ~> \A o \in Oracles : proc[o] \in {"none", "zombie", "reaped"}
=============================================================================
