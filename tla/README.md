# A verification development of diffsecp

diffsecp runs one fuzz input through many builds of libsecp256k1 and compares
what they return. Its own code is small; what is hard in it is order and
failure: an exchange over pipes with processes that crash, feedback collected
from several builds and shown once, long sequences of library calls that must
never leave the library's contract, two workflows that move `master` while
others do, and a corpus that four goals rewrite in place. These TLA+ modules
model those parts, the configurations check them with TLC on small instances, and
the proof modules establish the safety properties with TLAPS for every instance.

Contents: [inventory](#inventory), [modules](#modules),
[runs](#runs-and-bounds), [fairness](#fairness), [proofs](#proofs),
[findings](#findings), [what is left out](#what-is-not-modelled),
[plan](#plan).

## Inventory

| part | code | state | operations |
|---|---|---|---|
| fuzz driver | `src/fuzz.c` | transcripts, the mutant flags and counters, which mutants were ever flagged or killed | run the variants, run the schemata, report, check the oracles |
| oracle, fuzzer's side | `src/oracle.h` | the processes, their pipes, the input file | start, write a request, read a line, wait, judge |
| oracle process | `src/replay.c` | a stdin buffer, the input read | read a path, read the file, run, print |
| register-machine targets | `src/targets/{field,group,keys,scalar}.c` | four registers, a transcript | one op per input byte |
| protocol targets | `src/targets/{musig,silentpayments}.c` | the objects of one session | one pass over the protocol |
| straight-line targets | `src/targets/{ecdsa,schnorrsig,recovery,ellswift}.c` | a few objects | one pass |
| reader, transcript, digest | `src/{reader,transcript,digest}.h` | a cursor, a bounded buffer | take, append, hash |
| variant | `src/variant.c` | one context per build | initialize, count illegal calls |
| generators | `mutants/gen.py`, `dict/gen.py` | none | write C and dictionaries |
| build and corpus rules | `Makefile` | corpus directories | check, selftest, fuzz, merge, minimize, score |
| workflows | `.github/workflows/*.yml` | two branches, `master` | commit, test, fast-forward |

How they interact. libFuzzer calls `LLVMFuzzerTestOneInput` with an input. Every
variant of the target runs it and leaves a transcript, which must equal the
reference's. With `DIFFSECP_MUTANTS` set, each schemata build then runs it
with all mutants off, flagging the mutants whose site computed something else,
and once more per flagged mutant not killed before; the flags and kills are
extra counters that libFuzzer reads after the call. For a sample of the inputs,
`check_oracle` writes the input to a file and the file's path to the stdin of
every oracle, a `replay` of the same target on another architecture, and compares
the digests they print. A divergence anywhere aborts, which is how libFuzzer
saves a reproducer. The corpus libFuzzer keeps is rerun by every later process,
scored, merged, minimized, and committed by a workflow.

What makes each part correct, and why it is hard:

- **Oracle.** A `NULL` from `oracle_check` means every build agreed on *this*
  input; a name means that oracle disagreed or ended. Requests and answers are
  paired only by their order in two pipes, so one byte too many or too few is
  wrong for ever. Any process can end between any two bytes; libFuzzer's alarm
  fails blocked calls with `EINTR`; requests go out to all before any answer is
  read; `waitpid` has no timeout; processes outlive the fuzzer unless their
  stdin really closes.
- **Driver.** libFuzzer must see the union of what the builds flag, although each
  build clears the flags of the one before. A killed mutant is never run again, so
  the one time its kill is shown must be the time the input is kept. A crash in
  the middle loses all counts but the corpus.
- **Straight-line targets.** They first make a valid object, then derive a special
  case from it, then mutate. What a comment claims of the outcome ("which BIP340
  rejects", "recomputes exactly R", "with honest encodings they agree") holds
  through retries, failing calls, fallbacks and mutations aimed at other buffers,
  or the branch the case was built for is never reached.
- **Hand-computed limits.** `ECDSA_DER_MAX`, `DIFFSECP_TRANSCRIPT_MAX` with each
  target's `MAX_OPS`, the magnitudes of field elements, bit offsets: sums done
  once in a comment, under inputs of any length.
- **Corpus.** Seeding, fuzzing, merging and minimizing write one directory, and any
  of them may be interrupted; an input may come to diverge after a bump.
- **Register machines.** Any sequence of ops, with any aliasing of their
  registers, must stay within the library's contract (magnitudes; objects that no
  call produced) and record only what every build must agree on.
- **Sessions.** A dozen calls, each of which may fail, on objects that are made
  far from where they are used, under flag bits that combine freely. The harness
  also claims things about the outcome: which tweak must be rejected, which key
  verifies, what the recipient finds.
- **Workflows.** A run tests a branch by its name, fetches it by name again later,
  and pushes two refs at once, while other runs and developers push.

`PROJECT.json` lists the hazards one by one, each at its line with the
properties that would catch it.

## Modules

| module | models | state it keeps |
|---|---|---|
| `Comparison` | the promise of `oracle.h` to `fuzz.c`, abstractly | phase, input, who ended, who is reported |
| `Oracle` | `oracle.h`, its callers in `fuzz.c`, the loop of `replay.c` | fuzzer's place, per process its place and buffers, per pipe its bytes, the file |
| `OracleInv` | the inductive invariant of `Oracle` | |
| `Feedback` | the promise of `fuzz.c` to libFuzzer and its user, abstractly | place, input, inputs run, what was shown, corpus, report |
| `FuzzDriver` | `LLVMFuzzerTestOneInput`, `run_mutants`, `report_mutants`, with libFuzzer around them | phase, flags, kills, corpus |
| `CorpusFiles` | the `Makefile`'s goals on one corpus, the job of `fuzz.yml` that chains them | what make is doing, the directories, the commit |
| `FieldMachine` | `targets/field.c` | per register the harness's and the library's magnitude, normalized or not |
| `PrimeGroup` | external: the curve, as a group of prime order | |
| `KeysMachine` | `targets/keys.c` | per register secret key, public key, `pk_ok` |
| `ScalarMachine` | `targets/scalar.c` | the op, where it wrote and read, what it recorded |
| `TranscriptBudget` | `transcript.h` under every target: the loops of the register machines, the others as one pass | input left, ops done, transcript length |
| `EcdsaDer` | the DER buffer of `targets/ecdsa.c`, in bytes | input left, the two lengths |
| `Ecdsa` | external: ECDSA on that group, with x coordinates modulo its order | |
| `EcdsaTarget` | `targets/ecdsa.c` | message, nonces, the buffers, how they were made, what verified |
| `RecoveryTarget` | `targets/recovery.c` | signature, id, the key recovered |
| `SchnorrTarget` | `targets/schnorrsig.c` | key, signature, how it was made, what verified |
| `EllswiftTarget` | `targets/ellswift.c`, the key exchange | both parties' encodings and secrets |
| `EllswiftInv` | `targets/ellswift.c`, `ellswift_inv` | two field elements with magnitudes |
| `GroupMachine` | `targets/group.c`, in several builds side by side | per build and register the point and its z |
| `MusigSession` | `targets/musig.c` | place, objects made, key aggregation cache, `agg` |
| `SilentPayments` | `targets/silentpayments.c` | place, keys and flags, outputs, twin, summary |
| `CiPipeline` | `bump-secp256k1.yml`, `fuzz.yml`, the part of `ci.yml` they wait for | commits, refs, per run its stage |
| `MC*` | TLC's instances of the above | `target` where one composes several |
| `OracleProofs`, `FuzzDriverProofs`, `FieldMachineProofs`, `PrimeGroupProofs`, `RegisterMachineProofs`, `SignatureProofs`, `MusigProofs`, `SilentPaymentsProofs` | proofs | |

### Oracle and Comparison

`fz` is where the fuzzer is: `spawn` (the loop of `oracle_start`), `open` and
`write` (`fopen`, then `fwrite` and `fclose`), `send` (the loop of
`oracle_write`), `recv` (the loop of `oracle_read_line`), `reap`
(`oracle_no_answer`), `verdict`, `idle` between inputs, and how it ended. `k` is
the oracle the loop is at. `proc[o]` is where process `o` is, from `idle`
(in `fgets`) over `open`, `run` and `eol` to `dying`, `zombie` and `reaped`.
Requests are all the same path, so a request pipe is a byte count and a request is
`ReqLen` bytes that may be written and read in any portions; an answer is a
digest token and a newline, read one byte at a time as the code does. The file
is `torn` between `fopen` and `fclose`. `bad` says which builds compute another
digest of which inputs. The digest itself is taken to tell transcripts apart.

`OCrash` may fire in any state of a process. `FSendEintr`, `FReadEintr` and
`FReapEintr` are the loops' `continue`, steps that change nothing; their mutants
show what treating `EINTR` as an error would do. `FTimeout` is libFuzzer's
`-timeout`. Before the startup check is over there is no alarm, hence no
`EINTR`. Which inputs `oracle_due` samples is a free choice of `FBegin`. After
the fuzzer ends an oracle's writes fail with `EPIPE` and are ignored, and it
ends when its stdin does, which needs that no other process inherited the
writing end: `Inherited`.

`Comparison` has the checks only, with actions `Begin`, `Agree`, `Report`, `Quit`
and `End` (a process). `Oracle` instantiates it as `Promise`: every stage of a
check maps to `checking`.

### FuzzDriver

The builds are deterministic: `odd` says which disagree with the reference with
all mutants off, `effect[b][m][i]` what mutant `m` does in build `b` on input
`i`. Phases follow the call: `start` (the variants), `detect` (a schemata build
with no mutant on), `mutants` (the inner loop), `oracle` (`Oracle`, here a step
with either result), `observe` (libFuzzer reads the counters and may keep the
input). `Timeout` and an abort end the process at any point and `Restart` begins
another, which first reruns the corpus. The arrays of
flags per mutant are kept as sets of mutants.

`Feedback` judges an input in one step (`Show`), without builds or loops: what
`triggers` and `exposes` give for the input is shown, and the process may instead
end in it (`Fail`). `FuzzDriver` instantiates it as `Promise`, where `triggers` and
`exposes` are unions over the builds, `agreed` holds the inputs on which no two builds that
run differ, and everything from `start` to `observe` maps to `running`.

### FieldMachine

Values are abstracted away; a register has `mag`, the number `field.c` tracks, and
`lib` and `norm`, what the library's VERIFY build tracks on the element itself.
Each op is an action that first weakens as `field_limit` does, then calls: the
call's contract is a conjunct of `Called`, which makes `legal` false for good.
Ops write both magnitudes by the harness's and by the library's rule.

### PrimeGroup, KeysMachine, GroupMachine

The curve is a group of small prime order; a point is its discrete logarithm, 0 is
infinity, and the order itself stands for 32 bytes out of range. So keys cancel,
tweaks fail and negations differ as on the curve. In `KeysMachine` a failed call
leaves `Unspecified` in its output; recording it clears `exact`, passing a public
key no call produced clears `legal`. Which bytes an op records is modelled, their
order is not.

`GroupMachine` runs one input in all of `Builds` at once. The library computes the
same point in each, but a z coordinate, the partial sum of a failed
multiplication and the coordinates of infinity are chosen for each build. An op
gives, per build, an `Outcome`: the point it leaves and what it recorded.
`GrpCommit`, the end of every op, compares the records and the destination's affine
coordinates. What a call gives that was passed an infinity or a zero it has no
contract for is again each build's own (`Garbage`, in the operators above the ops),
so a guard missing in the target, shows as a divergence. `large` is kept as state, but the number
of points it grants, like the scratch space, decides only how a sum is computed.

### MusigSession

`pc` is the next call. `made` holds the objects a successful call has made and
none has spent: a partial signature spends the secret nonce. `cache` is what
libsecp256k1's key aggregation cache records (the key, the accumulated tweak and
parity), `coef` the key aggregation coefficients, which are hashes and therefore
arbitrary. `agg` is the key read back, which a tweak without an output leaves
alone until `musig_pubkey_get` refreshes it. Fuzzed nonces and partial signatures
set `tampered`. `cancelled` records that `musig_cancel_tweak` computed a tweak
that must be rejected. One branch of `musig_cancel_tweak` has no effect here: the
negation for `parity_acc`, which only an x-only tweak sets, and no x-only tweak
precedes a cancelling one.

### SilentPayments

Input keys are known by their index: `keypairs`, `seckeys` and `pubkeys` are the
indices in the three arrays. An output is the set of input keys, scan key, spend
key (labeled or not) and `k` it was derived from, which is what the recipient can
recompute. The library's counting of `k` within a group that shares a scan key is
`Counted`, its scan `Found`. The arrays `sp_limit` fills are static: `group` is the
set of their entries that its loop has set, for this input or an earlier one. The order within the scanned transaction, the tweaks
found and the bytes recorded are left out.

### EcdsaTarget, RecoveryTarget, SchnorrTarget, EllswiftTarget

Each is one pass: `pc` is the step that comes next, an alternative of the code
is an action of its own, a mutation is an action that may repeat before the checks.
A buffer whose bytes come from the input is `Fuzzed` and becomes any value when
the library parses it, so what holds holds whatever the bytes were; `mutated`
remembers which buffers a mutation was aimed at. Hashes are free choices or
injective: RFC6979's nonce is any that signs, a BIP340 challenge any scalar for
each r, key and message, an ElligatorSwift secret is kept as what was hashed.

`Ecdsa` gives each pair of points of `PrimeGroup` an x coordinate by its residue
modulo the order and by whether it was at least the order, so recovery ids have
both their bits. `EcdsaTarget` retries with `counter` as `secp256k1_ecdsa_sign`
does with its nonce function; `zeroed` says that `ecdsa_zero_s` chose the
message. DER is known by the signature it encodes and whether anything follows
it, which is all the strict and the lax parser differ in here; its lengths are
in `EcdsaDer`. `SchnorrTarget` keeps `schForm`, how sig64 was made, and `SchEnd`
says at which check verification ends. In `EllswiftTarget` an encoding is known by
who made it and the point it decodes to; every 64 bytes decode.

### EllswiftInv, ScalarMachine, EcdsaDer, TranscriptBudget

Four places where the target, not the library, has to get a limit right.
`EllswiftInv` computes in a field of prime order over which, as over the real one,
no point of the curve has a zero coordinate (`FieldPAssumption`), and keeps on each
element its magnitude and whether all
the calls it came from were in contract. `ScalarMachine` leaves the values out: a
call is where it writes and what it reads, a register the result it holds, so
aliasing and order are what is left. `EcdsaDer` and `TranscriptBudget` count bytes,
with the real limits; an op of the register machines records at most what the
longest op of its machine does, a pass of another target at most what one does that
nothing ends early, `TrMost`.

### CorpusFiles

An input covers features, which depend on the `version` of the code, and some
versions make it diverge; libFuzzer is external and keeps an input if it
survives and adds coverage. `goal` is what make is doing; a goal copies and
removes inputs one by one and may be interrupted between any two. `chained` marks
the run of `fuzz.yml` on a fresh checkout, which fuzzes, merges, minimizes and
commits, each step only after the one before succeeded. `Swallowed` is an `rm` or
`mv` that fails at the end of a minimize, which the recipe does not notice; of the
`rm` and `mkdir` before the merge no failure is modelled, and the job only for a
target that has a committed corpus.

What the model shows besides its properties, and the `Makefile` does not rule out:
after a minimize that was interrupted between its `rm` and its `mv` the inputs
are in `build/minimize` only, and the next minimize (or a seeding, which sees a
missing corpus) begins by removing or ignoring them; a seeding that was
interrupted leaves a corpus directory that is never seeded again; a minimize
outside the workflow drops, without a word, inputs that diverge since a bump.
`CoverageOnDisk` holds from the start of one minimize to that of the next, through
interrupts, failures and whatever goals are run between; `OnlyCoveredDropped`, that
the corpus itself lost nothing, is what the job's commit rests on and is
[violated](#findings).

### CiPipeline

A commit is known by its ancestors, its author and the CI jobs it would fail. A
run goes through `work`, `ci`, `merge` and `push`; each job of `ci.yml` checks out
the branch by name at a moment of its own; `merge` fetches it by name again and
needs a fast-forward of the commit that triggered the run; `push` updates two
refs, each for itself. The steps before the branch push (bump, fuzz, merge) are
one step that fails, changes nothing, or commits.

## Runs and bounds

| run | instance | checks |
|---|---|---|
| `oracle` | 2 oracles, 2 inputs, requests of 2 bytes, pipes of 1 byte | `LinesPaired`, `VerdictSound`; `Implements`; `CheckEnds`, `OraclesEnd` |
| `fuzz_driver` | reference and one variant, 2 schemata builds, 2 mutants, 3 inputs | `FeedbackExact`, `CorpusExposes`, `ReportExact`, `DivergenceNeverKept`; `FeedbackKept` |
| `limits` | `field` with 2 registers; DER and transcript at the real limits; `scalar` with 2 registers; a field of 43 elements | `CallsInContract`, `DerInBounds`, `NeverOverflows`, `ScalarInContract`, `BranchReached` |
| `keys` | order 7; `keys` with 2 registers, `schnorrsig`, `ellswift`, `group` with 2 builds, 2 registers and 2 z coordinates | `CallsLegal`, `TranscriptExact`, `VerifiesAsMade`, `TweakChecked`, `SessionSecrets`, `BuildsAgree` |
| `ecdsa` | order 7, of its three x coordinates two alike modulo 7; `ecdsa`, `recovery` | `RecTypeOK`, `SignedVerifies`, `ConstructedVerifies`, `RetriesEnd`, `RecoveredVerifies` |
| `musig` | up to 2 signers, order 5 | `CallsLegal`, `CancelRejected`, `HonestVerifies` |
| `silent_payments` | up to 2 inputs and 3 recipients, 3 secrets | `CallsLegal`, `PaymentsFound` |
| `workflows` | 3 runs of 2 workflows, 2 jobs, 4 commits; a corpus of 3 inputs, 2 features, 2 versions | `MasterTested`, `CoverageOnDisk`, `CommittedClean`; `MasterKeeps`, `DivergenceNeverLands` |
| `ci_overlap` | 2 runs of one workflow at once | `MasterTested` is violated |
| `ci_rejected` | 1 run and developers | `FailedKept` is violated |
| `corpus_swallowed` | the corpus as in `workflows` | `OnlyCoveredDropped` is violated |
| `scalar_recorded` | as `limits` | `ResultsRecorded` is violated |

`limits`, `keys` and `ecdsa` compose several targets in one module. A fuzzer is
built for one target (`DIFFSECP_TARGET`), so `target` is chosen at the start, the
others never leave their initial state, and the properties of all are checked.
`workflows` likewise chooses a `side`: the branches, where the job that ends in a
corpus's commit is one step, or the corpus. The
modules composed, and those that one proof module extends, give their names a
prefix for that.
What TLAPS proves and another property rests on (the other type invariants, `OracleIInv`,
`FreshInput`, `WaitsOnlyForEnded`, `MagnitudesTracked`, `TxFits`, the conjuncts of
`VerifiesAsMade`, `TweakChecked`, `SessionSecrets` and `DerInBounds`) has no line
of its own in a configuration, and neither has `OnlySplitLoses`, which says how far the
[finding](#findings) of `scalar_recorded` goes.

What the properties say:

- `LinesPaired`: between two checks no live process holds part of a request and no
  pipe holds a byte. `VerdictSound`: the oracle named disagrees or has
  ended, and none before it disagrees. `Implements`: the exchange is a
  `Comparison`. `CheckEnds`, `OraclesEnd`: a check always ends, and no process
  outlives the fuzzer.
- `FeedbackExact`: libFuzzer sees every mutant some build flagged, and as killed
  those this process exposes for the first time. `CorpusExposes`: whatever was
  killed, a kept input exposes it. `ReportExact`: the report is right about every
  input run, the corpus among them. `DivergenceNeverKept`: no kept input makes two
  builds disagree. `FeedbackKept`: over a whole process, and over restarts, the driver is
  a `Feedback`.
- `CallsInContract`: no call of `field` is out of contract, above its magnitude or
  aliased. `BuildsAgree`: builds that compute the same points record the same, whatever
  their z and partial sums and whichever registers earlier ops left at infinity.
- `DerInBounds`: nothing is written outside `der` and `body`, and the sequence is
  not made shorter than empty. `NeverOverflows`: `transcript_put` never aborts a target.
  `ScalarInContract`: no output of a scalar call aliases an input, and the bits
  asked for lie in the scalar, in the limb. `ResultsRecorded`: every result a
  scalar op produces is recorded. `BranchReached`: all of `ellswift_inv`'s
  calls are in contract, and each kind of input enters the branch it is for.
- `SignedVerifies`: what no mutation was aimed at verifies, in every encoding and
  parser. `ConstructedVerifies`: a constructed signature verifies exactly unless R
  is infinity, s is zero or, not normalized, high. `RetriesEnd`: the fixed nonces
  are read inside their array, a message that zeroes s forces a retry, and a
  signing fails only at `fail_at`. `RecoveredVerifies`: whatever was
  mutated, a recovered key verifies the normalized signature, and is the
  signer's when nothing was mutated. `RecTypeOK`: types, of which one matters, the
  recovery id's.
- `VerifiesAsMade`: an honest BIP340 signature verifies, the one with an odd R and
  the one with R at infinity are rejected for that alone, a custom one verifies.
  `TweakChecked`: a cancelling tweak fails, and the commitment check accepts what a
  tweak gave and nothing else. `SessionSecrets`: honest parties agree, a party
  whose peer's key is invalid shares with the input's encoding and with nothing
  left behind, and hashing the raw x gives the same secret.
- `DivergenceNeverLands`: no step adds a diverging input to the corpus.
  `CoverageOnDisk`: while and after a minimize, what the corpus reached is reached
  by what is on disk. `OnlyCoveredDropped`: what the job commits after its minimize
  reaches what the corpus reached before it. `CommittedClean`: the job commits only if nothing it began
  with, found or commits diverges, so that no minimize hides a divergence.
- `CallsLegal` (three runs): no call gets an object that no call made, or that
  was spent, or an entry of `sp_limit`'s arrays that was never set. `TranscriptExact`: nothing a failed call left is recorded.
- `CancelRejected`: a computed cancelling tweak ends the target. `HonestVerifies`:
  a final signature that does not verify comes from a fuzzed object.
- `PaymentsFound`: the recipient finds the payments to it and nothing else.
- `MasterTested`: every commit of `master` a run made passed all of `ci.yml`.
  `MasterKeeps`: no commit ever leaves `master`. `FailedKept`: a failed run's
  newest commit is still on its branch.

Why the bounds are enough. Two oracles are one ahead of and one behind another;
a request of two bytes over a pipe of one makes every write block half way, and
the answer, which is longer than the pipe too; two inputs make anything stale
visible. (The proofs remove all of these bounds.) Two builds and two mutants let a
flag of one be taken for the other's, or one build's clear another's; `MCInit`
limits what a mutant may do on which input, to the effects that can be told apart,
and one input is over the size limit. Two registers give every way to alias an
op's operands with its destination and with each other, and all magnitudes are
reached; what two leave out is an op whose three operands all differ, the case
without aliasing, and the proofs are for any number. Order 5 has keys that
cancel, keys that do not, and both parities; in order 7, moreover, 2 is a cube
root of one, as lambda is on the curve, and there are three x coordinates, the
least that has one alone and two that differ only by the order. 43 is the smallest
prime that is like the field's, and every u and x of it is tried. The lengths of
`limits` are the real ones, with inputs of 0, 100 and 4096 bytes, integers at the
boundaries of DER's length octets, and ops that record the least or the most; the
proofs are for any. Counts, limbs and offsets of scalar are at both ends of their
ranges and in between. The corpus's three inputs are two that cover a feature
each and one that covers both, the least a minimize can choose among; the bump
moves a feature and makes another input diverge. Two signers make each loop both
continue and end. Three recipients are a group of two beside a foreign one, three
secrets let scan, spend and foreign key differ or coincide, and `GroupLimit` is
the least the transaction fits. Four commits let two runs and a developer commit
after the first; `MaxCommits` is the only bound on an otherwise unbounded action,
and is in the guard of `Commit`.

Deadlock is checked in every run. Modules of programs that end have an explicit
`Done`, `AllEnded` or `Returned` step in their final states only, so a stop anywhere else is
an error.

## Fairness

Only `oracle` has liveness properties. `FairSpec` assumes weak fairness of
`FuzzerStep` and of `OracleStep(o)` for each oracle: the operating system
schedules each process, their calls return when they can, a build's run of an
input ends, and the kernel ends a process that is dying. It assumes nothing of the
actions outside them: nothing need fail, crash, be interrupted, time out, be
checked or stop. An oracle whose build hangs is outside this assumption; libFuzzer's
timeout, `FTimeout`, is what the program has for it.

## Proofs

| theorem | says | argument |
|---|---|---|
| `OracleTypes` | `[]TypeOK` of `Oracle` | action by action |
| `OracleSafe` | `LinesPaired`, `FreshInput`, `VerdictSound`, `WaitsOnlyForEnded` | from `OracleIInv` |
| `FreshInputAlways`, `VerdictSoundAlways`, `WaitsOnlyForEndedAlways` | three of these alone | |
| `OracleImplements` | `Implements` | step by step, under the invariant |
| `DriverTypes`, `FeedbackAlways`, `CorpusAlways`, `ReportAlways`, `DivergenceNeverKeptAlways` | `TypeOK`, `FeedbackExact`, `CorpusExposes`, `ReportExact`, `DivergenceNeverKept` | which builds have done which mutants, and what was counted where |
| `FeedbackKeptAlways` | `FeedbackKept` | step by step, under the driver's invariant |
| `CoverageAlways`, `CommittedCleanAlways`, `NeverLandsAlways` | `CoverageOnDisk`, `CommittedClean`, `DivergenceNeverLands` | what a process that reads a directory has survived |
| `CiTypes`, `MasterKeepsAlways` | `CiTypeOK`, `MasterKeeps`, with or without overlap | every commit is among its own ancestors |
| `MasterTestedSerial` | `MasterTested`, when `~MayOverlap` | a branch is at the commit of the one run that uses it |
| `FieldSafe`, `MagnitudesTrackedAlways` | `TypeOK`, `MagnitudesTracked`, `CallsInContract` | the tracked magnitudes are the library's, and each op weakens to its bound |
| `DerInBoundsAlways` | `DerInBounds` | a bound on each length at each step |
| `TranscriptFits` | `NeverOverflows` | no op or pass records more than its share |
| `ScalarInContractAlways`, `OnlySplitLosesAlways` | `ScalarInContract`, `OnlySplitLoses` | which locals each op writes and reads, whatever registers coincide |
| `KeysSafe`, `TranscriptExactAlways` | `TypeOK`, `CallsLegal`, `TranscriptExact` | `pk_ok` holds exactly of registers with a key |
| `EcdsaTypes`, `SignedVerifiesAlways`, `ConstructedVerifiesAlways`, `RetriesEndAlways` | `TypeOK`, `SignedVerifies`, `ConstructedVerifies`, `RetriesEnd` of `EcdsaTarget` | the equation `Relates`, kept until a mutation |
| `RecTypes`, `RecoveredVerifiesAlways` | `RecTypeOK`, `RecoveredVerifies` | the same equation, solved for the key |
| `VerifiesAsMadeAlways`, `TweakCheckedAlways` | `VerifiesAsMade`, `TweakChecked` | what verification computes is the nonce, its negation or infinity |
| `SessionSecretsAlways` | `SessionSecrets` | products commute, and an x forgets the sign |
| `BranchReachedAlways` | `BranchReached` | the equation that s solves, and a bound on each magnitude |
| `GroupSafe` | `GrpTypeOK`, `BuildsAgree` | a register is at the same point in every build, whatever its z |
| `MusigSafe`, `MusigCallsLegal`, `CancelRejectedAlways` | `TypeOK`, `CallsLegal`, `CancelRejected`, `HonestVerifies` | what each stage has made, and what the cache records |
| `SilentPaymentsSafe`, `SilentPaymentsCallsLegal`, `TxFitsAlways` | `TypeOK`, `CallsLegal`, `TxFits`, `PaymentsFound` | what each flag stands for, and which `k` the payments have |

They hold for all values of the constants that satisfy the named assumptions
(`OracleAssumption`: between 1 and 16 oracles, the code's `ORACLE_MAX`, and
request and pipe sizes that are not zero; `OrderAssumption`: the order is an odd
prime; `EcdsaAssumption`: points have the x coordinate, modulo the order and with
the bit that says which, of their negation's and of no other's; `FieldPAssumption`: a prime
above 7, and no point of the curve with a zero coordinate; `ScaRegsAssumption`,
`InputAssumption`: registers are not locals, and input is bytes and 16-bit words; `SilentPaymentsAssumption`: the transaction fits the group limit; `DerAssumption`,
`TrAssumption`: integers of at most 255 bytes, inputs of at most the maximum, ops
and passes that record at most their target's longest; the others: counts are not zero). TLC evaluates the assumptions in the runs.

Targets whose proofs need the same facts share a proof module:
`FuzzDriverProofs` has also those of `CorpusFiles` and `CiPipeline`,
`FieldMachineProofs` those of `EcdsaDer`, `TranscriptBudget` and `ScalarMachine`,
`RegisterMachineProofs` those of `KeysMachine` and `GroupMachine`, and
`SignatureProofs` those of the four straight-line targets and of `EllswiftInv`.

**Oracle.** `LinesPaired` alone is not inductive: between checks nothing is left,
but why the last check left nothing depends on how far each oracle was when the
fuzzer moved on. `OracleIInv` adds `Stages`, which says for every stage of the
fuzzer and every oracle, before, at or after the loop index, how much of the
request is where (`Quiet`, `Sending`, `Owed`, `Unsent`): bytes in the pipe,
bytes in the buffer and bytes to write add up to one request, and the bytes of
the answer in the pipe and already read are a prefix of the answer to *this*
input. `Places` gives the fuzzer's own variables at each stage, and `NoneMissed`
that no oracle already judged disagrees while `diverged` is 0; without it `NULL`
would not imply agreement and `Implements` could not be proved. The proof splits
a step into the fuzzer's, one lemma per action, and a process's, for which frame
lemmas say that the other oracles' clauses are untouched.

**Refinement.** A step either changes nothing `Comparison` sees (all of the
exchange's inner steps), or is one of its actions: `FBegin` is `Begin`, `FVerdict`
is `Agree`, `Report` or `Quit` by `NoneMissed` and `VerdictSound`, failures,
stops and timeouts are `Quit`, crashes and ends of stdin are `End`.

**Driver.** `FeedbackExact` speaks of the end of a call, so it says nothing in the
middle of one. `IInv` does, in four parts: `InputExact` says of each mutant which of
the loops' iterations (`Done`) have flagged or exposed it so far, against what
earlier inputs showed (`RanShows`); `FlagsExact` whose flags the shared array holds,
one build's in `mutants` and all builds' after; `CountsExact` the counts between
calls; `Kept` that what was exposed is exposed by a kept input, and that libFuzzer
has been shown no kill that was not. `Compared` and `Rerun` tell which inputs were
compared and which the process has still to rerun, so that a crash loses nothing
that is not in the corpus.

With that invariant the driver implements `Feedback`: `Observe` is `Show`, by
`FeedbackExact` (what the loops left in the counters), `Compared` (the builds
agreed) and the lemma `Exposures` (what earlier inputs showed is what `ran` exposes);
`Exit` is `Exit`, by `CountsExact` and `Rerun`; what aborts is `Fail`; every other step
inside an input changes nothing `Feedback` sees. An input that was not run to the end
shows nothing.

**Corpus files.** `CorpusIInv` says what each goal knows. `Survived`: what a running
fuzzer has run, and what a minimize has copied, does not diverge. `Minimizing`: once
the merge into the temporary directory has succeeded, it reaches what the corpus
did, and it is not touched until it is the corpus. `CoverageOnDisk` is itself a
conjunct: since a fuzz, a merge or a seeding only adds to the corpus, one that
follows an interrupted minimize cannot break it. `Chained` takes the job of
`fuzz.yml` step by step: the fuzzer only ends well when it ran the committed
inputs and the new ones, so after it neither diverges; a change of the code
cannot come between, which is why the properties hold across one.

**Workflows.** That master keeps its commits needs only `CiKeeps`: `commits` grows,
and a commit is its own ancestor. `MasterTested` is about what a run fetches long
after its jobs checked it out. `Underway` says of a run that its workflow's branch is
at the commit it made from then until it is merged, and that its jobs checked out
nothing else; this is inductive only with `OneEach`, that no other run of the
workflow is active, and `ci_overlap` shows it false without. `Based` carries that
what a run started from was vetted too.

**Budgets.** `DerIInv` bounds the body by the integers built so far, and the
encoding by the body, the insertions made and the input left. `TrWithinOps` bounds
the transcript by the ops done, one for a target that is a single pass; `TrShares` is
the arithmetic, that `MAX_OPS` of the longest fit each target's transcript.

**Group of prime order.** `PrimeGroupProofs` begins with division (`Division`,
`ModUnique`, `ModProduct`, `ModSum`), from which the laws of `Product` and `Sum`
follow: they commute, associate and distribute. That every nonzero scalar has an
inverse (`InverseExists`) is a pigeonhole argument. Multiplying by x sends the
nonzero residues to nonzero residues, since the order is prime, and never two to
one; if it missed 1 it would. `Over` then cancels (`OverLaws`).

**ECDSA and recovery.** One equation, `Relates`: z + r*q = s*R. Signing sets s to
satisfy it, construction and recovery solve it for q (`KeyRelated`), and then
verification computes R (`RelatedRecomputes`) and negating s negates R
(`RelatedNegated`), which has the same x. So a signature verifies under q, as it
is if its s is low and normalized in any case (`RelatedVerifies`). `EcdsaIInv`
says at which stages sig64, DER, message and key are still those of that
equation (`SignedMade`, `ConstructedMade`), which of the buffers a mutation was
aimed at, and how many nonces were offered (`Retrying`). In `RecIInv` the
signature still comes from some nonce until a mutation (`RecSigned`);
`SignerRecovered` shows that its id picks that nonce's point of the up to four
with its r, and hence the signer's key.

**Inverse map.** With u nonzero and i an inverse of 3u^2, the calls of
`ellswift_x_r_zero` compute u + s for an s with 4(u^3 + 7) + 3u^2 s = 0
(`RZeroSolves`, `XRZeroIs`), the factor that makes r^2 zero; s is not zero, since
4 and u^3 + 7 are not. `InvIInv` keeps u from being zero, of which `MakeNonZero`
takes care for the input's and `CurveXNonzero` for a u that is an x of the curve.

**Scalar.** A source is read from its copy and the copy is no register
(`ScaRegsAssumption`), so outputs and inputs are disjoint whichever registers
coincide; that an op's bits stay in the scalar and in the limb is arithmetic on
what `%` returns. The two properties are inductive with the types alone.

**Schnorr.** With s as signed, s*G - e*P is the nonce point with an even y; with
2ed - s it is its negation; with ed it is infinity. `SignedIs`, `OddSIs` and their
kind derive that from the group's laws, and `SchIInv` says of every stage that an
unmutated sig64 is still what its `schForm` says (`SchMade`). The cancelling tweak
is computed from the signer's key, so the invariant must say that an unmutated
pk32 is still that key.

**ElligatorSwift.** `EllIInv` says, stage by stage, whose encoding each of `ours`
holds, and that a derived secret is of what both hold by then. Agreement is then
that (b*G)*a and (a*G)*b have one x; the fallback's case that a scalar times the
input's point was hashed with no encoding of the scratch step.

**Field.** `MagnitudesTracked` is what makes `CallsInContract` inductive: the
harness bounds what it tracks, the library what it has. `WeakenTracked` and
`LimitTracked` carry the equality through aliased operands.

**Keys, Group, Musig.** For the register machine of keys the invariant says that
`pk_ok` is set exactly of registers with a valid public key. For that of group the
invariant `Same` says that builds hold the same points; what an op leaves and records
is then a function of those and of the input, which `GrpCommitSafe` asks of every op:
with the op's own guard what the library would compute out of contract never comes in.
In `MusigProofs` the invariant `Key` says that the cache's key is the aggregate
secret, negated when `parity` says so, plus the accumulated tweak, and that `agg`
is that key: from the first follows that the computed tweak sends it to
infinity (`CancelFails`), from the second that an honest signature verifies.

**Silent payments.** `Made` says which objects each flag vouches for, and `Payments`
that the recipient's own outputs have the numbers `0..c-1` for `c` of them and that
the twin has number 0. `FoundExactly` turns that into the count found; the
cardinalities come from the library's theorems on finite sets.

Only model-checked: `CheckEnds` and `OraclesEnd` (liveness under fairness is out of
the prover's reach), and that the findings' counterexamples exist. Every invariant
and every other property that a passing run checks is a theorem.

## Findings

- `ci_overlap`: `bump-secp256k1.yml` fast-forwards `master` to what its branch holds
  when the merge job fetches it, not to the commit its CI tested. The schedule
  alone would never overlap two runs, but `workflow_dispatch` may: the first
  then merges the second's untested commit, against the header's "fast-forwards
  master to it only if CI passes". With runs that do not overlap `MasterTested`
  holds, as `workflows` shows.
- `ci_rejected`: the last push updates `master` and deletes the branch without
  `--atomic`. When a developer pushed meanwhile, the first is refused and the
  second done: the failed run leaves nothing on the branch, against the header's
  "A failed run leaves the bump on the bump-secp256k1 branch".
- `corpus_swallowed`: `minimize` ends with `rm -rf` of the corpus `&& mv` of the new
  one `; echo`, and the echo's success is the recipe's. When `rm` has removed some
  files and fails, the job of `fuzz.yml` goes on to commit the rest, and when `mv`
  fails, a corpus seeded anew by its next step; what only the others covered is lost,
  against the step's "Drop the inputs the rest of the corpus covers". It stays in
  `build/minimize` until the next minimize, as `CoverageOnDisk` says, but there that
  is the runner's, which ends with the job.
- `scalar_recorded`: `SCALAR_SPLIT_128` and `SCALAR_SPLIT_LAMBDA` record their second
  result and store both, the second last; when the input selects one register for
  both, the first is overwritten before the op's end records the destination. Builds
  that differ in it agree, against `diffsecp.h`'s "writes every observable result
  (return codes, output bytes) to out". `OnlySplitLoses`, a theorem, says that this is
  the only result that is lost, and that it always is.

## What is not modelled

- Of the reader, transcript and digest, what is not a length: that FNV-1a tells
  transcripts apart is an assumption of `Oracle`.
- Which bytes the straight-line targets record, and in what order: every build runs
  the same code on the same values, so it decides nothing. In `keys` and `group`,
  where a failed call or a z coordinate may reach the transcript, it is modelled.
- `variant.c`: a table and one context per build, initialized once. Its illegal
  callback is `FuzzDriver`'s `illegal`.
- `mutants/gen.py`, `dict/gen.py`: text generation at build time. What the
  generated code flags is `FuzzDriver`'s `effect`.
- The `Makefile` but for the goals that write a corpus, the CI helper scripts and `latest-compilers.yml`: build rules and jobs that share no state.
- `replay`'s other mode, which dumps the transcripts of a list of files: a pure
  function of each file.
- The library's arithmetic. It is what diffsecp tests; here it is external.

## Plan

Done, in this order: the oracle exchange and its promise, since every comparison
across architectures rests on it; the driver; the register machines with the most
contracts, `field`, `keys` and `group`; the two sessions; the workflows; then the
straight-line targets and `scalar`, the corpus's files, the byte budgets, and the
theorems on the driver, on the new targets, on the corpus's files and on the
workflows; the driver's promise and the refinement; the laws of the group and of the field, and with them the theorems on
the signatures, recovery, the inverse map and the scalars.

What would add most next is the order of the records of the sessions, beside their
number, which is what `TranscriptBudget` has of them.
