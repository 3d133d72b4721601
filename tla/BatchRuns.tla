------------------------------ MODULE BatchRuns ------------------------------
(***************************************************************************)
(* One BatchProcessor: a run hands its items, in batches, to a processor   *)
(* the caller gives, in one of three ways, while the caller may update the *)
(* configuration.  The code reads the configuration again wherever it      *)
(* needs a number, so every await is a place where the numbers change      *)
(* under it.  The setting `timeout' is never read: a processor that does   *)
(* not answer holds the run for ever.                                      *)
(***************************************************************************)
EXTENDS Integers, FiniteSets, Sequences

CONSTANTS
  N,             \* items of a run
  BatchConfigs,  \* the configurations updateConfig() may leave behind
  Lengths        \* how many results a processor may return, besides one per item

ASSUME BatchConstantsAssumption ==
  /\ N \in Nat
  /\ BatchConfigs \subseteq [size : Nat \ {0}, tries : Nat, group : Nat \ {0}]
  /\ BatchConfigs # {}
  /\ Lengths \subseteq Nat

Item == 0..(N - 1)
NoResult == [processed |-> 0, successful |-> 0, failed |-> 0]

VARIABLES
  config,        \* batchSize, retryAttempts and maxConcurrentBatches
  mode,          \* "plain", "retry" or "concurrent"
  phase,         \* "loop", "call", "backoff", "pause", "group" or "stopped"
  at,            \* i, the index of the loop
  batch,         \* the items of the batch in flight
  attempt,       \* retryCount
  groups,        \* concurrent: the groups still to come, each a set of batches
  waiting,       \* concurrent: batches of the group that have not answered
  lost,          \* concurrent: batches of the group whose processor threw
  returned,      \* concurrent: results of the batches of the group that answered
  result,
  handed,        \* history: how many batches each item was in
  resized,       \* history: the batch size changed during this run
  jolted,        \* history: items of batches counted twice by a throwing onProgress
  skipped,       \* history: items of batches counted without the processor's results
  surplus        \* history: results returned beyond one for each item of their batches

batchVars == << config, mode, phase, at, batch, attempt, groups, waiting, lost, returned, result,
                handed, resized, jolted, skipped, surplus >>
group == << groups, waiting, lost, returned >>

\* The run is over: it has returned its result.
Over == phase = "stopped" \/ (phase = "loop" /\ at >= N)

BatchInit ==
  /\ config \in BatchConfigs
  /\ mode = "plain" /\ phase = "stopped" /\ at = 0 /\ batch = {} /\ attempt = 0
  /\ groups = << >> /\ waiting = {} /\ lost = {} /\ returned = 0
  /\ result = NoResult
  /\ handed = [i \in Item |-> 0] /\ resized = FALSE
  /\ jolted = 0 /\ skipped = 0 /\ surplus = 0

\* items.slice(i, i + size)
SliceAt(i, size) == { j \in Item : i <= j /\ j < i + size }

Handing(items) == handed' = [j \in Item |-> handed[j] + IF j \in items THEN 1 ELSE 0]

\* The concurrent mode cuts everything before it waits for anything.
Batches(size) == { SliceAt(i, size) : i \in { i \in Item : i % size = 0 } }
First(items) == CHOOSE i \in items : \A j \in items : i <= j
GroupsOf(size, width) ==
  LET inGroup(g) == { b \in Batches(size) : (First(b) \div size) \div width = g }
  IN  [g \in 1..((N + size * width - 1) \div (size * width)) |-> inGroup(g - 1)]

\* A run begins when the last one is over.
Begin(m) ==
  /\ Over
  /\ mode' = m /\ at' = 0 /\ batch' = {} /\ attempt' = 0
  /\ groups' = IF m = "concurrent" THEN GroupsOf(config.size, config.group) ELSE << >>
  /\ phase' = IF m = "concurrent" THEN "group" ELSE "loop"
  /\ waiting' = {} /\ lost' = {} /\ returned' = 0
  /\ result' = NoResult
  /\ handed' = [i \in Item |-> 0] /\ resized' = FALSE
  /\ jolted' = 0 /\ skipped' = 0 /\ surplus' = 0
  /\ UNCHANGED config

-----------------------------------------------------------------------------
(* processBatch and processBatchWithRetry *)

\* Faulty variant: the index follows the count of processed items.
StepByCount == at' = result'.processed

\* i += this.config.batchSize, with the size of this moment.
StepOn == at' = at + config.size

Advance == StepOn /\ phase' = "loop" /\ batch' = {} /\ attempt' = 0

\* What a processor that does not throw returns: any number of results, and most
\* processors one for each item.
Returns(items) == Lengths \cup {Cardinality(items)}

\* Faulty variant: every item of a batch counts as successful, results or not.
CountedWhole(n, failed) ==
  [processed |-> result.processed + Cardinality(batch),
   successful |-> result.successful + Cardinality(batch), failed |-> result.failed + failed]

\* The batch is counted: all its items processed, its n results successful.
Counted(n, failed) ==
  [processed |-> result.processed + Cardinality(batch),
   successful |-> result.successful + n, failed |-> result.failed + failed]

\* A batch is done with n results, and progress is told.  If onProgress
\* throws, the plain mode counts the batch again, as failed, and goes on; with
\* retries the whole run ends.  Otherwise the run pauses before the next batch.
Settle(n) ==
  \/ /\ mode = "plain"
     /\ result' = Counted(n, Cardinality(batch))
     /\ jolted' = jolted + Cardinality(batch)
     /\ Advance
  \/ /\ mode = "retry"
     /\ result' = Counted(n, 0)
     /\ phase' = "stopped"
     /\ UNCHANGED << at, batch, attempt, jolted >>
  \/ /\ result' = Counted(n, 0)
     /\ UNCHANGED jolted
     /\ IF at + config.size < N
        THEN phase' = "pause" /\ UNCHANGED << at, batch, attempt >>
        ELSE Advance

\* The next batch is cut and handed over.  With no retries allowed it counts as
\* processed, with no results, and the processor never sees it.
Slice ==
  /\ mode # "concurrent" /\ phase = "loop" /\ at < N
  /\ batch' = SliceAt(at, config.size)
  /\ IF mode = "retry" /\ config.tries = 0
     THEN phase' = "skip" /\ UNCHANGED << handed >>
     ELSE phase' = "call" /\ Handing(batch')
  /\ UNCHANGED << config, mode, at, attempt, group, result, resized, jolted, skipped, surplus >>

Skip ==
  /\ phase = "skip"
  /\ skipped' = skipped + Cardinality(batch)
  /\ Settle(0)
  /\ UNCHANGED << config, mode, group, handed, resized, surplus >>

\* The processor answers.
Answer ==
  /\ mode # "concurrent" /\ phase = "call"
  /\ \E n \in Returns(batch) : Settle(n) /\ surplus' = surplus + n - Cardinality(batch)
  /\ UNCHANGED << config, mode, group, handed, resized, skipped >>

\* The processor throws: the plain mode counts the batch failed and goes on at
\* once; the other waits and tries again, or gives up the whole run.
Throw ==
  /\ mode # "concurrent" /\ phase = "call"
  /\ IF mode = "plain"
     THEN /\ result' = [result EXCEPT !.failed = @ + Cardinality(batch)]
          /\ Advance
     ELSE /\ attempt' = attempt + 1
          /\ phase' = IF attempt' >= config.tries THEN "stopped" ELSE "backoff"
          /\ UNCHANGED << result, at, batch >>
  /\ UNCHANGED << config, mode, group, handed, resized, jolted, skipped, surplus >>

\* The delay before a retry is over.  If retryAttempts was lowered meanwhile,
\* the loop ends without results and the batch counts as processed.
Retry ==
  /\ phase = "backoff"
  /\ phase' = IF attempt < config.tries THEN "call" ELSE "skip"
  /\ UNCHANGED << config, mode, at, batch, attempt, group, result, handed, resized, jolted, skipped, surplus >>

\* The delay between batches is over.
Resume ==
  /\ mode # "concurrent" /\ phase = "pause"
  /\ UNCHANGED << config, mode, group, result, handed, resized, jolted, skipped, surplus >>
  /\ Advance

-----------------------------------------------------------------------------
(* processBatchConcurrent *)

NextGroup == groups' = Tail(groups) /\ waiting' = Head(groups) /\ lost' = {} /\ returned' = 0

\* A group's batches are handed over together.
StartGroup ==
  /\ mode = "concurrent" /\ phase = "group"
  /\ IF groups = << >>
     THEN phase' = "stopped" /\ UNCHANGED << group, batch, handed >>
     ELSE NextGroup /\ batch' = UNION Head(groups) /\ Handing(batch') /\ phase' = "call"
  /\ UNCHANGED << config, mode, at, attempt, result, resized, jolted, skipped, surplus >>

\* One of them answers or throws, in any order.
EndBatch(b) ==
  /\ mode = "concurrent" /\ phase = "call" /\ b \in waiting
  /\ waiting' = waiting \ {b}
  /\ \/ lost' = lost \cup {b} /\ UNCHANGED << returned, surplus >>
     \/ /\ \E n \in Returns(b) :
             returned' = returned + n /\ surplus' = surplus + n - Cardinality(b)
        /\ UNCHANGED lost
  /\ UNCHANGED << config, mode, phase, at, batch, attempt, groups, result, handed, resized, jolted, skipped >>

\* When all have, they are counted and progress is told; an onProgress that throws
\* ends the run.
EndGroup ==
  /\ mode = "concurrent" /\ phase = "call" /\ waiting = {}
  /\ result' = [processed |-> result.processed + Cardinality(batch),
                successful |-> result.successful + returned,
                failed |-> result.failed + Cardinality(UNION lost)]
  /\ phase' \in {"group", "stopped"}
  /\ UNCHANGED << config, mode, at, batch, attempt, group, handed, resized, jolted, skipped, surplus >>

-----------------------------------------------------------------------------
\* updateConfig(), whenever the run waits.
UpdateConfig ==
  /\ phase \in {"call", "backoff", "pause", "group"} \/ Over
  /\ config' \in BatchConfigs \ {config}
  /\ resized' = (resized \/ config'.size # config.size)
  /\ UNCHANGED << mode, phase, at, batch, attempt, group, result, handed, jolted, skipped, surplus >>

BatchNext ==
  \/ \E m \in {"plain", "retry", "concurrent"} : Begin(m)
  \/ Slice \/ Skip \/ Answer \/ Throw \/ Retry \/ Resume
  \/ StartGroup \/ EndGroup \/ (\E b \in waiting : EndBatch(b))
  \/ UpdateConfig

BatchSpec == BatchInit /\ [][BatchNext]_batchVars

-----------------------------------------------------------------------------
(* Properties *)

HandedOut == { j \in Item : handed[j] > 0 }

\* No item is in two batches, but for those of a retry, and none is passed over:
\* what the processor has been handed are the items up to some point, each once,
\* unless no retry was left for a batch.  The concurrent mode keeps this whatever
\* happens to the configuration; the other two lose it when the batch size changes
\* while they wait, because they cut with one size and step with another.
EachItemOnce ==
  mode = "concurrent" \/ ~resized =>
    /\ \A j \in Item : handed[j] <= 1
    /\ skipped = 0 => \A j \in HandedOut, i \in Item : i < j => i \in HandedOut

\* A run that ends by itself has accounted for every item: what succeeded and
\* what failed are all the items, the failed batches counted once.  Four things
\* bend the numbers, each by exactly its items: a progress report that throws
\* counts its batch twice, a batch no retry was left for counts as processed
\* without results, a processor that returns more or fewer results than its batch
\* has items counts what it returns, and a changed batch size counts what it cut.
CountsAddUp ==
  LET ended == IF mode = "concurrent" THEN phase = "group" /\ groups = << >> ELSE phase = "loop" /\ at >= N IN
  ended /\ (mode = "concurrent" \/ ~resized) =>
    /\ result.successful + result.failed = N + jolted - skipped + surplus
    /\ result.processed = N - (IF mode = "plain" THEN result.failed - jolted ELSE 0)
=============================================================================
