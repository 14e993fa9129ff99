------------------------------ MODULE AiDebug ------------------------------
(***************************************************************************)
(* The AI Debug panel of the web viewer (ai_debug_model.js) with what it   *)
(* calls: the diagnostic snapshot, the local rules, the context made for a *)
(* provider, the controller of a provider's run, and the validator of its  *)
(* answer.                                                                 *)
(*                                                                         *)
(* Local analysis is at an await while the snapshot is hashed, an analysis *)
(* by the provider while it runs; all buttons work meanwhile.  A provider  *)
(* is external: it answers anything, fails or takes too long, but ends as  *)
(* soon as it is aborted.                                                  *)
(*                                                                         *)
(* A record is a member of Catalog, and evidence is identified by what it  *)
(* says.  The context's budget counts findings and evidence instead of     *)
(* bytes.  Redaction, recommended actions, feedback and the list of        *)
(* reports are left out.                                                   *)
(***************************************************************************)
EXTENDS Naturals, Sequences, SequencesExt, FiniteSets

CONSTANTS
  Catalog,     \* the records the viewer may collect
  Modulus,     \* of the time stamps
  Near,        \* ticks between anomalies that are seen as close (50)
  Budget,      \* findings and evidence in a context
  MaxData, MaxBuilds   \* bounds

ASSUME AiDebugAssumption ==
  Modulus \in Nat \ {0} /\ {Near, Budget, MaxData, MaxBuilds} \subseteq Nat

none == [none |-> TRUE]

(* The records: where they come from, how severe they are, and whether     *)
(* they have a time.  bad_bytes is no record: it makes the transport's     *)
(* counters, which are always one, show errors.                            *)
Source ==
  [log |-> "debug", frame_stall |-> "debug", drop |-> "trace", timeout |-> "monitor",
   rate |-> "profiler", fifo |-> "profiler", latency |-> "profiler",
   capture |-> "logic_analyzer", torn_capture |-> "logic_analyzer",
   transport |-> "viewer", transport_errors |-> "viewer"]
Severity(name) ==
  IF name \in {"timeout"} THEN "error"
  ELSE IF name \in {"log", "rate", "capture", "transport"} THEN "info" ELSE "warning"
Untimed == {"log", "timeout", "transport", "transport_errors"}

-----------------------------------------------------------------------------
(* The snapshot.                                                           *)

(* collectRecords: the viewer keeps logs and alerts newest first, the rest *)
(* oldest first.                                                           *)
named(data, names) ==
  LET keep(rows, r) == IF r.name \in names THEN Append(rows, r) ELSE rows
  IN FoldLeft(keep, <<>>, data)
collectRecords(data, scope) ==
  LET captures == named(data, {"capture", "torn_capture"})
      transport == IF named(data, {"bad_bytes"}) = <<>> THEN "transport" ELSE "transport_errors"
  IN Reverse(named(data, {"log"})) \o named(data, {"frame_stall"}) \o named(data, {"drop"})
     \o named(data, {"timeout"}) \o named(data, {"rate"})
     \o Reverse(named(data, {"fifo", "latency"}))
     \o (IF scope = "la_capture" /\ captures # <<>> THEN <<Last(captures)>> ELSE captures)
     \o <<[name |-> transport, raw |-> 0]>>

(* A time that is far below the one before it is taken for a wrap.         *)
Unwrapped == [timed |-> FALSE, raw |-> 0, wraps |-> 0, items |-> <<>>]
unwrapNext(before, r) ==
  LET timed == r.name \notin Untimed
      wraps == IF /\ timed /\ before.timed /\ r.raw < before.raw
                  /\ 2 * (before.raw - r.raw) > Modulus
               THEN before.wraps + 1 ELSE before.wraps
  IN [timed |-> before.timed \/ timed, raw |-> IF timed THEN r.raw ELSE before.raw,
      wraps |-> wraps,
      items |-> Append(before.items, [name |-> r.name, wraps |-> wraps, raw |-> r.raw])]
unwrapTimestamps(rows) == FoldLeft(unwrapNext, Unwrapped, rows).items

tick(item) == item.raw + item.wraps * Modulus

(* build: two records that say the same become the same evidence twice.    *)
build(data, scope) ==
  LET items == unwrapTimestamps(collectRecords(data, scope))
  IN [scope |-> scope, evidence |-> ToSet(items), duplicates |-> Len(items) - Cardinality(ToSet(items))]

-----------------------------------------------------------------------------
(* The rules: which evidence makes each fire.  la.trigger_missing asks for *)
(* a field that no snapshot has.                                           *)
REGISTRY ==
  [incomplete |-> {"torn_capture"}, error_rate |-> {"transport_errors"},
   response_timeout |-> {"timeout"}, backpressure |-> {"fifo"}, throughput |-> {"rate"},
   spike |-> {"latency"}, stall |-> {"frame_stall"}, data_integrity |-> {"torn_capture"}]
finding(rule, items) == [rule |-> rule, cites |-> items]

(* The two anomalies of different sources that are closest in time.        *)
temporal_overlap(evidence) ==
  LET abnormal == {e \in evidence : Severity(e.name) # "info" /\ e.name \notin Untimed}
      distance(p) == LET a == tick(p[1]) b == tick(p[2]) IN IF a < b THEN b - a ELSE a - b
      pairs == {p \in abnormal \X abnormal :
                  Source[p[1].name] # Source[p[2].name] /\ distance(p) <= Near}
  IN IF pairs = {} THEN {}
     ELSE LET p == CHOOSE q \in pairs : \A o \in pairs : distance(q) <= distance(o)
          IN {finding("temporal_overlap", {p[1], p[2]})}

evaluate(snapshot) ==
  LET matching(rule) == {e \in snapshot.evidence : e.name \in REGISTRY[rule]}
  IN [snapshot |-> snapshot,
      findings |-> {finding(rule, matching(rule)) : rule \in {r \in DOMAIN REGISTRY : matching(r) # {}}}
                     \cup temporal_overlap(snapshot.evidence)]

-----------------------------------------------------------------------------
(* What the provider gets: the findings with the evidence they cite, those *)
(* about the quality of the data first and whatever their size, then the   *)
(* other evidence, the severe first, as long as the budget allows.         *)
DataQuality(f) == f.rule = "incomplete"
Size(context) == Cardinality(context.findings) + Cardinality(context.selected)
Within(context, bigger) == IF Size(bigger) <= Budget THEN bigger ELSE context

WithFinding(f, context) ==
  LET bigger == [findings |-> context.findings \cup {f}, selected |-> context.selected \cup f.cites]
  IN IF DataQuality(f) THEN bigger ELSE Within(context, bigger)
WithEvidence(e, context) ==
  Within(context, [context EXCEPT !.selected = @ \cup {e}])

buildContext(snapshot, ruleResult) ==
  LET held == {[f EXCEPT !.cites = @ \cap snapshot.evidence] : f \in ruleResult.findings}
      quality == {f \in held : DataQuality(f)}
      found == FoldSet(WithFinding, FoldSet(WithFinding, [findings |-> {}, selected |-> {}], quality),
                       held \ quality)
      severe(s, context) ==
        FoldSet(WithEvidence, context, {e \in snapshot.evidence \ context.selected : Severity(e.name) = s})
  IN severe("info", severe("warning", severe("error", found)))

(* Answers: what they cite, and how sure they are; or none that can be     *)
(* read.                                                                   *)
Unknown == [name |-> "unknown", wraps |-> 0, raw |-> 0]
Answers(context) ==
  {[readable |-> TRUE, cites |-> c, confidence |-> "high"] :
     c \in {{}, {Unknown}} \cup {{e} : e \in context.selected}}
    \cup {[readable |-> FALSE, cites |-> {}, confidence |-> "high"]}

(* Mutant of valid: any evidence may be cited.                             *)
validUnchecked(raw, context) == raw.readable

valid(raw, context) == raw.readable /\ raw.cites \subseteq context.selected

(* What the validator makes of an answer: without evidence it is unsure.   *)
checked(raw) ==
  [cites |-> raw.cites, confidence |-> IF raw.cites = {} THEN "low" ELSE raw.confidence]

-----------------------------------------------------------------------------
VARIABLES
  data,            \* the records the viewer has, oldest first
  status, scope, snapshot, ruleResult, providerResult,   \* AIDebugModel.state
  consent,         \* the check box
  builds,          \* local analyses at their await: what they build, whether Ask AI
                   \* waits for them, whether the state they began with is current,
                   \* and, history, whether the scope was changed since
  run,             \* the controller's run: what it is about, and its attempts
  collected,       \* how many records there have been, which is also the clock
  disturbed,       \* history: another analysis was asked for during the run
  muddled          \* history: what happened around the last local analysis

vars == <<data, status, scope, snapshot, ruleResult, providerResult, consent, builds, run,
          collected, disturbed, muddled>>

Init ==
  /\ data = <<>> /\ collected = 0 /\ status = "idle" /\ scope = "session"
  /\ snapshot = none /\ ruleResult = none /\ providerResult = none
  /\ consent = FALSE /\ builds = <<>> /\ run = none /\ disturbed = FALSE /\ muddled = {}

(* The viewer collects a record; its clock starts near the end.  Entries   *)
(* of the log can be alike.                                                *)
Collect(name) ==
  /\ collected < MaxData /\ collected' = collected + 1
  /\ data' = Append(data, [name |-> name, raw |-> IF name \in {"log", "bad_bytes"} THEN 0
                                                  ELSE (Modulus - 1 + collected) % Modulus])
  /\ UNCHANGED <<status, scope, snapshot, ruleResult, providerResult, consent, builds, run,
                 disturbed, muddled>>

(* runLocal up to its await.                                               *)
runLocal(forAsk) ==
  /\ Len(builds) < MaxBuilds
  /\ builds' = Append(builds, [snapshot |-> build(data, scope), ask |-> forAsk,
                               current |-> TRUE, moved |-> FALSE])
  /\ status' = "building_snapshot"
  /\ disturbed' = (run # none)
  /\ UNCHANGED <<data, collected, scope, snapshot, ruleResult, providerResult, consent, run>>
  /\ muddled' = muddled \ {"broken"}

(* AnalysisController.run: a run that is under way is aborted, and what it *)
(* then reports, stale, is shown after this run's status.                  *)
controllerRun(s, found, shown) ==
  /\ run' = [snapshot |-> s, context |-> buildContext(s, found), attempt |-> 0]
  /\ status' = IF run = none THEN "running" ELSE "stale"
  /\ providerResult' = IF run = none THEN shown ELSE none
  /\ disturbed' = (run # none)

(* askAI                                                                   *)
askAI ==
  IF ~consent
  THEN /\ status # "awaiting_consent" /\ status' = "awaiting_consent"
       /\ disturbed' = (run # none)
       /\ UNCHANGED <<data, collected, scope, snapshot, ruleResult, providerResult, consent, builds, run,
                      muddled>>
  ELSE IF ruleResult = none THEN runLocal(TRUE)
  ELSE /\ controllerRun(snapshot, ruleResult, providerResult)
       /\ UNCHANGED <<data, collected, scope, snapshot, ruleResult, consent, builds, muddled>>

(* The snapshot is hashed, and runLocal goes on, with the snapshot of the  *)
(* current state; the rules refuse a missing one, and one with evidence    *)
(* that is there twice.  Then askAI goes on, if it waited.                 *)
built(i) ==
  LET b == builds[i]
      shown == IF b.current THEN b.snapshot ELSE snapshot
      refused == shown = none \/ (shown # none /\ shown.duplicates > 0)
  IN /\ builds' = RemoveAt(builds, i)
     /\ snapshot' = shown
     /\ muddled' = {why \in {"late", "again", "refused"} :
                      CASE why = "late" -> b.moved
                        [] why = "again" -> run # none
                        [] why = "refused" -> refused}
     /\ IF refused
        THEN /\ status' = "local_analyzing" /\ disturbed' = (run # none)
             /\ UNCHANGED <<ruleResult, providerResult, run>>
        ELSE /\ ruleResult' = evaluate(shown)
             /\ IF b.ask THEN controllerRun(shown, ruleResult', none)
                ELSE /\ status' = "local_complete" /\ providerResult' = none
                     /\ disturbed' = (run # none) /\ UNCHANGED run
     /\ UNCHANGED <<data, collected, scope, consent>>

(* The snapshot cannot be hashed: a record holds a number that is not      *)
(* finite, or the page has no crypto.subtle.  The await rejects, and       *)
(* nothing catches it: nothing is assigned, and askAI does not go on.      *)
BuildFails(i) ==
  /\ builds' = RemoveAt(builds, i)
  /\ muddled' = IF Len(builds) = 1 THEN muddled \cup {"broken"} ELSE muddled
  /\ UNCHANGED <<data, collected, status, scope, snapshot, ruleResult, providerResult, consent, run,
                 disturbed>>

(* The provider answers, and the answer is validated.                      *)
Answered ==
  /\ run # none /\ run' = none
  /\ \E raw \in Answers(run.context) :
       IF valid(raw, run.context)
       THEN /\ status' = "completed"
            /\ providerResult' = [snapshot |-> run.snapshot, diagnosis |-> checked(raw)]
       ELSE status' = "failed" /\ providerResult' = none
  /\ UNCHANGED <<data, collected, scope, snapshot, ruleResult, consent, builds, disturbed, muddled>>

(* Mutant of mayRetry: one attempt more.                                   *)
mayRetryOnceMore(attempt) == attempt <= 1

mayRetry(attempt) == attempt < 1

(* The provider fails, once more or for good, or the time is over.         *)
Failed ==
  /\ run # none
  /\ \/ /\ mayRetry(run.attempt)
        /\ run' = [run EXCEPT !.attempt = @ + 1]
        /\ UNCHANGED <<status, providerResult>>
     \/ run' = none /\ status' = "failed" /\ providerResult' = none
  /\ UNCHANGED <<data, collected, scope, snapshot, ruleResult, consent, builds, disturbed, muddled>>

(* Mutant of abort: the run goes on.                                       *)
abortNot(idle) == status' = idle /\ UNCHANGED run

(* AnalysisController.cancel: the run ends, and askAI shows that it does.  *)
abort(idle) ==
  /\ run' = none
  /\ status' = IF run = none THEN idle ELSE "cancelled"

(* The button Cancel is enabled while the status is "running".             *)
Cancel ==
  /\ status = "running"
  /\ abort("cancelled") /\ providerResult' = none
  /\ UNCHANGED <<data, collected, scope, snapshot, ruleResult, consent, builds, disturbed, muddled>>

changeScope(s) ==
  /\ abort("idle")
  /\ scope' = s
  /\ snapshot' = none /\ ruleResult' = none /\ providerResult' = none
  /\ builds' = [i \in DOMAIN builds |-> [builds[i] EXCEPT !.moved = TRUE]]
  /\ disturbed' = FALSE /\ muddled' = {}
  /\ UNCHANGED <<data, collected, consent>>

(* clearAll: the data go, and reset makes a new state.                     *)
clearAll ==
  /\ abort("idle")
  /\ data' = <<>> /\ scope' = "session" /\ consent' = FALSE
  /\ snapshot' = none /\ ruleResult' = none /\ providerResult' = none
  /\ builds' = [i \in DOMAIN builds |-> [builds[i] EXCEPT !.current = FALSE]]
  /\ disturbed' = FALSE /\ muddled' = {}
  /\ UNCHANGED collected

SetConsent ==
  /\ consent' = ~consent
  /\ UNCHANGED <<data, collected, status, scope, snapshot, ruleResult, providerResult, builds, run,
                 disturbed, muddled>>

Next ==
  \/ \E name \in Catalog : Collect(name)
  \/ runLocal(FALSE) \/ askAI \/ (\E i \in 1 .. MaxBuilds : i <= Len(builds) /\ built(i))
  \/ (\E i \in 1 .. MaxBuilds : i <= Len(builds) /\ BuildFails(i))
  \/ Answered \/ Failed \/ Cancel \/ clearAll \/ SetConsent
  \/ \E s \in {"session", "la_capture"} : changeScope(s)

Spec == Init /\ [][Next]_vars

-----------------------------------------------------------------------------
(* Every variable holds a value of its kind; a run has had one retry at    *)
(* most.                                                                   *)
TypeOK ==
  /\ data \in Seq([name : Catalog, raw : 0 .. Modulus - 1])
  /\ status \in {"idle", "building_snapshot", "local_analyzing", "local_complete",
                 "awaiting_consent", "running", "stale", "completed", "failed", "cancelled"}
  /\ scope \in {"session", "la_capture"} /\ consent \in BOOLEAN /\ disturbed \in BOOLEAN
  /\ Len(builds) <= MaxBuilds
  /\ run # none => run.attempt \in 0 .. 1

(* What the panel shows and exports as one report belongs together: the    *)
(* findings are about the snapshot shown and cite evidence that it holds,  *)
(* the snapshot is of the scope shown, and the diagnosis answers for this  *)
(* snapshot, cites nothing else, and is not sure of what it has no         *)
(* evidence for.  It does not, until the next local analysis, when the     *)
(* scope was changed during one (late), one ended during the provider's    *)
(* run (again), or the rules refused its snapshot.                         *)
ReportBelongsTogether ==
  /\ snapshot = none \/ ruleResult = none => providerResult = none
  /\ snapshot # none /\ ruleResult # none =>
       /\ "refused" \notin muddled =>
            /\ ruleResult.snapshot = snapshot
            /\ \A f \in ruleResult.findings : f.cites # {} /\ f.cites \subseteq snapshot.evidence
       /\ "late" \notin muddled => snapshot.scope = scope
  /\ providerResult # none =>
       /\ muddled \cap {"again", "refused"} = {} => providerResult.snapshot = snapshot
       /\ providerResult.diagnosis.cites \subseteq providerResult.snapshot.evidence
       /\ providerResult.diagnosis.confidence = "high" => providerResult.diagnosis.cites # {}

(* The status tells what goes on: a run can be cancelled, unless something *)
(* else was asked for meanwhile; the panel says that it waits only while   *)
(* it does, unless the last local analysis under way has failed (broken),  *)
(* for then nobody puts the status right; and the local findings are there *)
(* when the provider has ended (askAI, runLocal, AnalysisController).      *)
StatusTold ==
  /\ run # none /\ ~disturbed => status = "running"
  /\ status = "running" => run # none
  /\ status = "building_snapshot" => builds # <<>> \/ "broken" \in muddled
  /\ status \in {"completed", "failed"} => ruleResult # none
=============================================================================
