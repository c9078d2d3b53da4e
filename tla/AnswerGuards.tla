---------------------------- MODULE AnswerGuards ----------------------------
(***************************************************************************)
(* What becomes of the text a run has produced, in swarm/team.py: the      *)
(* guards of _verified_answer, each of which may send the whole team over  *)
(* the task again, and the passes run_task_async makes over their result   *)
(* until it is delivered and the status of the run is written.  What a     *)
(* text says is reduced to what verify_claims finds in it, to how its      *)
(* generation ended and to the notices it carries; whether a guard finds   *)
(* its fault in a text is left open.                                       *)
(***************************************************************************)

VARIABLES
  at,      \* the guard the run has come to
  text,    \* content
  base,    \* the caller's content while _verified_answer is at work
  drafted, \* history: the main pass came back with an answer
  team,    \* the flags on the team object; whether all_results has grown
  writes,  \* a pass in all_results wrote a file; the one result is bound to did
  checks,  \* hive-mcp is connected; what verify_claims said of this very text;
           \* history: its report had no line of a kind the last guard lists
  status   \* of the run, as persist_run_completed is given it

locals == <<base, drafted>>
answerVars == <<at, text, locals, team, writes, checks, status>>

Verdicts == {"clean", "miscited", "invented"}
Ends == {"whole", "stopped", "cut"}   \* by itself, by a stall guard, mid-answer

(* A pass of the team: an answer, the sentinel _stream_team_run puts for   *)
(* an empty one, the canned apology, or an exception.                      *)
Outcomes ==
  {o \in [how : {"answer", "sentinel", "canned", "raised"}, end : Ends,
          wrote : BOOLEAN, verdict : Verdicts] :
     /\ o.how # "answer" => o.verdict = "clean" /\ o.end # "stopped"
     /\ o.how = "raised" => o.end = "whole"}

(* How a text came in: past the questions _adopt_retry asks, or not.       *)
Routes == {"asked", "same fault", "repair", "term repair", "reconstruction", "raised"}
Reports == {"missing", "there", "replaced"}   \* the report of the writes
Notes == {"none", "incomplete", "no marker", "unsupported", "no evidence"}
Heads == {"none", "failed", "uncertain"}

Draft(o) ==
  [kind |-> o.how, end |-> o.end, verdict |-> o.verdict, via |-> "asked",
   note |-> "none", head |-> "none", told |-> FALSE, attempted |-> FALSE,
   report |-> "missing", notApplied |-> FALSE]

Go(place) == at' = place
Passes(here, next) ==
  /\ at = here /\ Go(next)
  /\ UNCHANGED <<text, locals, team, writes, checks, status>>

(* What verify_claims may say of a text.                                   *)
Verified(t) ==
  IF ~checks.hive THEN {"ok"}
  ELSE {"unavailable", IF t.verdict = "clean" THEN "ok" ELSE "bad"}
BugUnverified == checks
Unverified == [checks EXCEPT !.seen = "no", !.unlisted = FALSE]   \* content != _content_at_verify

-----------------------------------------------------------------------------
(* The main pass of run_task_async.  A solo run delivers the text of a     *)
(* member instead of the coordinator's, whose flags stay.                  *)
AnswerInit ==
  \E o \in {p \in Outcomes : p.how # "raised"}, stalled, hive \in BOOLEAN :
    /\ o.end # "whole" => stalled
    /\ at = "complete"
    /\ text = Draft(o) /\ base = text /\ drafted = (o.how = "answer")
    /\ team = [spent |-> FALSE, stalled |-> stalled, repaired |-> FALSE]
    /\ writes = [counted |-> o.wrote, result |-> o.wrote]
    /\ checks = [hive |-> hive, seen |-> "no", unlisted |-> FALSE, unsure |-> FALSE]
    /\ status = "running"

(* _adopt_retry: a pass a stall guard has stopped is never adopted, nor    *)
(* one that follows a flag nobody has cleared, nor the canned apology.     *)
BugAdoptable(o) == o.how \in {"answer", "sentinel"}
Adoptable(o) ==
  o.how \in {"answer", "sentinel"} /\ ~team.stalled /\ o.end = "whole"

BugAdopted(o) ==
  /\ Adoptable(o)
  /\ team' = [team EXCEPT !.spent = TRUE, !.stalled = FALSE]
  /\ writes' = [writes EXCEPT !.result = o.wrote]
  /\ text' = Draft(o) /\ checks' = Unverified
Adopted(o) ==
  /\ Adoptable(o)
  /\ team' = [team EXCEPT !.spent = TRUE, !.stalled = FALSE]
  /\ writes' = [counted |-> writes.counted \/ o.wrote, result |-> o.wrote]
  /\ text' = Draft(o) /\ checks' = Unverified

(* It is kept out: it has read less than the draft, or one of the above.   *)
Declined(o) ==
  /\ o.how # "raised"
  /\ team' = [team EXCEPT !.spent = TRUE, !.stalled = FALSE]
  /\ writes' = [writes EXCEPT !.counted = @ \/ o.wrote]
  /\ UNCHANGED <<text, checks>>

(* A pass that is dropped before _adopt_retry has looked at it leaves its  *)
(* flag behind; one that raised is not in all_results.                     *)
Dropped(o) ==
  /\ team' = [team EXCEPT !.spent = @ \/ o.how # "raised",
                          !.stalled = @ \/ o.end # "whole"]
  /\ writes' = [writes EXCEPT !.counted = @ \/ (o.wrote /\ o.how # "raised")]
  /\ UNCHANGED <<text, checks>>

Retry(next) ==
  \E o \in Outcomes :
    /\ Adopted(o) \/ Declined(o) \/ (o.how = "raised" /\ Dropped(o))
    /\ Go(next) /\ UNCHANGED <<locals, status>>

(* _grounded_retry_from_evidence: a pass whose answer names nothing that   *)
(* was captured is dropped.                                                *)
Grounded(next, recovered) ==
  \E o \in Outcomes :
    /\ \/ o.how = "answer" /\ Adopted(o) /\ Go(recovered)
       \/ o.how = "answer" /\ Declined(o) /\ Go(next)
       \/ Dropped(o) /\ Go(next)
    /\ UNCHANGED <<locals, status>>

(* _tail: every return of _verified_answer but a few appends the report of *)
(* what the passes in all_results have written, and those few append it    *)
(* themselves.                                                             *)
BugReported(t) == [t EXCEPT !.report = IF writes'.result THEN "there" ELSE @]
Reported(t) == [t EXCEPT !.report = IF writes'.counted THEN "there" ELSE @]

(* A guard has found its fault and returns the text with a notice.         *)
Return(t) == Go("returned") /\ text' = Reported([t EXCEPT !.told = TRUE])
Flagged(here) ==
  /\ at = here /\ UNCHANGED <<locals, team, writes, checks, status>>
  /\ Return(text)

(* The same, because the one retry has been used.                          *)
Spent(here) ==
  /\ at = here /\ team.spent /\ UNCHANGED <<locals, team, writes, checks, status>>
  /\ Return([text EXCEPT !.attempted = TRUE])

(* The retry shows the fault it was made for: it is what is returned, and  *)
(* nobody has asked whether it was cut short.                              *)
SameFault(o, notApplied) ==
  /\ o.how = "answer"
  /\ team' = [team EXCEPT !.spent = TRUE, !.stalled = @ \/ o.end # "whole"]
  /\ writes' = [writes EXCEPT !.counted = @ \/ o.wrote]
  /\ Return([Draft(o) EXCEPT !.via = "same fault", !.notApplied = notApplied])
  /\ UNCHANGED <<locals, checks, status>>

-----------------------------------------------------------------------------
(* _complete_repetition_truncated_answer: what the one bounded completion  *)
(* may make of a text when a flag is up, whoever put it up.                *)
Noted(t, note) ==
  [t EXCEPT !.note = note, !.kind = IF @ = "canned" THEN "answer" ELSE @]
Disclosed(t, note) ==   \* _ends_at_a_natural_stopping_point is not asked of a cut text
  (IF t.end = "cut" THEN {} ELSE {t}) \cup (IF t.end = "stopped" THEN {} ELSE {Noted(t, note)})
Extended(t, note) ==
  {[Noted(t, note) EXCEPT !.kind = "answer", !.end = e, !.verdict = v] :
     e \in {IF note = "none" THEN "whole" ELSE "cut"}, v \in {t.verdict, "invented"}}

Completion(texts, ran, taken) ==
  [text : texts, ran : {ran}, wrote : IF ran THEN BOOLEAN ELSE {FALSE}, taken : {taken}]
Completions(t) ==
  Completion({Noted(t, "no evidence"), Noted(t, "incomplete")}, FALSE, FALSE)
  \cup Completion((UNION {Disclosed(t, n) : n \in {"incomplete", "no marker"}})
                    \cup (IF checks.hive THEN Disclosed(t, "unsupported") ELSE {}),
                  TRUE, FALSE)
  \cup Completion(Extended(t, "incomplete") \cup Extended(t, "none"), TRUE, TRUE)

Complete ==
  /\ at = "complete" /\ Go("syntax loss")
  /\ \/ ~team.stalled /\ UNCHANGED <<text, team, writes>>
     \/ /\ team.stalled
        /\ \E c \in Completions(text) :
             /\ text' = c.text
             /\ team' = [team EXCEPT !.stalled = FALSE, !.spent = c.ran]
             /\ writes' = [counted |-> writes.counted \/ c.wrote,
                          result |-> IF c.taken THEN c.wrote ELSE writes.result]
  /\ UNCHANGED <<locals, checks, status>>

(* _reask_after_syntax_loss does not ask whether the retry is spent.       *)
ReaskAfterSyntaxLoss ==
  \/ Passes("syntax loss", "comparison")
  \/ at = "syntax loss" /\ Retry("comparison")

(* _reconcile_completeness_claim_with_comparison: an answer synthesised    *)
(* from the computed comparison, or a pass.                                *)
Synthesised(v) == Draft([how |-> "answer", end |-> "whole", verdict |-> v])
ReconcileComparison ==
  \/ Passes("comparison", "upfront")
  \/ /\ at = "comparison" /\ Go("upfront")
     /\ \E v \in Verdicts : text' = Synthesised(v)
     /\ UNCHANGED <<locals, team, writes, checks, status>>
  \/ at = "comparison" /\ ~team.spent /\ Retry("upfront")

VerifyUpFront ==
  /\ at = "upfront" /\ Go("no answer")
  /\ \E said \in Verified(text) : checks' = [checks EXCEPT !.seen = said]
  /\ UNCHANGED <<text, locals, team, writes, status>>

NoAnswer ==
  \/ text.kind = "canned" /\ Flagged("no answer")
  \/ text.kind # "canned" /\ Passes("no answer", "intent")

UnfinishedIntent ==
  \/ Passes("intent", "write claim") \/ Spent("intent")
  \/ /\ at = "intent" /\ ~team.spent
     /\ Retry("write claim") \/ \E o \in Outcomes : SameFault(o, FALSE)

(* Only the writes of the pass the text comes from are looked at.          *)
WriteClaim ==
  \/ Passes("write claim", "search claim")
  \/ /\ at = "write claim" /\ ~writes.result /\ team.spent
     /\ UNCHANGED <<locals, team, writes, checks, status>>
     /\ Return([text EXCEPT !.attempted = TRUE, !.notApplied = TRUE])
  \/ /\ at = "write claim" /\ ~writes.result /\ ~team.spent
     /\ \/ Retry("search claim")
        \/ \E o \in Outcomes : ~o.wrote /\ SameFault(o, TRUE)

SearchClaim ==
  \/ Passes("search claim", "no evidence") \/ Spent("search claim")
  \/ /\ at = "search claim" /\ ~team.spent
     /\ \/ Grounded("no evidence", "no evidence")
        \/ \E o \in Outcomes : SameFault(o, FALSE)

NoEvidence ==
  \/ Passes("no evidence", "db") \/ Spent("no evidence")
  \/ at = "no evidence" /\ ~team.spent /\ Retry("ungrounded")
  \/ Flagged("ungrounded") \/ Passes("ungrounded", "db")

(* These two guards do not ask whether the retry is spent either.          *)
DbEvidence ==
  \/ Passes("db", "narrated")
  \/ at = "db" /\ Retry("no db")
  \/ Flagged("no db") \/ Passes("no db", "narrated")
EnumerationEvidence ==
  \/ Passes("enumeration", "counts")
  \/ at = "enumeration" /\ Retry("no listing")
  \/ Flagged("no listing") \/ Passes("no listing", "counts")

NarratedTool ==
  \/ Passes("narrated", "enumeration")
  \/ at = "narrated" /\ ~team.spent /\ Retry("enumeration")

(* A count no reading of the listing bears out may be replaced by one.     *)
Counts ==
  \/ Passes("counts", "claims") \/ Flagged("counts")
  \/ /\ at = "counts" /\ UNCHANGED <<locals, team, writes, checks, status>>
     /\ Return(Synthesised("clean"))

ClaimsAndSums == Passes("claims", "withheld") \/ Flagged("claims")

(* The texts a grounded pass has recovered are verified on the spot.       *)
Recovers(t) ==
  /\ Go("returned") /\ UNCHANGED <<locals, team, writes, checks, status>>
  /\ \E said \in Verified(t) : text' = Reported([t EXCEPT !.told = @ \/ said # "ok"])
Recovered == at = "recovered" /\ Recovers(text)

(* _reconcile_under_delivery: the members' own findings are adopted        *)
(* without a pass, whether or not the retry is spent.                      *)
UnderDelivery ==
  \/ Passes("withheld", "thin") \/ Flagged("withheld")
  \/ at = "withheld" /\ \E v \in Verdicts : Recovers(Synthesised(v))
  \/ at = "withheld" /\ ~team.spent /\ Grounded("still short", "recovered")
  \/ Flagged("still short")

ThinAnswer ==
  \/ \E next \in {"sources", "recovered"} : Passes("thin", next)
  \/ /\ at = "thin" /\ ~team.spent
     /\ \E next \in {"sources", "recovered"} : Grounded(next, next)

Sources == Passes("sources", "both sides") \/ Flagged("sources")

UnderAnsweredComparison ==
  \/ Passes("both sides", "list") \/ Flagged("both sides")
  \/ at = "both sides" /\ ~team.spent /\ Grounded("still short", "compared")
  \/ Flagged("compared") \/ Passes("compared", "list")

UnderAnsweredEnumeration == Passes("list", "relay") \/ Flagged("list")

RelayDrop ==
  \/ Passes("relay", "capability") \/ Flagged("relay")
  \/ at = "relay" /\ ~team.spent /\ Grounded("still short", "recovered")

Capability == Passes("capability", "notices") \/ Flagged("capability")

(* The notices on refused tools and on an answer nobody was delegated.     *)
Notices ==
  \/ Passes("notices", "dispose")
  \/ /\ at = "notices" /\ Go("dispose")
     /\ text' = [text EXCEPT !.told = TRUE] /\ checks' = Unverified
     /\ UNCHANGED <<locals, team, writes, status>>

-----------------------------------------------------------------------------
(* A report of which the guard lists no line, for a fault other than an    *)
(* invented symbol: nothing is appended but the note of the verdict up     *)
(* front, if that was bad, less what the text no longer says.              *)
Unlisted ==
  /\ text.verdict = "miscited" /\ Go("returned")
  /\ checks' = [checks EXCEPT !.unlisted = TRUE]
  /\ \E noted \in IF checks.seen = "bad" THEN {TRUE} ELSE BOOLEAN :
       text' = Reported([text EXCEPT !.told = @ \/ noted])

(* The last word of _verified_answer: the text that will ship is verified, *)
(* again if it is no longer the one that was verified up front.            *)
Dispose ==
  /\ at = "dispose" /\ UNCHANGED <<locals, team, writes, status>>
  /\ \E said \in IF checks.seen = "no" THEN Verified(text) ELSE {checks.seen} :
       \/ said = "unavailable" /\ Return(text) /\ UNCHANGED checks
       \/ said = "ok" /\ Go("returned") /\ text' = Reported(text) /\ UNCHANGED checks
       \/ said = "bad" /\ Unlisted
       \/ said = "bad" /\ team.spent /\ Return([text EXCEPT !.attempted = TRUE]) /\ UNCHANGED checks
       \/ said = "bad" /\ ~team.spent /\ Go("correct") /\ UNCHANGED <<text, checks>>

(* The citation correction: kept out, the flagged draft ships; adopted, it *)
(* is verified again, and while it is still bad the draft may be preferred.*)
Correct ==
  \E o \in Outcomes :
    /\ at = "correct" /\ UNCHANGED <<locals, checks, status>>
    /\ team' = [team EXCEPT !.spent = @ \/ o.how # "raised", !.stalled = FALSE]
    /\ writes' = [writes EXCEPT !.counted = @ \/ (o.wrote /\ o.how # "raised")]
    /\ \/ Return([text EXCEPT !.attempted = TRUE])
       \/ /\ Adoptable(o)
          /\ \E said \in Verified(Draft(o)) :
               IF said = "ok" THEN Go("returned") /\ text' = Reported(Draft(o))
               ELSE Return(Draft(o))

(* Back in run_task_async: all_results, result and the verdict of the      *)
(* draft were _verified_answer's own.                                      *)
Gone == [kind |-> "none"]
Forgets ==
  /\ base' = Gone /\ UNCHANGED <<drafted, status>>
  /\ team' = [team EXCEPT !.spent = FALSE]
  /\ writes' = [writes EXCEPT !.result = FALSE] /\ checks' = Unverified
Returns == at = "returned" /\ Go("invariant") /\ Forgets /\ UNCHANGED text

-----------------------------------------------------------------------------
(* _repair_verification_failure: one attempt per run, none when            *)
(* _verified_answer has already made one.  The correction must keep every  *)
(* paragraph that was not flagged, the report of the writes and all        *)
(* notices among them, which the sentinel does not.  Whether it was cut    *)
(* short is not asked.                                                     *)
Failed(t) == [t EXCEPT !.head = "failed", !.told = TRUE]
Corrected(o, route) ==
  [text EXCEPT !.kind = "answer", !.verdict = o.verdict, !.end = o.end, !.via = route]
Leaves(o) == team' = [team EXCEPT !.repaired = TRUE, !.stalled = @ \/ o.end # "whole"]

Repair(next, route) ==
  /\ Go(next) /\ UNCHANGED <<locals, writes, status>>
  /\ \/ /\ team.repaired \/ text.attempted
        /\ team' = [team EXCEPT !.repaired = TRUE] /\ text' = Failed(text)
     \/ /\ ~team.repaired /\ ~text.attempted
        /\ \E o \in Outcomes :
             /\ Leaves(o)
             /\ \/ text' = Failed(text)
                \/ /\ o.how = "answer" /\ (route = "repair" => "ok" \in Verified(o))
                   /\ text' = Corrected(o, route)

(* _enforce_verification_invariant: an invented symbol in the text that    *)
(* will ship, or a term its citations do not bear out.  The repair for the *)
(* latter is rechecked for the term alone.                                 *)
BugInvariant(here, next, last) == Passes(here, next)
Invariant(here, next, last) ==
  /\ at = here
  /\ \E said \in Verified(text) :
       /\ checks' = [checks EXCEPT !.unsure = last /\ said = "unavailable"]
       /\ \/ said = "bad" /\ text.verdict = "invented" /\ Repair(next, "repair")
          \/ /\ ~(said = "bad" /\ text.verdict = "invented")
             /\ \/ checks.hive /\ Repair(next, "term repair")
                \/ Go(next) /\ UNCHANGED <<text, locals, team, writes, status>>
FirstInvariant == Invariant("invariant", "integrity", FALSE)

-----------------------------------------------------------------------------
(* The corrections that follow send the team over the task once more and   *)
(* have a stopped pass completed; what they adopt replaces the text, its   *)
(* notices and its report, and its pass is in nobody's all_results.        *)
Replacing(t) == [t EXCEPT !.report = "replaced"]
Late(o) ==
  IF team.stalled \/ o.end # "whole"
  THEN {Replacing(c.text) : c \in Completions(Draft(o))} ELSE {Replacing(Draft(o))}
LateOutcomes == {o \in Outcomes : ~o.wrote}
Told(t) == [t EXCEPT !.told = TRUE]
Covered(t) == [Told(t) EXCEPT !.head = "uncertain"]

Rewrites(here, next, Keep(_), Take(_)) ==
  /\ at = here /\ Go(next) /\ UNCHANGED <<locals, writes, checks, status>>
  /\ \E o \in LateOutcomes :
       \/ o.how = "raised" /\ UNCHANGED team /\ text' = Keep(text)
       \/ /\ o.how # "raised" /\ team' = [team EXCEPT !.stalled = FALSE]
          /\ \E r \in Late(o) : text' \in Take(r)

(* _evidence_integrity_check: what is kept, or adopted in spite of a       *)
(* contradiction or a bad verdict, goes under a disclosure.  A verdict     *)
(* that cannot be had counts as a good one, here and below.                *)
Usable(r) == r.kind # "canned" /\ r.note # "incomplete"
Reconciled(r) == IF Usable(r) THEN {r, Covered(r)} ELSE {Covered(text)}
EvidenceIntegrity ==
  \/ Passes("integrity", "integration")
  \/ Rewrites("integrity", "integration", Covered, Reconciled)

(* A bad text may replace one that is as bad, flagged.                     *)
StillFlagged(r) ==
  {[Told(u) EXCEPT !.attempted = TRUE] :
     u \in {r} \cap {u \in {r} : "bad" \in Verified(r) \cap Verified(text)}}
Integrated(r) == {Told(text)} \cup (IF Usable(r) THEN {r} \cup StillFlagged(r) ELSE {})
IntegrationCorrection ==
  \/ Passes("integration", "coverage")
  \/ Rewrites("integration", "coverage", Told, Integrated)

(* _attempt_coverage_correction and _attempt_chain_coverage_correction     *)
(* adopt an incomplete text with its notice, or without the lines that are *)
(* flagged.                                                                *)
Bridged(r) ==
  {Told(text)} \cup
  (IF r.kind = "canned" THEN {}
   ELSE {Told(r), [Told(r) EXCEPT !.verdict = text.verdict]} \cup StillFlagged(r))
CoverageCorrection ==
  \/ Passes("coverage", "chain")
  \/ /\ at = "coverage" /\ Go("chain") /\ text' = Told(text)
     /\ UNCHANGED <<locals, team, writes, checks, status>>
  \/ Rewrites("coverage", "chain", Told, Bridged)
ChainCoverageCorrection ==
  \/ Passes("chain", "reconstruction")
  \/ Rewrites("chain", "reconstruction", Told, Bridged)

-----------------------------------------------------------------------------
(* An exception no guard catches: run_task_async goes on with the text it  *)
(* has, which is the one it handed to _verified_answer while that is at    *)
(* work.                                                                   *)
After == {"invariant", "integrity", "integration", "coverage", "chain"}
GuardRaises ==
  /\ at \notin {"returned", "reconstruction", "last", "deliver", "done"}
  /\ Go("reconstruction") /\ Forgets
  /\ text' = IF at \in After THEN text ELSE [Replacing(base) EXCEPT !.via = "raised"]

(* _attempt_evidence_grounded_reconstruction, of a text that begins with   *)
(* the failure; whether the new one was cut short is not asked.            *)
Reconstruction ==
  \/ Passes("reconstruction", "last")
  \/ /\ at = "reconstruction" /\ text.head = "failed" /\ checks.hive /\ Go("last")
     /\ \E o \in LateOutcomes :
          /\ o.how \in {"answer", "sentinel"} /\ "ok" \in Verified(o)
          /\ text' = [Replacing(Draft(o)) EXCEPT !.via = "reconstruction"]
          /\ team' = [team EXCEPT !.stalled = @ \/ o.end # "whole"]
     /\ UNCHANGED <<locals, writes, checks, status>>

LastInvariant ==
  \/ Invariant("last", "deliver", TRUE)
  \/ /\ at = "last" /\ Go("deliver") /\ checks' = [checks EXCEPT !.unsure = TRUE]
     /\ UNCHANGED <<text, locals, team, writes, status>>

(* _final_content_is_incomplete knows two of the four notices.             *)
Deliver ==
  /\ at = "deliver" /\ Go("done")
  /\ status' = IF text.note \in {"incomplete", "no marker"} THEN "ok_truncated" ELSE "ok"
  /\ UNCHANGED <<text, locals, team, writes, checks>>

AnswerNext ==
  \/ Complete \/ ReaskAfterSyntaxLoss \/ ReconcileComparison \/ VerifyUpFront
  \/ NoAnswer \/ UnfinishedIntent \/ WriteClaim \/ SearchClaim \/ NoEvidence
  \/ DbEvidence \/ NarratedTool \/ EnumerationEvidence \/ Counts \/ ClaimsAndSums
  \/ UnderDelivery \/ Recovered \/ ThinAnswer \/ Sources
  \/ UnderAnsweredComparison \/ UnderAnsweredEnumeration \/ RelayDrop
  \/ Capability \/ Notices \/ Dispose \/ Correct \/ Returns
  \/ FirstInvariant \/ EvidenceIntegrity \/ IntegrationCorrection
  \/ CoverageCorrection \/ ChainCoverageCorrection
  \/ GuardRaises \/ Reconstruction \/ LastInvariant \/ Deliver

AnswerSpec == AnswerInit /\ [][AnswerNext]_answerVars

-----------------------------------------------------------------------------
Texts ==
  [kind : {"answer", "sentinel", "canned"}, end : Ends, verdict : Verdicts,
   via : Routes, note : Notes, head : Heads, told : BOOLEAN,
   attempted : BOOLEAN, report : Reports, notApplied : BOOLEAN]

AnswerTypeOK ==
  /\ text \in Texts
  /\ team \in [spent : BOOLEAN, stalled : BOOLEAN, repaired : BOOLEAN]
  /\ writes \in [counted : BOOLEAN, result : BOOLEAN]
  /\ writes.result => writes.counted
  /\ checks \in [hive : BOOLEAN, seen : {"no", "ok", "bad", "unavailable"},
                  unlisted : BOOLEAN, unsure : BOOLEAN]
  /\ status \in {"running", "ok", "ok_truncated"}

(* A text leaves _verified_answer without any notice only if verify_claims *)
(* has passed that very text, however many retries have replaced the draft *)
(* it was first asked about; the exception is a text that names nothing     *)
(* invented and whose report had no line the last guard lists.              *)
NothingUnverifiedGoesUntold ==
  at = "returned" /\ checks.hive /\ ~text.told =>
    text.verdict = "clean" \/ (text.verdict = "miscited" /\ checks.unlisted)

(* "The list decides whether to RETRY; it should never decide whether to    *)
(* TELL" (team.py:12349-12350).                                             *)
TheListNeverDecidesToTell == at = "returned" /\ checks.unlisted => text.told

(* What is delivered names no invented symbol unless it is headed by the   *)
(* failure; the exceptions are that verify_claims could not be had for the *)
(* last check, or that this check has just adopted a repair it only        *)
(* rechecked for its term.                                                 *)
InventedNeverShipsClean ==
  at \in {"deliver", "done"} /\ text.verdict = "invented" =>
    \/ text.head = "failed" \/ ~checks.hive \/ checks.unsure
    \/ text.via = "term repair"

(* A text that was cut short is delivered with a notice of it, unless it   *)
(* came by a way that never asks.                                          *)
CutTextIsMarked ==
  at = "done" /\ text.end = "cut" =>
    text.note # "none" \/ text.via # "asked"

(* When a pass in all_results has written a file, the delivered text has   *)
(* the report of it, unless it has replaced the text that had, or a guard  *)
(* has raised before there was one.                                        *)
WritesAreReported == at = "done" /\ writes.counted => text.report # "missing"

(* "Falsy `retried` (an empty completion) keeps the original": a run that  *)
(* had an answer does not deliver the sentinel of an empty one.            *)
DraftIsNeverLost == at = "done" /\ drafted => text.kind # "sentinel"

(* "no apply_diff()/write_file() call actually succeeded"                  *)
NotAppliedIsTrue == text.notApplied => ~writes.counted
=============================================================================
