------------------------------- MODULE Audits -------------------------------
(***************************************************************************)
(* The offline audits of an evaluation run: the conversations of its cases *)
(* are logged, its report names them, five scans judge what was said in    *)
(* them and gate the run, and what failed is collected in the pool of bad  *)
(* cases, where a person decides on it.                                    *)
(*                                                                         *)
(* The first conversation is the one about a basket that ReplyChecks       *)
(* makes.  Runs share the service, its logs with those of other runs, and  *)
(* the pool.                                                               *)
(***************************************************************************)
EXTENDS ReplyChecks

CONSTANTS Cases, Dialogues,   \* [fields, stated, remarks, known, insight, replies]
          MinSessions, MinAmounts, MaxPercent,
          Decisions,          \* the statuses a person gives
          \* Bounds: Followed are the requests whose conversations are followed
          \* further; nothing is decided once MaxDecided entries are.
          MaxConversations, MaxRuns, MaxDecided, Followed

ASSUME AuditsAssumption ==
  /\ MinSessions \in Nat /\ MinAmounts \in Nat \ {0} /\ MaxPercent \in 0..100
  /\ MaxConversations \in Nat /\ MaxRuns \in Nat /\ MaxDecided \in Nat
  /\ "new" \notin Decisions
  /\ Nil \notin {"eval"} \X Cases \X Nat
  /\ \A d \in Dialogues :
       IsFiniteSet(DOMAIN d.replies) /\ \A i \in DOMAIN d.replies : IsFiniteReply(d.replies[i])

VARIABLES dir,       \* the data directory of the service
          run,       \* number of the run
          logs,      \* conversations: [session, dir, audit]
          rows,      \* the results of the run so far
          report,    \* [rows, dir] of the last report, or Nil
          verdicts,  \* what the scans say of it, or Nil
          pool,      \* fingerprint -> status
          last       \* how the pool was changed last, if that was the last step

auditVars == <<dir, run, logs, rows, report, verdicts, pool, last>>
allVars == <<replyVars, auditVars>>

-----------------------------------------------------------------------------
(***************************************************************************)
(* The audit of one conversation                                           *)
(***************************************************************************)
Counted(found) == SumFunction([i \in DOMAIN found |-> Cardinality(found[i])])

KnownAmounts(d) == Sources(d.fields, d.stated, d.remarks)

\* All replies against the sources of the whole conversation.
Unsourced(d) == [i \in DOMAIN d.replies |-> CheckReply(d.replies[i], KnownAmounts(d))]

AuditNumbers(d) ==
  [found |-> Counted([i \in DOMAIN d.replies |-> DOMAIN d.replies[i].amounts]),
   bad |-> Counted([i \in DOMAIN d.replies |-> DOMAIN Unsourced(d)[i]]),
   kinds |-> UNION {Range(Unsourced(d)[i]) : i \in DOMAIN d.replies}]

AuditBasket(d) ==
  [found |-> IF KnownAmounts(d).basket # {} THEN 1 ELSE 0,
   bad |-> Counted([i \in DOMAIN d.replies |->
             {k \in DOMAIN Unsourced(d)[i] : Unsourced(d)[i][k] = "basket_misadd"}])]

AuditArithmetic(d) ==
  [found |-> Counted([i \in DOMAIN d.replies |-> DOMAIN d.replies[i].equations]),
   bad |-> Counted([i \in DOMAIN d.replies |-> CheckArithmetic(d.replies[i])])]

AuditContact(d) ==
  [found |-> Counted([i \in DOMAIN d.replies |-> ExtractContactClaims(d.replies[i])]),
   bad |-> Counted([i \in DOMAIN d.replies |-> CheckContact(d.replies[i], d.known)])]

AuditKnowledge(d) ==
  [found |-> Counted([i \in DOMAIN d.replies |-> KnowledgeClaims(d.replies[i])]),
   bad |-> Counted([i \in DOMAIN d.replies |-> CheckKnowledge(d.replies[i], d.insight)])]

Audit(d) ==
  [number |-> AuditNumbers(d), basket |-> AuditBasket(d), arithmetic |-> AuditArithmetic(d),
   contact |-> AuditContact(d), knowledge |-> AuditKnowledge(d)]

-----------------------------------------------------------------------------
(***************************************************************************)
(* Runs                                                                    *)
(***************************************************************************)
AuditsInit ==
  /\ ReplyInit
  /\ dir = "default" /\ run = 1 /\ logs = {} /\ rows = <<>> /\ report = Nil
  /\ verdicts = Nil /\ pool = <<>> /\ last = "other"

Session(c) == <<"eval", c, Cardinality(logs) + 1>>

Recorded(session, d) == logs \cup {[session |-> session, dir |-> dir, audit |-> Audit(d)]}

\* What a case of the run ends with; "of" is the conversation it had.  An error
\* drops the session of a case, whether or not it got to converse.
Results(c, session) ==
  {[case |-> c, session |-> session, of |-> session, verdict |-> "PASS", failed |-> {}],
   [case |-> c, session |-> session, of |-> session, verdict |-> "FAIL", failed |-> {"p0"}],
   [case |-> c, session |-> Nil, of |-> session, verdict |-> "ERROR", failed |-> {}]}

AtWork == stage = "audited" /\ verdicts = Nil

Due(c) == c \notin {rows[i].case : i \in DOMAIN rows}

Converse(c, d) ==
  LET session == Session(c)
  IN /\ Cardinality(logs) < MaxConversations /\ Due(c)
     /\ logs' = Recorded(session, d)
     /\ \E result \in Results(c, session) : rows' = Append(rows, result)
     /\ last' = "other"
     /\ UNCHANGED <<dir, run, report, verdicts, pool>>

\* The conversation about the basket is a case's.
LogReply ==
  /\ stage = "replied" /\ request \in Followed
  /\ \E c \in Cases :
       Converse(c, [fields |-> Shown(Basket), stated |-> OwnWords, remarks |-> Remarks,
                    known |-> {}, insight |-> "none", replies |-> <<spoken>>])
  /\ stage' = "audited" /\ request' = Nil /\ groups' = <<>> /\ considered' = 0
  /\ best' = <<>> /\ uncovered' = {} /\ spoken' = Nil

\* The next case.
RunCase(c) ==
  /\ AtWork /\ \E d \in Dialogues : Converse(c, d)
  /\ UNCHANGED replyVars

\* The service writes a conversation of something else: an A/B run, a person.
Elsewhere(d) ==
  /\ AtWork /\ Cardinality(logs) < MaxConversations
  /\ logs' = Recorded(<<"ab", Cardinality(logs) + 1>>, d)
  /\ last' = "other"
  /\ UNCHANGED <<replyVars, dir, run, rows, report, verdicts, pool>>

\* The run is broken off and resumed against a service with other data.
Move ==
  /\ AtWork /\ rows # <<>> /\ dir = "default" /\ dir' = "other"
  /\ last' = "other"
  /\ UNCHANGED <<replyVars, run, logs, rows, report, verdicts, pool>>

\* The report, with the directory /health names; if it does not answer, the
\* scans look into the default one.
Save ==
  /\ AtWork /\ rows # <<>>
  /\ \E named \in {dir, "default"} : report' = [rows |-> rows, dir |-> named]
  /\ last' = "other"
  /\ UNCHANGED <<replyVars, dir, run, logs, rows, verdicts, pool>>

\* Between two runs, when the report of the one is there.
Reported == AtWork /\ report # Nil /\ report.rows = rows

NewRun ==
  /\ Reported /\ run < MaxRuns
  /\ run' = run + 1 /\ rows' = <<>> /\ dir' = "default"
  /\ last' = "other"
  /\ UNCHANGED <<replyVars, logs, report, verdicts, pool>>

-----------------------------------------------------------------------------
(***************************************************************************)
(* Scans                                                                   *)
(***************************************************************************)

\* A directory the report names but that has no conversations is passed over.
ConversationsDir ==
  IF \E l \in logs : l.dir = report.dir THEN report.dir ELSE "default"

SessionsFromReport == {r.session : r \in ToSet(report.rows)} \ {Nil}

InDirectory(d) == {l \in logs : l.dir = d}

\* Defect: the whole directory, old conversations and those of others.
SelectAudits_All == InDirectory(ConversationsDir)

SelectAudits == {l \in InDirectory(ConversationsDir) : l.session \in SessionsFromReport}

\* Nothing to scan is an error, not a perfect score.
Refused == SessionsFromReport = {} \/ SelectAudits = {}

Tally(gate, part) == SumFunction([l \in SelectAudits |-> l.audit[gate][part]])

\* The share of unsourced amounts, of a sample large enough.
NumberGate ==
  LET found == Tally("number", "found")
      bad == Tally("number", "bad")
  IN IF Cardinality(SelectAudits) < MinSessions \/ found < MinAmounts THEN "unjudged"
     ELSE IF bad * 100 > MaxPercent * found THEN "red" ELSE "green"

\* One is enough; nothing found passes, but is no green light.
Gate(gate) ==
  IF Tally(gate, "bad") > 0 THEN "red"
  ELSE IF Tally(gate, "found") = 0 THEN "unjudged" ELSE "green"

BasketGate == Gate("basket")
ArithmeticGate == Gate("arithmetic")
ContactGate == Gate("contact")
KnowledgeGate == Gate("knowledge")

Scan(colour) == IF Refused THEN "refused" ELSE colour

NumberScan == Scan(NumberGate)
BasketScan == Scan(BasketGate)
ArithmeticScan == Scan(ArithmeticGate)
ContactScan == Scan(ContactGate)
KnowledgeScan == Scan(KnowledgeGate)

\* The five scans of a report; they read neither the pool nor one another's
\* results, so they need not be interleaved with its changes.
RunScans ==
  /\ AtWork /\ report # Nil /\ pool = <<>>
  /\ verdicts' = [number |-> NumberScan, basket |-> BasketScan, arithmetic |-> ArithmeticScan,
                  contact |-> ContactScan, knowledge |-> KnowledgeScan]
  /\ UNCHANGED <<replyVars, dir, run, logs, rows, report, pool, last>>

-----------------------------------------------------------------------------
(***************************************************************************)
(* The pool of bad cases                                                   *)
(***************************************************************************)

\* eval-<case>-<n>; any other name stands for itself.
CaseOf(session) == IF session[1] = "eval" THEN <<session[2]>> ELSE session

\* Neither the amounts, nor the score, nor the session of a case.
Fingerprint(source, case, causes) == [source |-> source, case |-> case, causes |-> causes]

FromProvenance(conversations) ==
  {Fingerprint("provenance", CaseOf(l.session), l.audit.number.kinds) :
     l \in {l \in conversations : l.audit.number.bad > 0}}

FromReport == {Fingerprint("rubric", <<r.case>>, r.failed) : r \in {r \in ToSet(report.rows) : r.verdict # "PASS"}}

\* What is known keeps its status.
Merge(prints) == [p \in DOMAIN pool \cup prints |-> IF p \in DOMAIN pool THEN pool[p] ELSE "new"]

\* Always the default directory, wherever the report comes from.
Collect ==
  /\ Reported
  /\ \E with \in BOOLEAN :
       /\ pool' = Merge(FromProvenance(InDirectory("default")) \cup (IF with THEN FromReport ELSE {}))
       /\ last' = IF with THEN "collected" ELSE "other"
  /\ UNCHANGED <<replyVars, dir, run, logs, rows, report, verdicts>>

\* The entries of a case that deciding on the case reaches: those nobody has
\* decided on, unless one insists.  Defect: all of them.
Reached_All(case, force) == {p \in DOMAIN pool : p.case = case}

Reached(case, force) == {p \in DOMAIN pool : p.case = case /\ (force \/ pool[p] = "new")}

Mark(entries, status, how) ==
  /\ Reported /\ entries # {}
  /\ Cardinality({p \in DOMAIN pool : pool[p] # "new"}) < MaxDecided
  /\ pool' = [p \in DOMAIN pool |-> IF p \in entries THEN status ELSE pool[p]]
  /\ last' = how
  /\ UNCHANGED <<replyVars, dir, run, logs, rows, report, verdicts>>

\* An entry is named by its fingerprint, or by enough of it.
TriageEntry(p, status) == Mark({p}, status, "named")

TriageCase(case, status, force) == Mark(Reached(case, force), status, IF force THEN "forced" ELSE "other")

-----------------------------------------------------------------------------
AuditsNext ==
  \/ (PricingSteps \/ Say) /\ UNCHANGED auditVars
  \/ LogReply \/ Move \/ Save \/ NewRun
  \/ \E c \in Cases : RunCase(c)
  \/ \E d \in Dialogues : Elsewhere(d)
  \/ RunScans \/ Collect
  \/ \E p \in DOMAIN pool, status \in Decisions :
       \/ TriageEntry(p, status)
       \/ \E force \in BOOLEAN : TriageCase(p.case, status, force)

AuditsSpec == AuditsInit /\ [][AuditsNext]_allVars

-----------------------------------------------------------------------------
(***************************************************************************)
(* Properties                                                              *)
(***************************************************************************)

\* The conversations the reported run had, also those of failed cases.
OfTheRun == {l \in logs : \E r \in ToSet(report.rows) : r.of = l.session}

\* A gate that lets a run pass as judged has judged something of that run, and
\* every finding in its conversations, if there is one, is in that of a case
\* that ended in an error, in one written to another directory before the
\* run was resumed, or among the few amounts allowed; a gate that stops it does
\* so for a conversation of that run, not for one of an earlier run or of
\* somebody else's (select_audits, the gate_verdicts).
VerdictsFollowTheRun ==
  verdicts # Nil =>
    \A gate \in DOMAIN verdicts :
      LET bad(l) == l.audit[gate].bad > 0
          audited(l) == \E r \in ToSet(report.rows) : r.session = l.session
          there(l) == l.dir = report.dir
      IN /\ verdicts[gate] = "green" =>
              /\ \E l \in OfTheRun : l.audit[gate].found > 0
              /\ \A l \in OfTheRun : bad(l) => ~audited(l) \/ ~there(l) \/ gate = "number"
         /\ verdicts[gate] = "red" => \E l \in OfTheRun : bad(l)

\* After collecting with the report every case that did not pass has an entry,
\* and so has every conversation of the run with an amount from nowhere, unless
\* it is in a directory other than the default one, which the tool never reads.
Filed ==
  last = "collected" =>
    /\ \A r \in ToSet(report.rows) : r.verdict # "PASS" => \E p \in DOMAIN pool : p.case = <<r.case>>
    /\ \A l \in OfTheRun : (l.audit.number.bad > 0 /\ l.dir = "default") =>
         \E p \in DOMAIN pool : p.source = "provenance" /\ p.case = <<l.session[2]>>

\* No entry disappears, and what a person decided on one stands until somebody
\* names that very entry, or insists.
DecisionsStand ==
  \A p \in DOMAIN pool :
    /\ p \in DOMAIN pool'
    /\ pool'[p] # pool[p] =>
         \/ pool[p] = "new"
         \/ last' = "forced"
         \/ last' = "named" /\ \A q \in DOMAIN pool \ {p} : pool'[q] = pool[q]

\* The pool holds what failed, and decisions in it last (collect_bad_cases,
\* bad_case_pool).
PoolIsTrue == []Filed /\ [][DecisionsStand]_auditVars
=============================================================================
