---------------------------- MODULE ReportProofs ----------------------------
(* Proofs about parts of MCReports: mutation receipts, evidence, the merge  *)
(* guard and the publication of repository fleets.                          *)
EXTENDS MCReports, FiniteSetTheorems, TLAPS

-----------------------------------------------------------------------------
(* Mutation receipts                                                        *)

(* A ready intent has no accepted result, and no other intent has its key.  *)
LEMMA ReadyIsFresh ==
  ASSUME NEW i \in intents, M!build_mutation_receipts_report # REJECTED,
         M!build_mutation_receipts_report[i] = "ready"
  PROVE  /\ \A r \in results : M!Accepted(r) => r.intent # i
         /\ \A j \in intents : j.key = i.key => j = i
<1>1. M!Decision(i) = "ready"
  <2>1. M!Assessment(i) = "ready" BY DEF M!build_mutation_receipts_report
  <2> QED BY <2>1 DEF M!Assessment
<1>2. ~ \E r \in M!ResultsOf(i) : M!Accepted(r)
  BY <1>1 DEF M!Decision
<1>3. M!Reasons(i) \intersect M!Conflict = {}
  BY <1>1 DEF M!Decision
<1>4. ~M!Collides(i.key)
  <2>1. "idempotency_key_reused" \notin M!Reasons(i) BY <1>3 DEF M!Conflict
  <2> QED BY <2>1 DEF M!Reasons
<1> QED BY <1>2, <1>4 DEF M!ResultsOf, M!Collides

(* Nothing is proposed yet.                                                *)
LEMMA MutationInitially == ASSUME M!Init PROVE M!MutationInv
BY DEF M!Init, M!MutationInv, M!KeyAcceptedOnce

(* Writers try what the report of this instant calls ready.                *)
LEMMA MutationStep == ASSUME M!MutationInv, M!Next PROVE M!MutationInv'
<1>1. ASSUME NEW t \in Targets, NEW k \in Keys, M!Propose(t, k) PROVE M!MutationInv'
  <2>1. intents \subseteq intents' /\ results' = results
    BY <1>1 DEF M!Propose
  <2> QED BY <2>1 DEF M!MutationInv, M!KeyAcceptedOnce, M!Accepted
<1>2. ASSUME NEW i \in intents, M!Try(i) PROVE M!MutationInv'
  <2>1. PICK r : results' = results \union {r} /\ r.intent = i /\ r.key = i.key
    <3>1. PICK outcome \in {"accepted", "rejected", "provider_error", "compensated"},
               undone \in {r \in results : r.outcome = "accepted"} \union {NULL} :
            results' = results \union
               {[intent |-> i, key |-> i.key, target |-> i.target, outcome |-> outcome,
                 receipt |-> outcome \in {"accepted", "compensated"}, before |-> i.observed,
                 after |-> IF outcome \in {"accepted", "compensated"}
                           THEN target[i.target].version + 1 ELSE NULL,
                 at |-> mtime, compensates |-> undone]}
      BY <1>2, Zenon DEF M!Try
    <3> DEFINE new == [intent |-> i, key |-> i.key, target |-> i.target, outcome |-> outcome,
                 receipt |-> outcome \in {"accepted", "compensated"}, before |-> i.observed,
                 after |-> IF outcome \in {"accepted", "compensated"}
                           THEN target[i.target].version + 1 ELSE NULL,
                 at |-> mtime, compensates |-> undone]
    <3>2. results' = results \union {new} BY <3>1, Zenon
    <3>3. new.intent = i /\ new.key = i.key OBVIOUS
    <3> HIDE DEF new
    <3> QED BY <3>2, <3>3
  <2>2. intents' = intents BY <1>2 DEF M!Try
  <2>3. \A s \in results : M!Accepted(s) => s.key # r.key
    BY <1>2, <2>1, ReadyIsFresh DEF M!Try, M!MutationInv
  <2> QED BY <2>1, <2>2, <2>3 DEF M!MutationInv, M!KeyAcceptedOnce, M!Accepted
<1>3. ASSUME UNCHANGED <<intents, results>> PROVE M!MutationInv'
  BY <1>3 DEF M!MutationInv, M!KeyAcceptedOnce, M!Accepted
<1> QED BY <1>1, <1>2, <1>3 DEF M!Next, M!Edit, M!TakeOver, M!Resolvable, M!ChangePolicy, M!Tick

-----------------------------------------------------------------------------
(* Evidence                                                                 *)

(* No evidence, nothing expired.                                           *)
LEMMA EvidenceInitially == ASSUME E!Init PROVE E!EvidenceInv
BY DEF E!Init, E!EvidenceInv


(* Time passes, and what a report calls expired is too old by then.         *)
LEMMA OldStaysOld ==
  ASSUME E!EvidenceInv, E!Noted, epolicy' \in {Strict, Lenient}, etime' \in Nat, etime' >= etime,
         \A e \in evidence' : e.captured_at \in Nat /\ e.risk \in Risks
  PROVE  E!EvidenceInv'
<1> SUFFICES ASSUME NEW x \in expired'
             PROVE  /\ x[1] \in evidence' /\ x[2] \in {Strict, Lenient}
                    /\ ~E!WithinSeconds(x[1], x[2][x[1].risk].expires)'
  BY DEF E!EvidenceInv
<1>1. CASE x \in expired /\ x[1] \in evidence'
  <2>1. x[2][x[1].risk].expires \in Int BY <1>1 DEF E!EvidenceInv, Strict, Lenient
  <2> QED BY <1>1, <2>1 DEF E!EvidenceInv, E!WithinSeconds, E!age_seconds, AtLeastZero, E!AtLeastZero
<1>2. ASSUME NEW e \in evidence', x = <<e, epolicy'>>, E!derive_assessment(e)' = "expired"
      PROVE  /\ x[1] \in evidence' /\ x[2] \in {Strict, Lenient}
             /\ ~E!WithinSeconds(x[1], x[2][x[1].risk].expires)'
  <2>1. ~E!WithinSeconds(e, epolicy[e.risk].expires)' BY <1>2 DEF E!derive_assessment
  <2> QED BY <1>2, <2>1
<1> QED BY <1>1, <1>2 DEF E!Noted

(* Evidence is added, time passes, reports are made.                       *)
LEMMA EvidenceStep == ASSUME E!EvidenceInv, E!Next PROVE E!EvidenceInv'
<1>1. ASSUME NEW s \in Subjects, NEW o \in Owners, NEW risk \in Risks, E!Capture(s, o, risk)
      PROVE  E!EvidenceInv'
  <2>1. PICK i \in 1 .. MaxEvidence :
          evidence' = {e \in evidence : e.identity # i} \union
             {[identity |-> i, subject |-> s, revision |-> subject[s].revision,
               dependency |-> subject[s].dependency, policy |-> epolicy,
               captured_at |-> etime, risk |-> risk, owner |-> o]}
    BY <1>1 DEF E!Capture
  <2>2. \A e \in evidence' : e.captured_at \in Nat /\ e.risk \in Risks
    BY <2>1 DEF E!EvidenceInv
  <2>3. E!Noted /\ etime' = etime /\ epolicy' = epolicy /\ etime \in Nat /\ epolicy \in {Strict, Lenient}
    BY <1>1 DEF E!Capture, E!EvidenceInv
  <2> QED BY <2>2, <2>3, OldStaysOld
<1>2. ASSUME NEW s \in Subjects, E!Change(s) PROVE E!EvidenceInv'
  <2>1. E!Noted /\ etime' = etime /\ epolicy' = epolicy /\ evidence' = evidence
    BY <1>2 DEF E!Change
  <2>2. etime \in Nat /\ epolicy \in {Strict, Lenient}
        /\ \A e \in evidence : e.captured_at \in Nat /\ e.risk \in Risks
    BY DEF E!EvidenceInv
  <2> QED BY <2>1, <2>2, OldStaysOld
<1>3. ASSUME E!ChangePolicy PROVE E!EvidenceInv'
  <2>1. E!Noted /\ etime' = etime /\ epolicy' \in {Strict, Lenient} /\ evidence' = evidence
    BY <1>3 DEF E!ChangePolicy
  <2>2. etime \in Nat /\ \A e \in evidence : e.captured_at \in Nat /\ e.risk \in Risks
    BY DEF E!EvidenceInv
  <2> QED BY <2>1, <2>2, OldStaysOld
<1>4. ASSUME E!Tick PROVE E!EvidenceInv'
  <2>1. E!Noted /\ etime' = etime + 1 /\ epolicy' = epolicy /\ evidence' = evidence
    BY <1>4 DEF E!Tick
  <2>2. etime \in Nat /\ epolicy \in {Strict, Lenient}
        /\ \A e \in evidence : e.captured_at \in Nat /\ e.risk \in Risks
    BY DEF E!EvidenceInv
  <2> QED BY <2>1, <2>2, OldStaysOld
<1> QED BY <1>1, <1>2, <1>3, <1>4 DEF E!Next

(* The limit in days is asked after the reasons that cannot heal.           *)
LEMMA OldIsNotAdmissible == ASSUME E!EvidenceInv PROVE E!ExpiredStaysExpired
<1> SUFFICES ASSUME NEW x \in expired, x[2] = epolicy
             PROVE  E!derive_assessment(x[1]) \notin {"current", "stale"}
  BY DEF E!ExpiredStaysExpired
<1>1. ~E!WithinSeconds(x[1], epolicy[x[1].risk].expires)
  BY DEF E!EvidenceInv
<1> QED BY <1>1 DEF E!derive_assessment

-----------------------------------------------------------------------------
(* The merge guard                                                          *)


(* What the instance of the guard is called with.                           *)
LEMMA CallsOfTheGuard ==
  ASSUME G!GuardTypeOK
  PROVE  \A a \in {guard.call.base, guard.call.head} :
            /\ a.kind \in {"ref", "sha"} /\ a.sha \in Nat
            /\ a.kind = "sha" => a.ref = "" /\ a.sha <= 2 /\ a.sha # 0
            /\ a.kind = "ref" => a.ref \in {"main", "topic", "origin", "HEAD"}
<1> DEFINE heads == {Ref("topic"), Ref("origin"), Sha(2)}
           bases == {Ref("HEAD"), Sha(1)}
           arguments == {Ref("main"), Ref("topic"), Ref("origin"), Ref("HEAD"), Sha(1), Sha(2)}
<1>1. guard.call \in {[base |-> Ref("main"), head |-> h] : h \in heads}
                       \union {[base |-> b, head |-> Ref("topic")] : b \in bases}
  BY DEF G!GuardTypeOK
<1>2. guard.call.base \in arguments /\ guard.call.head \in arguments
  <2> HIDE DEF heads, bases, arguments
  <2>1. ASSUME NEW h \in heads, guard.call = [base |-> Ref("main"), head |-> h]
        PROVE  guard.call.base \in arguments /\ guard.call.head \in arguments
    <3>1. guard.call.base = Ref("main") /\ guard.call.head = h BY <2>1
    <3> QED BY <3>1 DEF heads, arguments
  <2>2. ASSUME NEW b \in bases, guard.call = [base |-> b, head |-> Ref("topic")]
        PROVE  guard.call.base \in arguments /\ guard.call.head \in arguments
    <3>1. guard.call.base = b /\ guard.call.head = Ref("topic") BY <2>2
    <3> QED BY <3>1 DEF bases, arguments
  <2> QED BY <1>1, <2>1, <2>2
<1> HIDE DEF heads, bases
<1> SUFFICES ASSUME NEW a \in {guard.call.base, guard.call.head}
             PROVE  /\ a.kind \in {"ref", "sha"} /\ a.sha \in Nat
                    /\ a.kind = "sha" => a.ref = "" /\ a.sha <= 2 /\ a.sha # 0
                    /\ a.kind = "ref" => a.ref \in {"main", "topic", "origin", "HEAD"}
  OBVIOUS
<1>3. ASSUME NEW r \in {"main", "topic", "origin", "HEAD"}, a = Ref(r)
      PROVE  a.kind = "ref" /\ a.ref = r /\ a.sha = 0
  BY <1>3 DEF Ref
<1>4. ASSUME NEW n \in {1, 2}, a = Sha(n)
      PROVE  a.kind = "sha" /\ a.ref = "" /\ a.sha = n
  BY <1>4 DEF Sha
<1>5. CASE \E r \in {"main", "topic", "origin", "HEAD"} : a = Ref(r)
  <2>1. PICK r \in {"main", "topic", "origin", "HEAD"} : a.kind = "ref" /\ a.ref = r /\ a.sha = 0
    BY <1>3, <1>5
  <2>2. a.kind # "sha" BY <2>1
  <2>3. a.kind \in {"ref", "sha"} BY <2>1
  <2>4. a.sha \in Nat BY <2>1
  <2>5. a.ref \in {"main", "topic", "origin", "HEAD"} BY <2>1
  <2> QED BY <2>2, <2>3, <2>4, <2>5
<1>6. CASE \E n \in {1, 2} : a = Sha(n)
  <2>1. PICK n \in {1, 2} : a.kind = "sha" /\ a.ref = "" /\ a.sha = n
    BY <1>4, <1>6
  <2>2. a.kind # "ref" /\ a.kind \in {"ref", "sha"} BY <2>1
  <2>3. n \in Nat /\ n <= 2 /\ n # 0 OBVIOUS
  <2>4. a.sha \in Nat /\ a.sha <= 2 /\ a.sha # 0 BY <2>1, <2>3
  <2> QED BY <2>1, <2>2, <2>4
<1> QED BY <1>2, <1>5, <1>6

(* What a name resolves to is older than the next move.                    *)
LEMMA NamedIsOld ==
  ASSUME G!GuardInv, NEW a \in {guard.call.base, guard.call.head, G!HEAD}
  PROVE  /\ G!Named(a) \in Nat
         /\ a.kind = "ref" => G!Named(a) <= 2 + moves
         /\ a.kind = "ref" /\ a.ref # "HEAD" => G!Named(a) = refs[a.ref]
<1>1. /\ a.kind \in {"ref", "sha"} /\ a.sha \in Nat
      /\ a.kind = "ref" => a.ref \in {"main", "topic", "origin", "HEAD"}
  <2>1. CASE a = G!HEAD BY <2>1 DEF G!HEAD
  <2>2. CASE a \in {guard.call.base, guard.call.head} BY <2>2, CallsOfTheGuard DEF G!GuardInv
  <2> QED BY <2>1, <2>2
<1>2. /\ \A r \in {"main", "topic", "origin"} : refs[r] \in Nat /\ refs[r] <= 2 + moves
      /\ checkout \in {"main", "topic", "origin"}
  BY DEF G!GuardInv, G!GuardTypeOK
<1> QED BY <1>1, <1>2 DEF G!Named

(* The guard has not looked at anything.                                   *)
LEMMA GuardInitially == ASSUME G!GuardInit PROVE G!GuardInv
<1>1. G!GuardTypeOK
  <2>1. refs \in [{"main", "topic"} \union {"origin"} -> Nat] BY DEF G!GuardInit
  <2>2. G!head_refs \in [{"main", "topic"} -> Nat] BY <2>1 DEF G!head_refs
  <2> DEFINE calls == {[base |-> Ref("main"), head |-> h] : h \in {Ref("topic"), Ref("origin"), Sha(2)}}
                       \union {[base |-> b, head |-> Ref("topic")] : b \in {Ref("HEAD"), Sha(1)}}
  <2>3. PICK c \in calls :
          guard = [step |-> "head", call |-> c, original |-> 0, before |-> G!head_refs,
                   base |-> 0, head |-> 0, report |-> G!NoReport, code |-> 3]
    BY DEF G!GuardInit
  <2> HIDE DEF calls
  <2>4. G!NoReport \in G!Reports
    BY DEF G!NoReport, G!Reports, G!Statuses
  <2>5. guard \in [step : G!Steps, call : calls, original : Nat, before : [{"main", "topic"} -> Nat],
                   base : Nat, head : Nat, code : Nat,
                   report : G!Reports]
    BY <2>2, <2>3, <2>4 DEF G!Steps
  <2> QED BY <2>1, <2>5 DEF calls, G!GuardInit, G!GuardTypeOK
<1>2. guard.step = "head" BY DEF G!GuardInit
<1>3. moves = 0 /\ \A r \in {"main", "topic"} \union {"origin"} : refs[r] <= 2
  BY DEF G!GuardInit
<1> QED BY <1>1, <1>2, <1>3 DEF G!GuardInv

(* Runs of the guard with the arguments of this one, and those that also    *)
(* previewed the same head.                                                 *)
SameCall ==
    [step : G!Steps, call : {guard.call}, original : Nat, before : [{"main", "topic"} -> Nat],
     base : Nat, head : Nat, code : Nat, report : G!Reports]
Updated(step, code, r) == [guard EXCEPT !.step = step, !.code = code, !.report = r]
SameHead(step) == {g \in SameCall : g.step = step /\ g.head = guard.head}

(* A step that stays short of the recheck of the head, or has noticed.      *)
LEMMA GuardMoved ==
  ASSUME G!GuardInv, UNCHANGED <<refs, checkout, moves>>, agreed' \in BOOLEAN,
         guard' \in SameCall,
         guard'.step \in {"preview", "head again", "refs again", "base again", "head ref again"}
           => guard'.head # 0 /\ (guard.call.head.kind = "ref" => guard'.head <= 2 + moves),
         guard'.step \in {"head ref again", "write", "over"} =>
           \/ agreed' \/ guard'.code # 0 \/ guard.call.head.ref = "HEAD"
           \/ guard'.step = "head ref again" /\ G!Named(guard.call.head) # guard'.head
  PROVE  G!GuardInv'
<1> DEFINE calls == {[base |-> Ref("main"), head |-> h] : h \in {Ref("topic"), Ref("origin"), Sha(2)}}
                       \union {[base |-> b, head |-> Ref("topic")] : b \in {Ref("HEAD"), Sha(1)}}
<1>1. guard.call \in calls /\ guard'.call = guard.call
  BY DEF SameCall, G!GuardInv, G!GuardTypeOK
<1>2. G!GuardTypeOK'
  <2> HIDE DEF calls
  <2>1. guard' \in [step : G!Steps, call : calls, original : Nat, before : [{"main", "topic"} -> Nat],
                    base : Nat, head : Nat, code : Nat, report : G!Reports]
    BY <1>1 DEF SameCall
  <2> QED BY <2>1 DEF calls, G!GuardInv, G!GuardTypeOK
<1>3. PICK c : c = guard.call.head
  OBVIOUS
<1>4. G!Named(c)' = G!Named(c)
  BY DEF G!Named
<1> QED BY <1>1, <1>2, <1>3, <1>4 DEF G!GuardInv

(* The fields of a run after an update.                                    *)
LEMMA GuardUpdated ==
  ASSUME G!GuardInv, NEW step \in G!Steps, NEW code \in Nat, NEW r \in G!Reports
  PROVE  Updated(step, code, r) \in SameHead(step) /\ Updated(step, code, r).code = code
<1>1. PICK calls : guard \in [step : G!Steps, call : calls, original : Nat,
                             before : [{"main", "topic"} -> Nat],
                             base : Nat, head : Nat, code : Nat, report : G!Reports]
  BY DEF G!GuardInv, G!GuardTypeOK
<1>2. Updated(step, code, r) \in
            [step : {step}, call : {guard.call}, original : Nat, before : [{"main", "topic"} -> Nat],
             base : Nat, head : {guard.head}, code : {code}, report : G!Reports]
  BY <1>1 DEF Updated
<1>3. guard.head \in Nat BY <1>1
<1> HIDE <1>1
<1> QED BY <1>2, <1>3 DEF SameHead, SameCall

(* The looks between the preview and the recheck of the arguments.          *)
LEMMA LookedAgain ==
  ASSUME G!GuardInv, UNCHANGED <<refs, checkout, moves>>, agreed' \in BOOLEAN,
         guard.step \in {"preview", "head again", "refs again", "base again"},
         NEW step \in {"head again", "refs again", "base again"}, guard' \in SameHead(step)
  PROVE  G!GuardInv'
<1>1. guard'.step = step /\ guard'.head = guard.head /\ guard' \in SameCall
  BY DEF SameHead
<1> QED BY <1>1, GuardMoved DEF G!GuardInv

(* A name that does not resolve.                                            *)
LEMMA RaisedIsSafe ==
  ASSUME G!GuardInv, UNCHANGED <<refs, checkout, moves>>, agreed' \in BOOLEAN, guard' = G!Raised
  PROVE  G!GuardInv'
<1>1. PICK r \in G!Reports : guard' = Updated("write", 3, r)
  <2>1. [G!NoReport EXCEPT !.status = "guard_error"] \in G!Reports
    BY DEF G!NoReport, G!Reports, G!Statuses
  <2> QED BY <2>1 DEF G!Raised, Updated
<1>2. guard' \in SameHead("write") /\ guard'.code = 3
  <2>1. "write" \in G!Steps BY DEF G!Steps
  <2> QED BY <1>1, <2>1, GuardUpdated
<1>3. guard' \in SameCall /\ guard'.step = "write" /\ guard'.code # 0
  BY <1>2 DEF SameHead
<1> QED BY <1>3, GuardMoved

(* git rev-parse HEAD, before the preview.                                 *)
LEMMA LookAtHeadStep == ASSUME G!GuardInv, G!LookAtHead PROVE G!GuardInv'
<1>1. CASE guard' = G!Raised
  BY <1>1, RaisedIsSafe DEF G!LookAtHead, G!GuardInv, G!GuardTypeOK
<1>2. CASE guard' = [guard EXCEPT !.step = "refs", !.original = G!Named(G!HEAD)]
  <2>1. G!Named(G!HEAD) \in Nat BY NamedIsOld
  <2>2. guard' \in SameCall
         /\ guard'.step = "refs"
    BY <1>2, <2>1 DEF SameCall, G!GuardInv, G!GuardTypeOK, G!Steps
  <2> QED BY <2>2, GuardMoved DEF G!LookAtHead, G!GuardInv, G!GuardTypeOK
<1> QED BY <1>1, <1>2 DEF G!LookAtHead, G!resolve_commit

(* The refs of the checkout, before the preview.                           *)
LEMMA LookAtRefsStep == ASSUME G!GuardInv, G!LookAtRefs PROVE G!GuardInv'
<1>1. G!head_refs \in [{"main", "topic"} -> Nat]
  BY DEF G!head_refs, G!GuardInv, G!GuardTypeOK
<1>2. guard' \in SameCall
       /\ guard'.step = "base"
  BY <1>1 DEF SameCall, G!GuardInv, G!GuardTypeOK, G!Steps, G!LookAtRefs
<1> QED BY <1>2, GuardMoved DEF G!LookAtRefs, G!GuardInv, G!GuardTypeOK

(* The base is resolved to a commit.                                       *)
LEMMA ResolveBaseStep == ASSUME G!GuardInv, G!ResolveBase PROVE G!GuardInv'
<1>1. CASE guard' = G!Raised
  BY <1>1, RaisedIsSafe DEF G!ResolveBase, G!GuardInv, G!GuardTypeOK
<1>2. CASE guard' = [guard EXCEPT !.step = "tip", !.base = G!Named(guard.call.base)]
  <2>1. G!Named(guard.call.base) \in Nat BY NamedIsOld
  <2>2. guard' \in SameCall
         /\ guard'.step = "tip"
    BY <1>2, <2>1 DEF SameCall, G!GuardInv, G!GuardTypeOK, G!Steps
  <2> QED BY <2>2, GuardMoved DEF G!ResolveBase, G!GuardInv, G!GuardTypeOK
<1> QED BY <1>1, <1>2 DEF G!ResolveBase, G!resolve_commit

(* The head is resolved to a commit.                                       *)
LEMMA ResolveHeadStep == ASSUME G!GuardInv, G!ResolveHead PROVE G!GuardInv'
<1>1. CASE guard' = G!Raised
  BY <1>1, RaisedIsSafe DEF G!ResolveHead, G!GuardInv, G!GuardTypeOK
<1>2. CASE G!Named(guard.call.head) # 0
           /\ guard' = [guard EXCEPT !.step = "preview", !.head = G!Named(guard.call.head)]
  <2>1. G!Named(guard.call.head) \in Nat
        /\ (guard.call.head.kind = "ref" => G!Named(guard.call.head) <= 2 + moves)
    BY NamedIsOld
  <2>2. guard' \in SameCall
         /\ guard'.step = "preview" /\ guard'.head = G!Named(guard.call.head)
    BY <1>2, <2>1 DEF SameCall, G!GuardInv, G!GuardTypeOK, G!Steps
  <2> QED BY <1>2, <2>1, <2>2, GuardMoved DEF G!ResolveHead, G!GuardInv, G!GuardTypeOK
<1> QED BY <1>1, <1>2 DEF G!ResolveHead, G!resolve_commit

(* The preview is of the two commits, whatever the refs do meanwhile.      *)
LEMMA PreviewStep == ASSUME G!GuardInv, G!Preview PROVE G!GuardInv'
<1>1. CASE guard' = G!Raised
  BY <1>1, RaisedIsSafe DEF G!Preview, G!GuardInv, G!GuardTypeOK
<1>2. ASSUME NEW outcome \in {"conflicts", "merged"}, NEW files, NEW tidy \in BOOLEAN,
             NEW v, v = G!Verdict(outcome, files, tidy),
             guard' = [guard EXCEPT !.step = "head again", !.code = v.code,
                          !.report = [status |-> v.status, open |-> v.open, base |-> FALSE, head |-> FALSE]]
      PROVE  G!GuardInv'
  <2>1. v.code \in Nat /\ v.status \in G!Statuses /\ v.open \in BOOLEAN
    <3> DEFINE conflicts == outcome = "conflicts"
               wrong == outcome = "merged" /\ (~ tidy \/ \E f \in files : G!semantic_findings(f))
               verdict == CASE conflicts -> [status |-> "manual_resolution_required", open |-> FALSE, code |-> 2]
                            [] wrong -> [status |-> "semantic_validation_failed", open |-> FALSE, code |-> 2]
                            [] OTHER -> [status |-> "clean_preview", open |-> TRUE, code |-> 0]
    <3>1. v = verdict BY <1>2 DEF G!Verdict
    <3>2. ~(conflicts /\ wrong) OBVIOUS
    <3> HIDE DEF conflicts, wrong
    <3>3. CASE conflicts
      <4>1. v = [status |-> "manual_resolution_required", open |-> FALSE, code |-> 2]
        BY <3>1, <3>2, <3>3
      <4> QED BY <4>1 DEF G!Statuses
    <3>4. CASE wrong
      <4>1. v = [status |-> "semantic_validation_failed", open |-> FALSE, code |-> 2]
        BY <3>1, <3>2, <3>4
      <4> QED BY <4>1 DEF G!Statuses
    <3>5. CASE ~conflicts /\ ~wrong
      <4>1. v = [status |-> "clean_preview", open |-> TRUE, code |-> 0]
        BY <3>1, <3>5
      <4> QED BY <4>1 DEF G!Statuses
    <3> QED BY <3>3, <3>4, <3>5
  <2>2. PICK r \in G!Reports : guard' = Updated("head again", v.code, r)
    <3>1. [status |-> v.status, open |-> v.open, base |-> FALSE, head |-> FALSE] \in G!Reports
      BY <2>1 DEF G!Reports
    <3> QED BY <1>2, <3>1 DEF Updated
  <2>3. guard' \in SameHead("head again")
    <3>1. "head again" \in G!Steps BY DEF G!Steps
    <3> QED BY <2>1, <2>2, <3>1, GuardUpdated
  <2>4. guard.step = "preview" BY DEF G!Preview
  <2> QED BY <2>3, <2>4, LookedAgain DEF G!Preview, G!GuardInv, G!GuardTypeOK
<1> QED BY <1>1, <1>2 DEF G!Preview

(* Spoiling the status leaves everything but the code.                      *)
LEMMA SpoiledIsTyped ==
  ASSUME G!GuardInv, NEW s \in G!Statuses, NEW step \in G!Steps,
         NEW g, g \in {guard, [guard EXCEPT !.report.status = s, !.code = 3]}
  PROVE  [g EXCEPT !.step = step] \in SameHead(step)
<1>1. guard.report \in G!Reports /\ guard.code \in Nat
  BY DEF G!GuardInv, G!GuardTypeOK
<1>2. CASE g = guard
  <2>1. [g EXCEPT !.step = step] = Updated(step, guard.code, guard.report)
    BY <1>2 DEF G!GuardInv, G!GuardTypeOK, Updated
  <2> QED BY <1>1, <2>1, GuardUpdated
<1>3. CASE g = [guard EXCEPT !.report.status = s, !.code = 3]
  <2>1. PICK r : r = [guard.report EXCEPT !.status = s] OBVIOUS
  <2>2. r \in G!Reports BY <1>1, <2>1 DEF G!Reports
  <2>3. [g EXCEPT !.step = step] = Updated(step, 3, r)
    BY <1>3, <2>1 DEF G!GuardInv, G!GuardTypeOK, Updated
  <2>4. Updated(step, 3, r) \in SameHead(step)
    BY <1>1, <2>2, GuardUpdated
  <2> QED BY <2>3, <2>4
<1> QED BY <1>2, <1>3

(* HEAD is compared after the preview.                                     *)
LEMMA LookAtHeadAgainStep == ASSUME G!GuardInv, G!LookAtHeadAgain PROVE G!GuardInv'
<1>1. CASE guard' = G!Raised
  BY <1>1, RaisedIsSafe DEF G!LookAtHeadAgain, G!GuardInv, G!GuardTypeOK
<1>2. ASSUME NEW g, g = (IF G!Named(G!HEAD) # guard.original THEN G!Mutated ELSE guard),
             guard' = [g EXCEPT !.step = "refs again"]
      PROVE  G!GuardInv'
  <2>1. guard' \in SameHead("refs again")
    <3>1. "refs again" \in G!Steps /\ "source_repository_mutated" \in G!Statuses
      BY DEF G!Steps, G!Statuses
    <3>2. g \in {guard, [guard EXCEPT !.report.status = "source_repository_mutated", !.code = 3]}
      BY <1>2 DEF G!Mutated
    <3> QED BY <1>2, <3>1, <3>2, SpoiledIsTyped
  <2>2. guard.step = "head again" BY DEF G!LookAtHeadAgain
  <2> QED BY <2>1, <2>2, LookedAgain DEF G!LookAtHeadAgain, G!GuardInv, G!GuardTypeOK
<1> QED BY <1>1, <1>2 DEF G!LookAtHeadAgain, G!resolve_commit

(* The refs are compared after the preview.                                *)
LEMMA LookAtRefsAgainStep == ASSUME G!GuardInv, G!LookAtRefsAgain PROVE G!GuardInv'
<1>1. PICK g : /\ g = (IF G!head_refs # guard.before THEN G!Mutated ELSE guard)
               /\ guard' = [g EXCEPT !.step = "base again"]
  BY DEF G!LookAtRefsAgain
<1>2. guard' \in SameHead("base again")
  <2>1. "base again" \in G!Steps /\ "source_repository_mutated" \in G!Statuses
    BY DEF G!Steps, G!Statuses
  <2>2. g \in {guard, [guard EXCEPT !.report.status = "source_repository_mutated", !.code = 3]}
    BY <1>1 DEF G!Mutated
  <2> QED BY <1>1, <2>1, <2>2, SpoiledIsTyped
<1>3. guard.step = "refs again" BY DEF G!LookAtRefsAgain
<1> QED BY <1>2, <1>3, LookedAgain DEF G!LookAtRefsAgain, G!GuardInv, G!GuardTypeOK

(* What a recheck leaves: nothing raised means the name was compared.       *)
LEMMA Rechecked ==
  ASSUME G!GuardInv, NEW a, NEW expected, NEW field \in {"base", "head"}, NEW then \in G!Steps,
         G!Recheck(a, expected, field, then)
  PROVE  \/ guard' = G!Raised
         \/ /\ guard' \in SameHead(then)
            /\ guard'.code = IF G!Named(a) = expected THEN guard.code ELSE 3
<1>1. guard.report \in G!Reports /\ guard.code \in Nat
  BY DEF G!GuardInv, G!GuardTypeOK
<1>2. CASE G!Named(a) = expected /\ guard' = [guard EXCEPT !.step = then, !.report[field] = TRUE]
  <2>1. PICK r : r = [guard.report EXCEPT ![field] = TRUE] OBVIOUS
  <2>2. r \in G!Reports BY <1>1, <2>1 DEF G!Reports
  <2>3. guard' = Updated(then, guard.code, r)
    BY <1>2, <2>1 DEF G!GuardInv, G!GuardTypeOK, Updated
  <2> QED BY <1>1, <1>2, <2>2, <2>3, GuardUpdated
<1>3. CASE /\ G!Named(a) # expected
           /\ guard' = [guard EXCEPT !.step = then, !.code = 3, !.report.status = "input_ref_moved"]
  <2>1. PICK r : r = [guard.report EXCEPT !.status = "input_ref_moved"] OBVIOUS
  <2>2. r \in G!Reports BY <1>1, <2>1 DEF G!Reports, G!Statuses
  <2>3. guard' = Updated(then, 3, r)
    BY <1>3, <2>1 DEF G!GuardInv, G!GuardTypeOK, Updated
  <2> QED BY <1>1, <1>3, <2>2, <2>3, GuardUpdated
<1> QED BY <1>2, <1>3 DEF G!Recheck, G!ref_stable

(* Either both names agree now, or the code is spoiled, or the head has     *)
(* moved already.                                                           *)
LEMMA RecheckBaseStep == ASSUME G!GuardInv, G!RecheckBase PROVE G!GuardInv'
<1>1. UNCHANGED <<refs, checkout, moves>> /\ guard.step = "base again"
      /\ agreed' = (G!Named(guard.call.base) = guard.base /\ G!Named(guard.call.head) = guard.head)
  BY DEF G!RecheckBase
<1>2. CASE guard' = G!Raised
  BY <1>1, <1>2, RaisedIsSafe
<1>3. CASE guard' \in SameHead("head ref again")
           /\ guard'.code = IF G!Named(guard.call.base) = guard.base THEN guard.code ELSE 3
  <2>1. guard' \in SameCall /\ guard'.head = guard.head /\ guard'.step = "head ref again"
    BY <1>3 DEF SameHead
  <2>2. guard.head # 0 /\ (guard.call.head.kind = "ref" => guard.head <= 2 + moves)
    BY <1>1 DEF G!GuardInv
  <2>3. agreed' \in BOOLEAN
        /\ (agreed' \/ guard'.code # 0 \/ G!Named(guard.call.head) # guard'.head)
    <3>1. ASSUME G!Named(guard.call.base) # guard.base PROVE guard'.code # 0
      <4>1. guard'.code = 3 BY <1>3, <3>1
      <4> HIDE <1>3
      <4> QED BY <4>1
    <3> HIDE <1>3
    <3>2. G!Named(guard.call.base) = guard.base /\ G!Named(guard.call.head) = guard'.head => agreed'
      BY <1>1, <2>1
    <3> QED BY <1>1, <3>1, <3>2
  <2> HIDE <1>3
  <2> QED BY <1>1, <2>1, <2>2, <2>3, GuardMoved
<1>4. "head ref again" \in G!Steps BY DEF G!Steps
<1> QED BY <1>2, <1>3, <1>4, Rechecked DEF G!RecheckBase

(* The last look: an unmoved head closes the window on the base.           *)
LEMMA RecheckHeadStep == ASSUME G!GuardInv, G!RecheckHead PROVE G!GuardInv'
<1>1. UNCHANGED <<refs, checkout, moves, agreed>> /\ guard.step = "head ref again" /\ agreed \in BOOLEAN
  BY DEF G!RecheckHead, G!GuardInv, G!GuardTypeOK
<1>2. CASE guard' = G!Raised
  BY <1>1, <1>2, RaisedIsSafe
<1>3. CASE guard' \in SameHead("write")
           /\ guard'.code = IF G!Named(guard.call.head) = guard.head THEN guard.code ELSE 3
  <2>1. guard' \in SameCall /\ guard'.step = "write"
    BY <1>3 DEF SameHead
  <2>2. agreed \/ guard.code # 0 \/ guard.call.head.ref = "HEAD"
        \/ G!Named(guard.call.head) # guard.head
    BY <1>1 DEF G!GuardInv
  <2>3. agreed' \in BOOLEAN /\ (agreed' \/ guard'.code # 0 \/ guard.call.head.ref = "HEAD")
    <3>1. (G!Named(guard.call.head) # guard.head => guard'.code # 0)
          /\ (guard.code # 0 => guard'.code # 0)
      BY <1>3
    <3> HIDE <1>3
    <3> QED BY <1>1, <2>2, <3>1
  <2> HIDE <1>3
  <2> QED BY <1>1, <2>1, <2>3, GuardMoved
<1>4. "write" \in G!Steps BY DEF G!Steps
<1> QED BY <1>2, <1>3, <1>4, Rechecked DEF G!RecheckHead

(* The report, and the exit code.                                          *)
LEMMA WriteReportStep == ASSUME G!GuardInv, G!write_report PROVE G!GuardInv'
<1>1. /\ UNCHANGED <<refs, checkout, moves, agreed>> /\ guard.step = "write" /\ agreed \in BOOLEAN
      /\ guard.code \in Nat /\ guard.report \in G!Reports
  BY DEF G!write_report, G!GuardInv, G!GuardTypeOK
<1>2. agreed \/ guard.code # 0 \/ guard.call.head.ref = "HEAD"
  BY <1>1 DEF G!GuardInv
<1>3. PICK code \in {guard.code, 1} : guard' = Updated("over", code, guard.report)
  <2>1. guard = [guard EXCEPT !.code = guard.code] /\ guard = [guard EXCEPT !.report = guard.report]
    BY DEF G!GuardInv, G!GuardTypeOK
  <2>2. CASE guard' = [guard EXCEPT !.step = "over"]
    <3>1. guard' = Updated("over", guard.code, guard.report)
      BY <2>2 DEF G!GuardInv, G!GuardTypeOK, Updated
    <3> QED BY <3>1
  <2>3. CASE guard' = [guard EXCEPT !.step = "over", !.code = 1]
    <3>1. guard' = Updated("over", 1, guard.report)
      BY <2>3 DEF G!GuardInv, G!GuardTypeOK, Updated
    <3> QED BY <3>1
  <2> QED BY <2>2, <2>3 DEF G!write_report
<1>4. guard' \in SameHead("over") /\ guard'.code = code
  <2>1. "over" \in G!Steps BY DEF G!Steps
  <2>2. code \in Nat BY <1>1
  <2> QED BY <1>1, <1>3, <2>1, <2>2, GuardUpdated
<1>5. guard' \in SameCall /\ guard'.step = "over"
  BY <1>4 DEF SameHead
<1>6. agreed' \in BOOLEAN /\ (agreed' \/ guard'.code # 0 \/ guard.call.head.ref = "HEAD")
  BY <1>1, <1>2, <1>4
<1> QED BY <1>1, <1>5, <1>6, GuardMoved

(* A ref that is moved names a newer commit, or none: not what was          *)
(* previewed.                                                               *)
LEMMA RefMovesStep ==
  ASSUME G!GuardInv, NEW r \in {"main", "topic"} \union {"origin"}, G!RefMoves(r)
  PROVE  G!GuardInv'
<1>1. UNCHANGED <<checkout, guard, agreed>> /\ moves' = moves + 1 /\ moves \in Nat
  BY DEF G!RefMoves, G!GuardInv, G!GuardTypeOK
<1>2. PICK n \in {0, 3 + moves} : refs' = [refs EXCEPT ![r] = n]
  BY <1>1 DEF G!RefMoves
<1>3. refs \in [{"main", "topic"} \union {"origin"} -> Nat]
      /\ \A s \in {"main", "topic"} \union {"origin"} : refs[s] <= 2 + moves
  BY DEF G!GuardInv, G!GuardTypeOK
<1>4. refs' \in [{"main", "topic"} \union {"origin"} -> Nat]
      /\ \A s \in {"main", "topic"} \union {"origin"} : refs'[s] <= 2 + moves'
  BY <1>1, <1>2, <1>3
<1>5. G!GuardTypeOK'
  <2>1. moves' \in Nat BY <1>1
  <2> QED BY <1>1, <1>4, <2>1 DEF G!GuardInv, G!GuardTypeOK
<1>6. PICK a : a = guard.call.head OBVIOUS
<1>7. ASSUME guard.step = "head ref again", a.ref # "HEAD", G!Named(a) # guard.head
      PROVE  G!Named(a)' # guard.head
  <2>1. guard.head # 0 /\ (a.kind = "ref" => guard.head <= 2 + moves) /\ guard.head \in Nat
    BY <1>6, <1>7 DEF G!GuardInv, G!GuardTypeOK
  <2>2. a.kind \in {"ref", "sha"} /\ (a.kind = "ref" => a.ref \in {"main", "topic", "origin"})
    BY <1>6, <1>7, CallsOfTheGuard DEF G!GuardInv
  <2>3. CASE a.kind = "sha"
    BY <1>7, <2>3 DEF G!Named
  <2>4. CASE a.kind = "ref"
    <3>1. G!Named(a) = refs[a.ref] /\ G!Named(a)' = refs'[a.ref]
      BY <1>7, <2>4 DEF G!Named
    <3>2. CASE a.ref = r
      BY <1>1, <1>2, <1>3, <2>1, <2>2, <2>4, <3>1, <3>2
    <3>3. CASE a.ref # r
      BY <1>2, <1>3, <1>7, <2>2, <2>4, <3>1, <3>3
    <3> QED BY <3>2, <3>3
  <2> QED BY <2>2, <2>3, <2>4
<1>8. guard.step \in {"preview", "head again", "refs again", "base again", "head ref again"}
        => guard.head # 0 /\ (a.kind = "ref" => guard.head <= 2 + moves')
  <2>1. guard.head \in Nat BY DEF G!GuardInv, G!GuardTypeOK
  <2>2. guard.head <= 2 + moves => guard.head <= 2 + moves' BY <1>1, <2>1
  <2> QED BY <1>6, <2>2 DEF G!GuardInv
<1>9. guard.step \in {"head ref again", "write", "over"} =>
         \/ agreed \/ guard.code # 0 \/ a.ref = "HEAD"
         \/ guard.step = "head ref again" /\ G!Named(a) # guard.head
  BY <1>6 DEF G!GuardInv
<1>10. guard'.call.head = a BY <1>1, <1>6
<1>11. guard.step \in {"head ref again", "write", "over"} =>
         \/ agreed \/ guard.code # 0 \/ a.ref = "HEAD"
         \/ guard.step = "head ref again" /\ G!Named(a)' # guard.head
  BY <1>7, <1>9
<1> QED BY <1>1, <1>4, <1>5, <1>8, <1>10, <1>11 DEF G!GuardInv

(* Another command moves the checkout.                                     *)
LEMMA CheckoutStep ==
  ASSUME G!GuardInv, NEW b \in {"main", "topic"}, G!Checkout(b) PROVE G!GuardInv'
<1>1. UNCHANGED <<refs, guard, agreed>> /\ moves' = moves + 1 /\ moves \in Nat /\ checkout' = b
  BY DEF G!Checkout, G!GuardInv, G!GuardTypeOK
<1>2. G!GuardTypeOK'
  <2>1. moves' \in Nat BY <1>1
  <2> QED BY <1>1, <2>1 DEF G!GuardInv, G!GuardTypeOK
<1>3. PICK a : a = guard.call.head OBVIOUS
<1>4. a.ref # "HEAD" => G!Named(a)' = G!Named(a)
  BY <1>1 DEF G!Named
<1>5. \A s \in {"main", "topic"} \union {"origin"} : refs'[s] <= 2 + moves'
  <2>1. refs \in [{"main", "topic"} \union {"origin"} -> Nat]
        /\ \A s \in {"main", "topic"} \union {"origin"} : refs[s] <= 2 + moves
    BY DEF G!GuardInv, G!GuardTypeOK
  <2> QED BY <1>1, <2>1
<1>6. guard.step \in {"preview", "head again", "refs again", "base again", "head ref again"}
        => guard.head # 0 /\ (a.kind = "ref" => guard.head <= 2 + moves')
  <2>1. guard.head \in Nat BY DEF G!GuardInv, G!GuardTypeOK
  <2>2. guard.head <= 2 + moves => guard.head <= 2 + moves' BY <1>1, <2>1
  <2> QED BY <1>3, <2>2 DEF G!GuardInv
<1>7. guard.step \in {"head ref again", "write", "over"} =>
         \/ agreed \/ guard.code # 0 \/ a.ref = "HEAD"
         \/ guard.step = "head ref again" /\ G!Named(a)' # guard.head
  BY <1>3, <1>4 DEF G!GuardInv
<1>8. guard'.call.head = a BY <1>1, <1>3
<1> QED BY <1>1, <1>2, <1>5, <1>6, <1>7, <1>8 DEF G!GuardInv

(* Every step of the guard, or of those around it.                         *)
LEMMA GuardStep == ASSUME G!GuardInv, G!GuardNext PROVE G!GuardInv'
BY LookAtHeadStep, LookAtRefsStep, ResolveBaseStep, ResolveHeadStep, PreviewStep,
   LookAtHeadAgainStep, LookAtRefsAgainStep, RecheckBaseStep, RecheckHeadStep, WriteReportStep,
   RefMovesStep, CheckoutStep DEF G!GuardNext

-----------------------------------------------------------------------------
(* Publication of repository fleets                                         *)

NamesDiffer == \A i, j \in DOMAIN U!plan.records : U!plan.records[i].name = U!plan.records[j].name => i = j

(* The instance counts as the library does.                                *)
LEMMA OneCardinality == \A S : U!Cardinality(S) = Cardinality(S)
BY DEF U!Cardinality, Cardinality, U!IsFiniteSet, IsFiniteSet

(* The only record of a name is the one that is selected for it.            *)
LEMMA RecordOf ==
  ASSUME NamesDiffer, NEW r \in U!ToSet(U!plan.records)
  PROVE  U!select_record(U!plan, r.name) = r
<1> DEFINE found == {s \in U!ToSet(U!plan.records) : s.name = r.name}
<1>1. found = {r}
  <2>1. PICK i \in DOMAIN U!plan.records : r = U!plan.records[i] BY DEF U!ToSet
  <2>2. ASSUME NEW s \in found PROVE s = r
    <3>1. PICK j \in DOMAIN U!plan.records : s = U!plan.records[j] BY DEF U!ToSet
    <3> QED BY <2>1, <3>1 DEF NamesDiffer
  <2> QED BY <2>2
<1>2. Cardinality(found) = 1
  BY <1>1, FS_Singleton
<1>3. U!select_record(U!plan, r.name) = IF Cardinality(found) = 1 THEN CHOOSE s \in found : TRUE ELSE NULL
  BY OneCardinality DEF U!select_record
<1> HIDE DEF found
<1>4. (CHOOSE s \in found : TRUE) = r
  BY <1>1
<1> QED BY <1>2, <1>3, <1>4

(* What is there of a repository stays there.                               *)
Grew ==
    /\ order' = order /\ U!RemoteOK'
    /\ \A name \in U!Names : /\ remote[name].objects \subseteq remote'[name].objects
                             /\ remote[name].exists => remote'[name].exists

(* Links that are there stay there.                                        *)
LEMMA LinksStay == ASSUME Grew, NEW r, U!LinksThere(r) PROVE U!LinksThere(r)'
BY DEF Grew, U!LinksThere, U!Names

(* A commit that comes to main without links, or with links that are there. *)
LEMMA LinksKept ==
  ASSUME U!PubInv, Grew,
         \A r \in U!ToSet(U!plan.records) :
            r.kind = "monorepo" /\ r.commit \in remote'[r.name].history =>
               r.commit \in remote[r.name].history \/ r.commit.links = <<>> \/ U!LinksThere(r)
  PROVE  \A r \in U!ToSet(U!plan.records) :
            r.kind = "monorepo" /\ r.commit \in remote'[r.name].history => U!LinksThere(r)'
<1> SUFFICES ASSUME NEW r \in U!ToSet(U!plan.records), r.kind = "monorepo",
                    r.commit \in remote'[r.name].history
             PROVE  U!LinksThere(r)'
  OBVIOUS
<1>1. CASE r.commit.links = <<>>
  <2>1. DOMAIN r.commit.links = {} BY <1>1
  <2>2. PICK k : k = r BY Zenon
  <2> QED BY <2>1, <2>2 DEF U!LinksThere
<1>2. CASE r.commit \in remote[r.name].history
  BY <1>2, LinksStay DEF U!PubInv
<1> QED BY <1>1, <1>2, LinksStay

(* A run that stands still keeps what it knows.                             *)
LEMMA RunStays ==
  ASSUME U!PubInv, Grew, NEW q \in PubRuns, runs'[q] = runs[q]
  PROVE  U!RunInv(q)'
<1>1. U!plan' = U!plan /\ U!Names' = U!Names /\ U!Record(q)' = U!Record(q)
  BY DEF Grew, U!plan, U!Names, U!Record
<1>2. SUFFICES ASSUME ~U!Over(q)
               PROVE  /\ order.tool = "fleet" => U!FleetRun(q)'
                      /\ order.tool = "memebank" => U!MemebankRun(q)'
  BY DEF Grew, U!RunInv, U!Over
<1>3. U!RunInv(q) BY DEF U!PubInv
<1>4. runs[q].repo \in U!Names /\ U!Target(q).exists => U!Target(q)'.exists
  BY DEF Grew, U!Target
<1>5. ASSUME order.tool = "fleet" PROVE U!FleetRun(q)'
  <2>1. U!FleetRun(q) BY <1>2, <1>3, <1>5 DEF U!RunInv
  <2>2. \A c \in U!Children(U!plan, U!Record(q).org) :
           c.commit \in remote[c.name].objects => c.commit \in remote'[c.name].objects
    <3>1. ASSUME NEW c \in U!Children(U!plan, U!Record(q).org) PROVE c.name \in U!Names
      BY OrdersAssumption DEF U!Children, U!Kids, U!ToSet, ToSet, U!PubInv, U!Names, U!plan
    <3> QED BY <3>1 DEF Grew
  <2> QED BY <1>1, <1>4, <2>1, <2>2 DEF U!FleetRun, Grew
<1>6. ASSUME order.tool = "memebank" PROVE U!MemebankRun(q)'
  <2>1. U!MemebankRun(q) BY <1>2, <1>3, <1>6 DEF U!RunInv
  <2>2. U!reconstruct(U!plan)' = U!reconstruct(U!plan)
    BY <1>1 DEF Grew, U!reconstruct, U!load_source_manifest, U!load_records, U!validate_histories
  <2> QED BY <1>1, <1>4, <2>1, <2>2 DEF U!MemebankRun, U!IsMonorepo, Grew
<1> QED BY <1>5, <1>6

(* One run moves.                                                           *)
LEMMA RunMoved ==
  ASSUME U!PubInv, Grew, NEW p \in PubRuns, NEW rn, DOMAIN rn = DOMAIN U!Idle,
         runs' = [runs EXCEPT ![p] = rn], U!RunInv(p)',
         \A r \in U!ToSet(U!plan.records) :
            r.kind = "monorepo" /\ r.commit \in remote'[r.name].history =>
               r.commit \in remote[r.name].history \/ r.commit.links = <<>> \/ U!LinksThere(r)
  PROVE  U!PubInv'
<1>1. order' \in MCOrders /\ U!RemoteOK'
  BY DEF Grew, U!PubInv
<1>2. DOMAIN runs' = PubRuns /\ \A q \in PubRuns : DOMAIN runs'[q] = DOMAIN U!Idle
  BY DEF U!PubInv
<1>3. \A q \in PubRuns : U!RunInv(q)'
  <2>1. SUFFICES ASSUME NEW q \in PubRuns, q # p PROVE U!RunInv(q)'
    OBVIOUS
  <2>2. runs'[q] = runs[q] BY <2>1 DEF U!PubInv
  <2> QED BY <2>2, RunStays
<1>4. U!plan' = U!plan BY DEF Grew, U!plan
<1>5. \A r \in U!ToSet(U!plan.records)' :
            r.kind = "monorepo" /\ r.commit \in remote'[r.name].history => U!LinksThere(r)'
  <2>1. U!ToSet(U!plan.records)' = U!ToSet(U!plan.records) BY <1>4 DEF U!ToSet
  <2> QED BY <2>1, LinksKept
<1>6. DOMAIN U!Idle' = DOMAIN U!Idle BY DEF U!Idle
<1> QED BY <1>1, <1>2, <1>3, <1>5, <1>6 DEF U!PubInv

(* GitHub holds .github, and no run is under way.                          *)
LEMMA PubInitially == ASSUME U!PubInit PROVE U!PubInv
<1>1. U!RemoteOK
  <2>1. \A name \in U!Names : DOMAIN remote[name] = DOMAIN U!Absent
    BY DEF U!PubInit, U!Created, U!Absent
  <2> QED BY <2>1 DEF U!PubInit, U!RemoteOK, U!Created, U!Absent
<1>2. DOMAIN runs = PubRuns /\ \A p \in PubRuns : DOMAIN runs[p] = DOMAIN U!Idle /\ U!RunInv(p)
  <2>1. \A p \in PubRuns : runs[p] = U!Idle /\ runs[p].at = "idle" BY DEF U!PubInit, U!Idle
  <2> QED BY <2>1 DEF U!PubInit, U!RunInv, U!Over
<1>3. ASSUME NEW r \in U!ToSet(U!plan.records), r.kind = "monorepo", r.commit \in remote[r.name].history
      PROVE  U!LinksThere(r)
  <2>1. r.name \in U!Names
    BY OrdersAssumption DEF U!PubInit, U!ToSet, ToSet, U!Names, U!plan
  <2>2. r.commit = U!Profile
    BY <1>3, <2>1 DEF U!PubInit, U!Created, U!Absent
  <2>3. r.commit.links = <<>>
    BY <2>2 DEF U!Profile, U!amend_root_commit, U!NoLinks
  <2> QED BY <2>3 DEF U!LinksThere
<1> QED BY <1>1, <1>2, <1>3 DEF U!PubInit, U!PubInv

(* Steps that leave GitHub as it is.                                        *)
LEMMA OnlyLooks ==
  ASSUME U!PubInv, UNCHANGED <<order, remote>>, NEW p \in PubRuns, NEW rn, DOMAIN rn = DOMAIN U!Idle,
         runs' = [runs EXCEPT ![p] = rn], U!RunInv(p)'
  PROVE  U!PubInv'
<1>1. Grew
  BY DEF Grew, U!PubInv, U!RemoteOK, U!Names, U!Absent
<1>2. \A r \in U!ToSet(U!plan.records) :
        r.commit \in remote'[r.name].history => r.commit \in remote[r.name].history
  OBVIOUS
<1> QED BY <1>1, <1>2, RunMoved

(* A run that is over knows nothing.                                        *)
LEMMA RunEnds ==
  ASSUME U!PubInv, NEW p \in PubRuns, NEW at \in {"idle", "done", "failed"},
         runs'[p].at = at
  PROVE  U!RunInv(p)'
BY DEF U!RunInv, U!Over

(* The run that goes to another place.                                     *)
LEMMA Went ==
  ASSUME U!PubInv, NEW p \in PubRuns, NEW at, U!Goes(p, at)
  PROVE  \E rn : /\ rn = [runs[p] EXCEPT !.at = at] /\ DOMAIN rn = DOMAIN U!Idle
                 /\ runs' = [runs EXCEPT ![p] = rn] /\ runs'[p] = rn
                 /\ rn.at = at /\ rn.repo = runs[p].repo /\ rn.left = runs[p].left
                 /\ rn.base = runs[p].base
<1>1. PICK rn : rn = [runs[p] EXCEPT !.at = at] OBVIOUS
<1>2. DOMAIN runs[p] = DOMAIN U!Idle /\ DOMAIN runs = PubRuns BY DEF U!PubInv
<1>3. runs' = [runs EXCEPT ![p] = rn] /\ runs'[p] = rn
  BY <1>1, <1>2 DEF U!Goes
<1>4. {"at", "repo", "left", "base"} \subseteq DOMAIN runs[p] BY <1>2 DEF U!Idle
<1>5. DOMAIN rn = DOMAIN runs[p] /\ rn.at = at /\ rn.repo = runs[p].repo /\ rn.left = runs[p].left
      /\ rn.base = runs[p].base
  BY <1>1, <1>4
<1> QED BY <1>1, <1>2, <1>3, <1>5

(* A run of the fleet tool goes on, knowing no less.                        *)
LEMMA FleetGoesOn ==
  ASSUME U!PubInv, Grew, NEW p \in PubRuns, order.tool = "fleet", U!FleetRun(p),
         runs'[p].repo = runs[p].repo, runs'[p].left \subseteq runs[p].left,
         runs'[p].at = "children" \/ runs'[p].left = {},
         U!Record(p).kind = "monorepo" =>
            \A c \in U!Children(U!plan, U!Record(p).org) :
               c \in runs[p].left \ runs'[p].left => c.commit \in remote'[c.name].objects,
         runs[p].repo \in U!Names /\ runs'[p].at \in {"read", "push", "configure", "verify"}
            => remote'[runs[p].repo].exists
  PROVE  U!RunInv(p)'
<1>1. U!plan' = U!plan /\ U!Names' = U!Names /\ U!Record(p)' = U!Record(p)
      /\ U!Target(p)' = remote'[runs[p].repo]
  BY DEF Grew, U!plan, U!Names, U!Record, U!Target
<1>2. ASSUME NEW c \in U!Children(U!plan, U!Record(p).org) PROVE c.name \in U!Names
  BY OrdersAssumption DEF U!Children, U!Kids, U!ToSet, ToSet, U!PubInv, U!Names, U!plan
<1>3. U!Record(p).kind = "monorepo" =>
        \A c \in U!Children(U!plan, U!Record(p).org) \ runs'[p].left : c.commit \in remote'[c.name].objects
  BY <1>2 DEF Grew, U!FleetRun
<1>4. U!FleetRun(p)'
  BY <1>1, <1>3 DEF U!FleetRun, Grew
<1> QED BY <1>4 DEF U!RunInv, Grew

(* A run of the fleet tool starts with all children left to ask for.       *)
LEMMA MainStep == ASSUME U!PubInv, NEW p \in PubRuns, NEW name \in U!Names, U!main(p, name) PROVE U!PubInv'
<1> DEFINE r == U!select_record(U!plan, name)
<1>1. order.tool = "fleet" /\ UNCHANGED <<order, remote>> /\ U!plan' = U!plan /\ U!Names' = U!Names
  BY DEF U!main, U!plan, U!Names
<1>2. CASE runs' = [runs EXCEPT ![p] = [U!Idle EXCEPT !.at = "failed"]]
  <2>1. PICK rn : rn = [U!Idle EXCEPT !.at = "failed"] OBVIOUS
  <2>2. DOMAIN rn = DOMAIN U!Idle /\ rn.at = "failed" BY <2>1 DEF U!Idle
  <2>3. runs' = [runs EXCEPT ![p] = rn] /\ runs'[p] = rn BY <1>2, <2>1 DEF U!PubInv
  <2> QED BY <1>1, <2>2, <2>3, RunEnds, OnlyLooks
<1>3. ASSUME U!load_manifest(U!plan), r # NULL, U!preflight_source(U!plan, r, order.checkouts[name]),
             NEW left, left = (IF r.kind = "monorepo" THEN U!Children(U!plan, r.org) ELSE {}),
             runs' = [runs EXCEPT ![p] = [U!Idle EXCEPT !.at = "children", !.repo = name, !.left = left]]
      PROVE  U!PubInv'
  <2>1. PICK rn : rn = [U!Idle EXCEPT !.at = "children", !.repo = name, !.left = left] OBVIOUS
  <2>2. DOMAIN rn = DOMAIN U!Idle /\ rn.at = "children" /\ rn.repo = name /\ rn.left = left
    BY <2>1 DEF U!Idle
  <2>3. runs' = [runs EXCEPT ![p] = rn] /\ runs'[p] = rn BY <1>3, <2>1 DEF U!PubInv
  <2>4. U!Record(p)' = r BY <1>1, <2>2, <2>3 DEF U!Record
  <2> HIDE DEF r
  <2>5. r.kind = "monorepo" => U!Children(U!plan, r.org) \ left = {} BY <1>3
  <2>6. U!FleetRun(p)'
    BY <1>1, <1>3, <2>2, <2>3, <2>4, <2>5 DEF U!FleetRun
  <2>7. U!RunInv(p)' BY <1>1, <2>6 DEF U!RunInv
  <2> QED BY <1>1, <2>2, <2>3, <2>7, OnlyLooks
<1> HIDE DEF r
<1>4. \/ runs' = [runs EXCEPT ![p] = [U!Idle EXCEPT !.at = "failed"]]
      \/ /\ U!load_manifest(U!plan) /\ r # NULL /\ U!preflight_source(U!plan, r, order.checkouts[name])
         /\ \E left : /\ left = (IF r.kind = "monorepo" THEN U!Children(U!plan, r.org) ELSE {})
                      /\ runs' = [runs EXCEPT ![p] =
                                    [U!Idle EXCEPT !.at = "children", !.repo = name, !.left = left]]
  BY DEF U!main, r
<1> QED BY <1>2, <1>3, <1>4

(* GitHub as it was has lost nothing.                                      *)
LEMMA StillThere == ASSUME U!PubInv, UNCHANGED <<order, remote>> PROVE Grew
BY DEF Grew, U!PubInv, U!RemoteOK, U!Names, U!Absent

(* A look of the fleet tool that leads to another place.                    *)
LEMMA FleetLooks ==
  ASSUME U!PubInv, NEW p \in PubRuns, NEW at, U!Goes(p, at), UNCHANGED <<order, remote>>,
         order.tool = "fleet", runs[p].at \notin {"idle", "done", "failed"},
         at # "failed" =>
            /\ runs[p].left = {}
            /\ runs[p].repo \in U!Names /\ at \in {"read", "push", "configure", "verify"} => U!Target(p).exists
  PROVE  U!PubInv'
<1>1. PICK rn : /\ DOMAIN rn = DOMAIN U!Idle /\ runs' = [runs EXCEPT ![p] = rn] /\ runs'[p] = rn
                /\ rn.at = at /\ rn.repo = runs[p].repo /\ rn.left = runs[p].left
  BY Went
<1>2. CASE at = "failed"
  BY <1>1, <1>2, RunEnds, OnlyLooks
<1>3. CASE at # "failed"
  <2>1. U!FleetRun(p) BY DEF U!PubInv, U!RunInv, U!Over
  <2>2. U!RunInv(p)'
    BY <1>1, <1>3, <2>1, StillThere, FleetGoesOn DEF U!Target
  <2> QED BY <1>1, <2>2, OnlyLooks
<1> QED BY <1>2, <1>3

(* A child whose main is its commit holds that commit.                     *)
LEMMA ChildrenStep == ASSUME U!PubInv, NEW p \in PubRuns, U!verify_monorepo_children(p) PROVE U!PubInv'
<1>1. order.tool = "fleet" /\ runs[p].at = "children" /\ UNCHANGED <<order, remote>>
  BY DEF U!verify_monorepo_children, U!At
<1>2. CASE runs[p].left = {} /\ U!Goes(p, "ensure")
  BY <1>1, <1>2, FleetLooks
<1>3. ASSUME NEW c \in runs[p].left, remote[c.name].main = c.commit, runs' = [runs EXCEPT ![p].left = @ \ {c}]
      PROVE  U!PubInv'
  <2>1. PICK rn : rn = [runs[p] EXCEPT !.left = @ \ {c}] OBVIOUS
  <2>2. DOMAIN runs[p] = DOMAIN U!Idle /\ DOMAIN runs = PubRuns BY DEF U!PubInv
  <2>3. runs' = [runs EXCEPT ![p] = rn] /\ runs'[p] = rn BY <1>3, <2>1, <2>2
  <2>4. DOMAIN rn = DOMAIN U!Idle /\ rn.at = "children" /\ rn.repo = runs[p].repo
        /\ rn.left = runs[p].left \ {c}
    BY <1>1, <2>1, <2>2 DEF U!Idle
  <2>5. U!FleetRun(p) BY <1>1 DEF U!PubInv, U!RunInv, U!Over
  <2>6. c \in U!Children(U!plan, U!Record(p).org) => c.commit \in remote[c.name].objects
    <3>1. c \in U!Children(U!plan, U!Record(p).org) => c.name \in U!Names /\ c.commit # NULL
      BY OrdersAssumption DEF U!Children, U!Kids, U!ToSet, ToSet, U!PubInv, U!Names, U!plan
    <3> QED BY <1>3, <3>1 DEF U!PubInv, U!RemoteOK
  <2>7. U!RunInv(p)'
    <3>1. \A d \in U!Children(U!plan, U!Record(p).org) :
             d \in runs[p].left \ runs'[p].left => d.commit \in remote'[d.name].objects
      BY <1>1, <2>3, <2>4, <2>6
    <3>2. runs'[p].at = "children" /\ runs'[p].repo = runs[p].repo /\ runs'[p].left \subseteq runs[p].left
      BY <2>3, <2>4
    <3> QED BY <1>1, <2>5, <3>1, <3>2, StillThere, FleetGoesOn
  <2> QED BY <1>1, <2>3, <2>4, <2>7, OnlyLooks
<1>4. CASE U!Goes(p, "failed")
  BY <1>1, <1>4, FleetLooks
<1> QED BY <1>2, <1>3, <1>4 DEF U!verify_monorepo_children, U!Goes

(* The repository is looked up.                                            *)
LEMMA EnsureStep == ASSUME U!PubInv, NEW p \in PubRuns, U!ensure_repository(p) PROVE U!PubInv'
<1>1. order.tool = "fleet" /\ runs[p].at = "ensure" /\ UNCHANGED <<order, remote>>
  BY DEF U!ensure_repository, U!At
<1>2. runs[p].left = {}
  BY <1>1 DEF U!PubInv, U!RunInv, U!Over, U!FleetRun
<1>3. CASE U!Goes(p, "create")
  BY <1>1, <1>2, <1>3, FleetLooks
<1>4. CASE U!Goes(p, "read") /\ U!Target(p).exists
  BY <1>1, <1>2, <1>4, FleetLooks
<1>5. CASE U!Goes(p, "failed")
  BY <1>1, <1>5, FleetLooks
<1> QED BY <1>3, <1>4, <1>5 DEF U!ensure_repository, U!validate_repository_metadata

(* Main is read.                                                           *)
LEMMA ReadMainStep == ASSUME U!PubInv, NEW p \in PubRuns, U!ReadMain(p) PROVE U!PubInv'
<1>1. order.tool = "fleet" /\ runs[p].at = "read" /\ UNCHANGED <<order, remote>>
  BY DEF U!ReadMain, U!At
<1>2. runs[p].left = {} /\ (runs[p].repo \in U!Names => U!Target(p).exists)
  BY <1>1 DEF U!PubInv, U!RunInv, U!Over, U!FleetRun
<1>3. PICK at \in {"push", "configure", "failed"} : U!Goes(p, at)
  BY DEF U!ReadMain
<1> QED BY <1>1, <1>2, <1>3, FleetLooks

(* The settings are read.                                                  *)
LEMMA ConfigureStep == ASSUME U!PubInv, NEW p \in PubRuns, U!configure_repository(p) PROVE U!PubInv'
<1>1. order.tool = "fleet" /\ runs[p].at = "configure" /\ UNCHANGED <<order, remote>>
  BY DEF U!configure_repository, U!At
<1>2. runs[p].left = {} /\ (runs[p].repo \in U!Names => U!Target(p).exists)
  BY <1>1 DEF U!PubInv, U!RunInv, U!Over, U!FleetRun
<1>3. PICK at \in {"verify", "failed"} : U!Goes(p, at)
  BY DEF U!configure_repository
<1> QED BY <1>1, <1>2, <1>3, FleetLooks

(* The last look at main.                                                  *)
LEMMA PublishRecordStep == ASSUME U!PubInv, NEW p \in PubRuns, U!publish_record(p) PROVE U!PubInv'
<1>1. UNCHANGED <<order, remote>> BY DEF U!publish_record
<1>2. PICK at \in {"done", "failed"} : \E published :
        runs' = [runs EXCEPT ![p].at = at, ![p].published = published]
  <2>1. CASE runs' = [runs EXCEPT ![p].at = "done", ![p].published = {runs[p].repo}]
    BY <2>1
  <2>2. CASE runs' = [runs EXCEPT ![p].at = "failed"]
    <3>1. runs' = [runs EXCEPT ![p].at = "failed", ![p].published = runs[p].published]
      BY <2>2 DEF U!PubInv, U!Idle
    <3> QED BY <3>1
  <2> QED BY <2>1, <2>2 DEF U!publish_record
<1>3. PICK published, rn :
        /\ runs' = [runs EXCEPT ![p].at = at, ![p].published = published]
        /\ rn = [runs[p] EXCEPT !.at = at, !.published = published]
  BY <1>2
<1>4. DOMAIN runs[p] = DOMAIN U!Idle /\ DOMAIN runs = PubRuns BY DEF U!PubInv
<1>5. runs' = [runs EXCEPT ![p] = rn] /\ runs'[p] = rn BY <1>3, <1>4
<1>6. DOMAIN rn = DOMAIN U!Idle /\ rn.at = at BY <1>3, <1>4 DEF U!Idle
<1>7. U!RunInv(p)' BY <1>5, <1>6, RunEnds
<1> QED BY <1>1, <1>5, <1>6, <1>7, OnlyLooks

(* A run dies.                                                             *)
LEMMA DiesStep == ASSUME U!PubInv, NEW p \in PubRuns, U!Dies(p) PROVE U!PubInv'
<1>1. U!Goes(p, "failed") /\ UNCHANGED <<order, remote>> BY DEF U!Dies
<1>2. PICK rn : /\ DOMAIN rn = DOMAIN U!Idle /\ runs' = [runs EXCEPT ![p] = rn] /\ runs'[p] = rn
                /\ rn.at = "failed"
  BY <1>1, Went
<1> QED BY <1>1, <1>2, RunEnds, OnlyLooks

(* One repository changes.                                                  *)
LEMMA OneGrows ==
  ASSUME U!PubInv, order' = order, NEW name, NEW rec, remote' = [remote EXCEPT ![name] = rec],
         name \in U!Names =>
            /\ DOMAIN rec = DOMAIN U!Absent
            /\ rec.main = NULL \/ rec.main \in rec.objects
            /\ rec.exists \/ rec.objects = {}
            /\ remote[name].objects \subseteq rec.objects
            /\ remote[name].exists => rec.exists
  PROVE  /\ Grew
         /\ name \in U!Names => remote'[name] = rec
         /\ \A r \in U!ToSet(U!plan.records) :
               r.commit \in remote'[r.name].history =>
                  r.commit \in remote[r.name].history \/ (r.name = name /\ r.commit \in rec.history)
<1>1. DOMAIN remote = U!Names /\ U!Names' = U!Names /\ DOMAIN U!Absent' = DOMAIN U!Absent
  BY DEF U!PubInv, U!RemoteOK, U!Names, U!Absent
<1>2. \A n \in U!Names : remote'[n] = IF n = name THEN rec ELSE remote[n]
  BY <1>1
<1>3. U!RemoteOK'
  BY <1>1, <1>2 DEF U!PubInv, U!RemoteOK
<1>4. Grew
  BY <1>2, <1>3 DEF Grew
<1>5. \A r \in U!ToSet(U!plan.records) : r.name \in U!Names
  BY OrdersAssumption DEF U!ToSet, ToSet, U!PubInv, U!Names, U!plan
<1> QED BY <1>2, <1>4, <1>5

(* Main takes a tip with its line.                                          *)
LEMMA PushedGrows ==
  ASSUME U!PubInv, order' = order, NEW name, NEW tip, NEW line, tip \in line,
         name \in U!Names => remote[name].exists,
         remote' = U!Pushed(name, tip, line)
  PROVE  /\ Grew
         /\ \A r \in U!ToSet(U!plan.records) :
               r.commit \in remote'[r.name].history =>
                  r.commit \in remote[r.name].history \/ (r.name = name /\ r.commit \in line)
<1>1. PICK rec : rec = [remote[name] EXCEPT !.main = tip, !.history = line, !.objects = @ \union line]
  OBVIOUS
<1>2. DOMAIN remote = U!Names /\ (name \in U!Names => DOMAIN remote[name] = DOMAIN U!Absent)
  BY DEF U!PubInv, U!RemoteOK
<1>3. remote' = [remote EXCEPT ![name] = rec]
  BY <1>1, <1>2 DEF U!Pushed
<1>4. name \in U!Names =>
        /\ DOMAIN rec = DOMAIN U!Absent /\ rec.main = tip /\ rec.history = line
        /\ rec.objects = remote[name].objects \union line /\ rec.exists = remote[name].exists
  BY <1>1, <1>2 DEF U!Absent
<1>5. \A r \in U!ToSet(U!plan.records) : r.name \in U!Names
  BY OrdersAssumption DEF U!ToSet, ToSet, U!PubInv, U!Names, U!plan
<1>6. name \in U!Names =>
        /\ DOMAIN rec = DOMAIN U!Absent
        /\ rec.main = NULL \/ rec.main \in rec.objects
        /\ rec.exists \/ rec.objects = {}
        /\ remote[name].objects \subseteq rec.objects
        /\ remote[name].exists => rec.exists
  BY <1>4
<1>7. /\ Grew
      /\ \A r \in U!ToSet(U!plan.records) :
            r.commit \in remote'[r.name].history =>
               r.commit \in remote[r.name].history \/ (r.name = name /\ r.commit \in rec.history)
  <2> HIDE <1>1
  <2> QED BY <1>3, <1>6, OneGrows
<1> QED BY <1>4, <1>5, <1>7

(* A monorepo's links, once the fleet tool has asked for every child.       *)
LEMMA FleetLinks ==
  ASSUME U!PubInv, NEW p \in PubRuns, U!FleetRun(p), runs[p].left = {},
         NEW r \in U!ToSet(U!plan.records), r.kind = "monorepo", r.name = runs[p].repo
  PROVE  U!LinksThere(r)
<1>1. NamesDiffer BY DEF U!FleetRun, U!load_manifest, NamesDiffer
<1>2. U!Record(p) = r BY <1>1, RecordOf DEF U!Record
<1>3. PICK k : k = order.checkouts[r.name] OBVIOUS
<1>4. U!preflight_source(U!plan, r, k) BY <1>2, <1>3 DEF U!FleetRun
<1>5. ASSUME NEW path \in DOMAIN r.commit.links
      PROVE  k.modules[path] \in U!Names /\ r.commit.links[path] \in remote[k.modules[path]].objects
  <2>1. k.head = r.commit /\ DOMAIN r.commit.links = DOMAIN k.head.links
    BY <1>4 DEF U!preflight_source
  <2>2. PICK c \in U!Children(U!plan, r.org) : c.remote = k.modules[path] /\ c.commit = r.commit.links[path]
    <3>1. \A l \in DOMAIN k.head.links :
            \E c \in {c \in U!Children(U!plan, r.org) : c.remote = k.modules[l]} : c.commit = k.head.links[l]
      BY <1>4, Zenon DEF U!preflight_source, U!staged_gitlinks, U!gitmodule_entries
    <3> QED BY <1>5, <2>1, <3>1
  <2>3. c \in U!ToSet(U!plan.records) BY DEF U!Children, U!Kids
  <2>4. c.remote = c.name
    <3>1. PICK i \in DOMAIN U!plan.records : c = U!plan.records[i] BY <2>3 DEF U!ToSet
    <3> QED BY <3>1 DEF U!FleetRun, U!load_manifest, U!validate_record
  <2>5. c.name \in U!Names
    BY <2>3, OrdersAssumption DEF U!ToSet, ToSet, U!PubInv, U!Names, U!plan
  <2>6. c.commit \in remote[c.name].objects
    BY <1>2 DEF U!FleetRun
  <2> QED BY <2>2, <2>4, <2>5, <2>6
<1> QED BY <1>3, <1>5 DEF U!LinksThere

(* A repository that is created held nothing before.                       *)
LEMMA CreateStep == ASSUME U!PubInv, NEW p \in PubRuns, U!CreateRepository(p) PROVE U!PubInv'
<1>1. order.tool = "fleet" /\ runs[p].at = "create" /\ UNCHANGED order
  BY DEF U!CreateRepository, U!At
<1>2. CASE U!Goes(p, "failed") /\ UNCHANGED remote
  BY <1>1, <1>2, FleetLooks
<1>3. CASE /\ ~U!Target(p).exists /\ remote' = [remote EXCEPT ![runs[p].repo] = U!Created]
           /\ \E next \in {"read", "failed"} : U!Goes(p, next)
  <2>1. PICK at \in {"read", "failed"} : U!Goes(p, at) BY <1>3
  <2>2. PICK rn : /\ DOMAIN rn = DOMAIN U!Idle /\ runs' = [runs EXCEPT ![p] = rn] /\ runs'[p] = rn
                  /\ rn.at = at /\ rn.repo = runs[p].repo /\ rn.left = runs[p].left
    BY <2>1, Went
  <2>3. runs[p].repo \in U!Names => remote[runs[p].repo].objects = {}
    BY <1>3 DEF U!Target, U!PubInv, U!RemoteOK
  <2>4. DOMAIN U!Created = DOMAIN U!Absent /\ U!Created.main = NULL /\ U!Created.exists = TRUE
        /\ U!Created.history = {}
    BY DEF U!Created, U!Absent
  <2>5. /\ Grew /\ (runs[p].repo \in U!Names => remote'[runs[p].repo].exists)
        /\ \A r \in U!ToSet(U!plan.records) :
              r.commit \in remote'[r.name].history => r.commit \in remote[r.name].history
    <3>1. PICK rec : rec = U!Created OBVIOUS
    <3> QED BY <1>1, <1>3, <2>3, <2>4, <3>1, OneGrows
  <2>6. U!FleetRun(p) /\ runs[p].left = {}
    BY <1>1 DEF U!PubInv, U!RunInv, U!Over, U!FleetRun
  <2>7. CASE at = "failed"
    BY <2>2, <2>5, <2>7, RunEnds, RunMoved
  <2>8. CASE at = "read"
    <3>1. U!RunInv(p)' BY <1>1, <2>2, <2>5, <2>6, <2>8, FleetGoesOn
    <3> QED BY <2>2, <2>5, <3>1, RunMoved
  <2> QED BY <2>7, <2>8
<1> QED BY <1>2, <1>3 DEF U!CreateRepository

(* Main is pushed, once every child has been asked for.                    *)
LEMMA PushMainStep == ASSUME U!PubInv, NEW p \in PubRuns, U!push_main(p) PROVE U!PubInv'
<1>1. order.tool = "fleet" /\ runs[p].at = "push" /\ UNCHANGED order
  BY DEF U!push_main, U!At
<1>2. CASE U!Goes(p, "failed") /\ UNCHANGED remote
  BY <1>1, <1>2, FleetLooks
<1>3. U!FleetRun(p) /\ runs[p].left = {} /\ (runs[p].repo \in U!Names => remote[runs[p].repo].exists)
  BY <1>1 DEF U!PubInv, U!RunInv, U!Over, U!FleetRun, U!Target
<1>4. CASE /\ remote' = U!Pushed(runs[p].repo, U!Record(p).commit, {U!Record(p).commit})
           /\ \E next \in {"configure", "failed"} : U!Goes(p, next)
  <2>1. PICK at \in {"configure", "failed"} : U!Goes(p, at) BY <1>4
  <2>2. PICK rn : /\ DOMAIN rn = DOMAIN U!Idle /\ runs' = [runs EXCEPT ![p] = rn] /\ runs'[p] = rn
                  /\ rn.at = at /\ rn.repo = runs[p].repo /\ rn.left = runs[p].left
    BY <2>1, Went
  <2>3. /\ Grew
        /\ \A r \in U!ToSet(U!plan.records) :
              r.commit \in remote'[r.name].history =>
                 r.commit \in remote[r.name].history \/ r.name = runs[p].repo
    <3>1. PICK name, tip, line : name = runs[p].repo /\ tip = U!Record(p).commit /\ line = {tip} OBVIOUS
    <3>2. remote' = U!Pushed(name, tip, line) /\ tip \in line /\ (name \in U!Names => remote[name].exists)
      BY <1>3, <1>4, <3>1
    <3> QED BY <1>1, <3>1, <3>2, PushedGrows
  <2>4. \A r \in U!ToSet(U!plan.records) :
          r.kind = "monorepo" /\ r.commit \in remote'[r.name].history =>
             r.commit \in remote[r.name].history \/ U!LinksThere(r)
    BY <1>3, <2>3, FleetLinks
  <2>5. runs[p].repo \in U!Names => remote'[runs[p].repo].exists
    BY <1>3, <2>3 DEF Grew
  <2>6. CASE at = "failed"
    BY <2>2, <2>3, <2>4, <2>6, RunEnds, RunMoved
  <2>7. CASE at = "configure"
    <3>1. U!RunInv(p)' BY <1>1, <1>3, <2>2, <2>3, <2>5, <2>7, FleetGoesOn
    <3> QED BY <2>2, <2>3, <2>4, <3>1, RunMoved
  <2> QED BY <2>6, <2>7
<1> QED BY <1>2, <1>4 DEF U!push_main

(* Every step of the fleet tool.                                           *)
LEMMA FleetStepKeeps == ASSUME U!PubInv, NEW p \in PubRuns, U!FleetStep(p) PROVE U!PubInv'
BY MainStep, ChildrenStep, EnsureStep, CreateStep, ReadMainStep, PushMainStep, ConfigureStep,
   PublishRecordStep DEF U!FleetStep

(* The memebank tool: a run under way has reconstructed its sources.        *)
LEMMA MemeRun ==
  ASSUME U!PubInv, NEW p \in PubRuns, order.tool = "memebank", runs[p].at \notin {"idle", "done", "failed"}
  PROVE  U!MemebankRun(p)
BY DEF U!PubInv, U!RunInv, U!Over

(* A run of the memebank tool goes on, knowing what its place asks for.    *)
LEMMA MemebankGoesOn ==
  ASSUME U!PubInv, Grew, NEW p \in PubRuns, order.tool = "memebank", U!reconstruct(U!plan),
         runs'[p].at \notin {"next", "ensure"} =>
           /\ runs'[p].repo = runs[p].repo
           /\ runs[p].repo \in U!Names => remote'[runs[p].repo].exists,
         runs'[p].at \in {"push", "first"} /\ U!IsMonorepo(p) =>
           \A path \in DOMAIN U!plan.links : path \in U!Names /\ U!plan.links[path] \in remote'[path].objects,
         runs'[p].at \in {"attach", "join"} => ~U!IsMonorepo(p)
  PROVE  U!RunInv(p)'
<1>1. U!plan' = U!plan /\ U!Names' = U!Names /\ order' = order
  BY DEF Grew, U!plan, U!Names
<1>2. U!reconstruct(U!plan)' = U!reconstruct(U!plan)
  BY <1>1 DEF U!reconstruct, U!load_source_manifest, U!load_records, U!validate_histories
<1>3. CASE runs'[p].at \in {"next", "ensure"}
  <2>1. U!MemebankRun(p)' BY <1>2, <1>3 DEF U!MemebankRun
  <2> QED BY <1>1, <2>1 DEF U!RunInv
<1>4. CASE runs'[p].at \notin {"next", "ensure"}
  <2>1. U!Record(p)' = U!Record(p) /\ U!Target(p)' = remote'[runs[p].repo] /\ runs'[p].repo = runs[p].repo
    BY <1>1, <1>4 DEF U!Record, U!Target
  <2>2. U!IsMonorepo(p)' = U!IsMonorepo(p) BY <2>1 DEF U!IsMonorepo
  <2>3. U!MemebankRun(p)' BY <1>1, <1>2, <1>4, <2>1, <2>2 DEF U!MemebankRun
  <2> QED BY <1>1, <2>3 DEF U!RunInv
<1> QED BY <1>3, <1>4

(* A failed record: the next one.                                           *)
LEMMA FailedRecord ==
  ASSUME U!PubInv, Grew, NEW p \in PubRuns, order.tool = "memebank", U!reconstruct(U!plan),
         U!record_failure(p),
         \A r \in U!ToSet(U!plan.records) :
            r.kind = "monorepo" /\ r.commit \in remote'[r.name].history =>
               r.commit \in remote[r.name].history \/ r.commit.links = <<>> \/ U!LinksThere(r)
  PROVE  U!PubInv'
<1>1. PICK rn : rn = [runs[p] EXCEPT !.at = "next", !.failures = @ \union {runs[p].repo}] OBVIOUS
<1>2. DOMAIN runs[p] = DOMAIN U!Idle /\ DOMAIN runs = PubRuns BY DEF U!PubInv
<1>3. runs' = [runs EXCEPT ![p] = rn] /\ runs'[p] = rn
  BY <1>1, <1>2 DEF U!record_failure, U!Idle
<1>4. DOMAIN rn = DOMAIN U!Idle /\ rn.at = "next" BY <1>1, <1>2 DEF U!Idle
<1>5. U!RunInv(p)' BY <1>3, <1>4, MemebankGoesOn
<1> QED BY <1>3, <1>4, <1>5, RunMoved

(* The same, for a step to another place.                                  *)
LEMMA WentOn ==
  ASSUME U!PubInv, Grew, NEW p \in PubRuns, NEW at, U!Goes(p, at), order.tool = "memebank",
         U!reconstruct(U!plan), runs[p].repo \in U!Names => remote'[runs[p].repo].exists,
         at \in {"push", "first"} /\ U!IsMonorepo(p) =>
           \A path \in DOMAIN U!plan.links : path \in U!Names /\ U!plan.links[path] \in remote'[path].objects,
         at \in {"attach", "join"} => ~U!IsMonorepo(p),
         \A r \in U!ToSet(U!plan.records) :
            r.kind = "monorepo" /\ r.commit \in remote'[r.name].history =>
               r.commit \in remote[r.name].history \/ r.commit.links = <<>> \/ U!LinksThere(r)
  PROVE  U!PubInv'
<1>1. PICK rn : /\ DOMAIN rn = DOMAIN U!Idle /\ runs' = [runs EXCEPT ![p] = rn] /\ runs'[p] = rn
                /\ rn.at = at /\ rn.repo = runs[p].repo
  BY Went
<1>2. U!RunInv(p)' BY <1>1, MemebankGoesOn
<1> QED BY <1>1, <1>2, RunMoved

(* A run of the memebank tool starts with its sources reconstructed.       *)
LEMMA RunPublicationStep == ASSUME U!PubInv, NEW p \in PubRuns, U!run_publication(p) PROVE U!PubInv'
<1>1. order.tool = "memebank" /\ UNCHANGED <<order, remote>> BY DEF U!run_publication
<1>2. CASE runs' = [runs EXCEPT ![p] = [U!Idle EXCEPT !.at = "failed"]]
  <2>1. PICK rn : rn = [U!Idle EXCEPT !.at = "failed"] OBVIOUS
  <2>2. DOMAIN rn = DOMAIN U!Idle /\ rn.at = "failed" BY <2>1 DEF U!Idle
  <2>3. runs' = [runs EXCEPT ![p] = rn] /\ runs'[p] = rn BY <1>2, <2>1 DEF U!PubInv
  <2> QED BY <1>1, <2>2, <2>3, RunEnds, OnlyLooks
<1>3. CASE /\ U!reconstruct(U!plan)
           /\ runs' = [runs EXCEPT ![p] = [U!Idle EXCEPT !.at = "next", !.queue = U!RecordOrder(U!plan)]]
  <2>1. PICK rn : rn = [U!Idle EXCEPT !.at = "next", !.queue = U!RecordOrder(U!plan)] OBVIOUS
  <2>2. DOMAIN rn = DOMAIN U!Idle /\ rn.at = "next" BY <2>1 DEF U!Idle
  <2>3. runs' = [runs EXCEPT ![p] = rn] /\ runs'[p] = rn BY <1>3, <2>1 DEF U!PubInv
  <2>4. U!RunInv(p)' BY <1>1, <1>3, <2>2, <2>3, StillThere, MemebankGoesOn
  <2> QED BY <1>1, <2>2, <2>3, <2>4, OnlyLooks
<1> QED BY <1>2, <1>3 DEF U!run_publication

(* The next record.                                                        *)
LEMMA NextRecordStep == ASSUME U!PubInv, NEW p \in PubRuns, U!NextRecord(p) PROVE U!PubInv'
<1>1. order.tool = "memebank" /\ runs[p].at = "next" /\ UNCHANGED <<order, remote>>
  BY DEF U!NextRecord, U!At
<1>2. U!reconstruct(U!plan) BY <1>1, MemeRun DEF U!MemebankRun
<1>3. CASE U!Goes(p, "done")
  <2>1. PICK rn : /\ DOMAIN rn = DOMAIN U!Idle /\ runs' = [runs EXCEPT ![p] = rn] /\ runs'[p] = rn
                  /\ rn.at = "done"
    BY <1>3, Went
  <2> QED BY <1>1, <2>1, RunEnds, OnlyLooks
<1>4. CASE runs' = [runs EXCEPT ![p].at = "ensure", ![p].repo = Head(runs[p].queue),
                                ![p].queue = Tail(@), ![p].base = NULL]
  <2>1. PICK rn : rn = [runs[p] EXCEPT !.at = "ensure", !.repo = Head(runs[p].queue),
                                !.queue = Tail(@), !.base = NULL] OBVIOUS
  <2>2. DOMAIN runs[p] = DOMAIN U!Idle /\ DOMAIN runs = PubRuns BY DEF U!PubInv
  <2>3. runs' = [runs EXCEPT ![p] = rn] /\ runs'[p] = rn BY <1>4, <2>1, <2>2 DEF U!Idle
  <2>4. DOMAIN rn = DOMAIN U!Idle /\ rn.at = "ensure" BY <2>1, <2>2 DEF U!Idle
  <2>5. U!RunInv(p)' BY <1>1, <1>2, <2>3, <2>4, StillThere, MemebankGoesOn
  <2> QED BY <1>1, <2>3, <2>4, <2>5, OnlyLooks
<1> QED BY <1>3, <1>4 DEF U!NextRecord, U!Goes

(* The repository is made, or patched.                                     *)
LEMMA EnsurePrivateStep == ASSUME U!PubInv, NEW p \in PubRuns, U!ensure_private_repository(p) PROVE U!PubInv'
<1>1. order.tool = "memebank" /\ runs[p].at = "ensure" /\ UNCHANGED order
  BY DEF U!ensure_private_repository, U!At
<1>2. U!reconstruct(U!plan) BY <1>1, MemeRun DEF U!MemebankRun
<1>3. CASE U!record_failure(p) /\ UNCHANGED remote
  BY <1>1, <1>2, <1>3, StillThere, FailedRecord
<1>4. CASE /\ remote' = [remote EXCEPT ![runs[p].repo] =
                  IF @.exists THEN [@ EXCEPT !.settings = TRUE] ELSE U!Created]
           /\ \/ U!Goes(p, IF U!IsMonorepo(p) THEN "targets"
                           ELSE IF U!IsGovernance(p) THEN "provenance" ELSE "push")
              \/ U!record_failure(p)
  <2>1. PICK name, rec : name = runs[p].repo /\
          rec = (IF remote[name].exists THEN [remote[name] EXCEPT !.settings = TRUE] ELSE U!Created)
    OBVIOUS
  <2>2. name \in U!Names => /\ DOMAIN remote[name] = DOMAIN U!Absent
                            /\ remote[name].main = NULL \/ remote[name].main \in remote[name].objects
                            /\ remote[name].exists \/ remote[name].objects = {}
    BY DEF U!PubInv, U!RemoteOK
  <2>3. name \in U!Names =>
          /\ DOMAIN rec = DOMAIN U!Absent
          /\ rec.main = NULL \/ rec.main \in rec.objects
          /\ rec.exists
          /\ remote[name].objects \subseteq rec.objects
          /\ rec.history = remote[name].history \/ rec.history = {}
    <3>1. CASE remote[name].exists
      <4>1. rec = [remote[name] EXCEPT !.settings = TRUE] BY <2>1, <3>1
      <4> QED BY <2>2, <3>1, <4>1 DEF U!Absent
    <3>2. CASE ~remote[name].exists
      <4>1. rec = U!Created BY <2>1, <3>2
      <4> QED BY <2>2, <3>2, <4>1 DEF U!Created, U!Absent
    <3> QED BY <3>1, <3>2
  <2>4. remote' = [remote EXCEPT ![name] = rec] BY <1>4, <2>1
  <2>5. /\ Grew /\ (name \in U!Names => remote'[name] = rec)
        /\ \A r \in U!ToSet(U!plan.records) :
              r.commit \in remote'[r.name].history =>
                 r.commit \in remote[r.name].history \/ (r.name = name /\ r.commit \in rec.history)
    <3> HIDE <1>4, <2>1, <2>2
    <3> QED BY <1>1, <2>3, <2>4, OneGrows
  <2>6. \A r \in U!ToSet(U!plan.records) : r.name \in U!Names
    BY OrdersAssumption DEF U!ToSet, ToSet, U!PubInv, U!Names, U!plan
  <2>7. \A r \in U!ToSet(U!plan.records) :
          r.commit \in remote'[r.name].history => r.commit \in remote[r.name].history
    BY <2>3, <2>5, <2>6
  <2>8. CASE U!record_failure(p)
    BY <1>1, <1>2, <2>5, <2>7, <2>8, FailedRecord
  <2>9. ASSUME NEW at \in {"targets", "provenance", "push"}, U!Goes(p, at), at = "push" => ~U!IsMonorepo(p)
        PROVE  U!PubInv'
    <3>1. runs[p].repo \in U!Names => remote'[runs[p].repo].exists BY <2>1, <2>3, <2>5
    <3> HIDE <1>4, <2>1, <2>2, <2>3
    <3> QED BY <1>1, <1>2, <2>5, <2>7, <2>9, <3>1, WentOn
  <2> QED BY <1>4, <2>8, <2>9
<1> QED BY <1>3, <1>4 DEF U!ensure_private_repository

(* What a run at a repository knows.                                        *)
LEMMA MemeKnows ==
  ASSUME U!PubInv, NEW p \in PubRuns, order.tool = "memebank",
         runs[p].at \notin {"idle", "done", "failed", "next", "ensure"}
  PROVE  U!reconstruct(U!plan) /\ (runs[p].repo \in U!Names => remote[runs[p].repo].exists)
BY MemeRun DEF U!MemebankRun, U!Target

(* A look of the memebank tool that leads to another place.                 *)
LEMMA MemeLooks ==
  ASSUME U!PubInv, NEW p \in PubRuns, UNCHANGED <<order, remote>>, order.tool = "memebank",
         runs[p].at \notin {"idle", "done", "failed", "next", "ensure"},
         \/ U!record_failure(p)
         \/ \E at : /\ U!Goes(p, at)
                    /\ at \in {"push", "first"} /\ U!IsMonorepo(p) =>
                         \A path \in DOMAIN U!plan.links :
                            path \in U!Names /\ U!plan.links[path] \in remote[path].objects
                    /\ at \in {"attach", "join"} => ~U!IsMonorepo(p)
  PROVE  U!PubInv'
<1>1. Grew /\ U!reconstruct(U!plan) /\ (runs[p].repo \in U!Names => remote'[runs[p].repo].exists)
  BY StillThere, MemeKnows
<1>2. \A r \in U!ToSet(U!plan.records) :
        r.commit \in remote'[r.name].history => r.commit \in remote[r.name].history
  OBVIOUS
<1>3. CASE U!record_failure(p)
  BY <1>1, <1>2, <1>3, FailedRecord
<1>4. ASSUME NEW at, U!Goes(p, at),
             at \in {"push", "first"} /\ U!IsMonorepo(p) =>
                \A path \in DOMAIN U!plan.links :
                   path \in U!Names /\ U!plan.links[path] \in remote[path].objects,
             at \in {"attach", "join"} => ~U!IsMonorepo(p)
      PROVE  U!PubInv'
  BY <1>1, <1>2, <1>4, WentOn
<1> QED BY <1>3, <1>4

(* Every target of the monorepo is asked for.                              *)
LEMMA TargetsStep == ASSUME U!PubInv, NEW p \in PubRuns, U!validate_monorepo_targets(p) PROVE U!PubInv'
<1>1. order.tool = "memebank" /\ runs[p].at = "targets" /\ UNCHANGED <<order, remote>>
  BY DEF U!validate_monorepo_targets, U!At
<1>2. CASE U!record_failure(p)
  BY <1>1, <1>2, MemeLooks
<1>3. CASE /\ U!Goes(p, "push")
           /\ \A path \in DOMAIN U!plan.links :
                 \E r \in {r \in U!ToSet(U!plan.records) : r.name = path} :
                    U!commit_reachable(r.name, U!plan.links[path])
  <2>1. \A r \in U!ToSet(U!plan.records) : r.name \in U!Names
    BY OrdersAssumption DEF U!ToSet, ToSet, U!PubInv, U!Names, U!plan
  <2>2. \A path \in DOMAIN U!plan.links : path \in U!Names /\ U!plan.links[path] \in remote[path].objects
    BY <1>3, <2>1 DEF U!commit_reachable
  <2> QED BY <1>1, <1>3, <2>2, MemeLooks
<1> QED BY <1>2, <1>3 DEF U!validate_monorepo_targets

(* What is to be done is read off main.                                    *)
LEMMA PushInitialStep == ASSUME U!PubInv, NEW p \in PubRuns, U!push_initial(p) PROVE U!PubInv'
<1>1. order.tool = "memebank" /\ runs[p].at = "push" /\ UNCHANGED <<order, remote>>
  BY DEF U!push_initial, U!At
<1>2. U!IsMonorepo(p) => \A path \in DOMAIN U!plan.links :
                            path \in U!Names /\ U!plan.links[path] \in remote[path].objects
  BY <1>1, MemeRun DEF U!MemebankRun
<1>3. CASE U!record_failure(p)
  BY <1>1, <1>3, MemeLooks
<1>4. CASE U!Goes(p, "first")
  BY <1>1, <1>2, <1>4, MemeLooks
<1>5. CASE U!Goes(p, "provenance")
  BY <1>1, <1>5, MemeLooks
<1>6. CASE U!Goes(p, "attach") /\ U!Record(p).kind = "e2e"
  <2>1. ~U!IsMonorepo(p) BY <1>6 DEF U!IsMonorepo
  <2> QED BY <1>1, <1>6, <2>1, MemeLooks
<1> QED BY <1>3, <1>4, <1>5, <1>6 DEF U!push_initial

(* What was pushed is read back.                                           *)
LEMMA PushedIsThereStep == ASSUME U!PubInv, NEW p \in PubRuns, U!PushedIsThere(p) PROVE U!PubInv'
<1>1. order.tool = "memebank" /\ runs[p].at = "pushed" /\ UNCHANGED <<order, remote>>
  BY DEF U!PushedIsThere, U!At
<1>2. CASE U!record_failure(p)
  BY <1>1, <1>2, MemeLooks
<1>3. CASE U!Goes(p, "provenance")
  BY <1>1, <1>3, MemeLooks
<1> QED BY <1>2, <1>3 DEF U!PushedIsThere

(* The links of a monorepo, once the memebank tool has asked for them.      *)
LEMMA MemebankLinks ==
  ASSUME U!PubInv, NEW p \in PubRuns, order.tool = "memebank", runs[p].at = "first",
         NEW r \in U!ToSet(U!plan.records), r.kind = "monorepo", r.name = runs[p].repo
  PROVE  U!LinksThere(r)
<1>1. U!MemebankRun(p) BY MemeRun
<1>2. NamesDiffer BY <1>1 DEF U!MemebankRun, U!reconstruct, U!load_records, NamesDiffer
<1>3. U!Record(p) = r BY <1>2, RecordOf DEF U!Record
<1>4. \A path \in DOMAIN U!plan.links : path \in U!Names /\ U!plan.links[path] \in remote[path].objects
  BY <1>1, <1>3 DEF U!MemebankRun, U!IsMonorepo
<1>5. r.commit.links = U!plan.links
  <2>1. U!initialize(U!plan, r, order.checkouts[r.name].head.tree) = r.commit
    BY <1>1 DEF U!MemebankRun, U!reconstruct, U!validate_histories
  <2> QED BY <2>1 DEF U!initialize, U!amend_root_commit
<1>6. \A path \in DOMAIN r.commit.links : order.checkouts[r.name].modules[path] = path
  BY OrdersAssumption DEF U!ToSet, ToSet, U!PubInv, U!plan
<1> QED BY <1>4, <1>5, <1>6 DEF U!LinksThere

(* Main takes a tip with its line; the run goes on, or its answer is lost.  *)
LEMMA MemePushes ==
  ASSUME U!PubInv, NEW p \in PubRuns, order' = order, order.tool = "memebank",
         runs[p].at \notin {"idle", "done", "failed", "next", "ensure"},
         NEW tip, NEW line, tip \in line, remote' = U!Pushed(runs[p].repo, tip, line),
         \A r \in U!ToSet(U!plan.records) :
            r.kind = "monorepo" /\ r.name = runs[p].repo /\ r.commit \in line =>
               r.commit \in remote[r.name].history \/ r.commit.links = <<>> \/ U!LinksThere(r),
         U!record_failure(p) \/ \E at \in {"pushed", "provenance"} : U!Goes(p, at)
  PROVE  U!PubInv'
<1>1. U!reconstruct(U!plan) /\ (runs[p].repo \in U!Names => remote[runs[p].repo].exists)
  BY MemeKnows
<1>2. PICK name : name = runs[p].repo OBVIOUS
<1>3. /\ Grew
      /\ \A r \in U!ToSet(U!plan.records) :
            r.commit \in remote'[r.name].history =>
               r.commit \in remote[r.name].history \/ (r.name = name /\ r.commit \in line)
  <2>1. remote' = U!Pushed(name, tip, line) /\ (name \in U!Names => remote[name].exists)
    BY <1>1, <1>2
  <2> QED BY <2>1, PushedGrows
<1>4. \A r \in U!ToSet(U!plan.records) :
        r.kind = "monorepo" /\ r.commit \in remote'[r.name].history =>
           r.commit \in remote[r.name].history \/ r.commit.links = <<>> \/ U!LinksThere(r)
  BY <1>2, <1>3
<1>5. runs[p].repo \in U!Names => remote'[runs[p].repo].exists
  BY <1>1, <1>3 DEF Grew
<1>6. CASE U!record_failure(p)
  BY <1>1, <1>3, <1>4, <1>6, FailedRecord
<1>7. ASSUME NEW at \in {"pushed", "provenance"}, U!Goes(p, at) PROVE U!PubInv'
  BY <1>1, <1>3, <1>4, <1>5, <1>7, WentOn
<1> QED BY <1>6, <1>7

(* The approved history is pushed to an empty main.                        *)
LEMMA FirstPushStep == ASSUME U!PubInv, NEW p \in PubRuns, U!FirstPush(p) PROVE U!PubInv'
<1>1. order.tool = "memebank" /\ runs[p].at = "first" /\ UNCHANGED order
  BY DEF U!FirstPush, U!At
<1>2. CASE U!record_failure(p) /\ UNCHANGED remote
  BY <1>1, <1>2, MemeLooks
<1>3. CASE /\ remote' = U!Pushed(runs[p].repo, U!Record(p).commit, {U!Record(p).commit})
           /\ U!Goes(p, "pushed") \/ U!record_failure(p)
  <2>1. PICK tip, line : tip = U!Record(p).commit /\ line = {tip} OBVIOUS
  <2>2. remote' = U!Pushed(runs[p].repo, tip, line) /\ tip \in line BY <1>3, <2>1
  <2>3. \A r \in U!ToSet(U!plan.records) :
          r.kind = "monorepo" /\ r.name = runs[p].repo => U!LinksThere(r)
    BY <1>1, MemebankLinks
  <2> QED BY <1>1, <1>3, <2>2, <2>3, MemePushes
<1> QED BY <1>2, <1>3 DEF U!FirstPush

(* The approved head is sent on a branch of its own; main keeps its history.*)
LEMMA AttachStep == ASSUME U!PubInv, NEW p \in PubRuns, U!attach_e2e_source_history(p) PROVE U!PubInv'
<1>1. order.tool = "memebank" /\ runs[p].at = "attach" /\ UNCHANGED order
  BY DEF U!attach_e2e_source_history, U!At
<1>2. CASE U!record_failure(p) /\ UNCHANGED remote
  BY <1>1, <1>2, MemeLooks
<1>3. CASE /\ remote' = [remote EXCEPT ![runs[p].repo].objects = @ \union {U!Record(p).commit}]
           /\ \/ runs' = [runs EXCEPT ![p].at = "join", ![p].base = U!Target(p).main]
              \/ U!record_failure(p)
  <2>1. PICK name, rec : /\ name = runs[p].repo
                         /\ rec = [remote[name] EXCEPT !.objects = @ \union {U!Record(p).commit}]
    OBVIOUS
  <2>2. U!reconstruct(U!plan) /\ (name \in U!Names => remote[name].exists) /\ ~U!IsMonorepo(p)
    BY <1>1, <2>1, MemeKnows, MemeRun DEF U!MemebankRun
  <2>3. DOMAIN remote = U!Names
        /\ (name \in U!Names => /\ DOMAIN remote[name] = DOMAIN U!Absent
                                /\ remote[name].main = NULL \/ remote[name].main \in remote[name].objects)
    BY DEF U!PubInv, U!RemoteOK
  <2>4. remote' = [remote EXCEPT ![name] = rec] BY <1>3, <2>1, <2>3
  <2>5. name \in U!Names =>
          /\ DOMAIN rec = DOMAIN U!Absent
          /\ rec.main = NULL \/ rec.main \in rec.objects
          /\ rec.exists
          /\ remote[name].objects \subseteq rec.objects
          /\ rec.history = remote[name].history
    <3>1. PICK c : c = U!Record(p).commit OBVIOUS
    <3>2. rec = [remote[name] EXCEPT !.objects = @ \union {c}] BY <2>1, <3>1
    <3>3. name \in U!Names =>
            /\ DOMAIN rec = DOMAIN U!Absent /\ rec.main = remote[name].main
            /\ rec.history = remote[name].history /\ rec.exists = remote[name].exists
            /\ rec.objects = remote[name].objects \union {c}
      <4>1. name \in U!Names => DOMAIN remote[name] = DOMAIN U!Absent BY <2>3
      <4> HIDE <1>3, <2>1, <2>2, <2>3, <2>4, <3>1
      <4> QED BY <3>2, <4>1 DEF U!Absent
    <3> HIDE <2>1, <3>1, <3>2
    <3> QED BY <2>2, <2>3, <3>3
  <2>6. /\ Grew /\ (name \in U!Names => remote'[name] = rec)
        /\ \A r \in U!ToSet(U!plan.records) :
              r.commit \in remote'[r.name].history =>
                 r.commit \in remote[r.name].history \/ (r.name = name /\ r.commit \in rec.history)
    <3> HIDE <1>3, <2>1, <2>2, <2>3
    <3> QED BY <1>1, <2>4, <2>5, OneGrows
  <2>7. \A r \in U!ToSet(U!plan.records) : r.name \in U!Names
    BY OrdersAssumption DEF U!ToSet, ToSet, U!PubInv, U!Names, U!plan
  <2>8. \A r \in U!ToSet(U!plan.records) :
          r.commit \in remote'[r.name].history => r.commit \in remote[r.name].history
    BY <2>5, <2>6, <2>7
  <2>9. CASE U!record_failure(p)
    BY <1>1, <2>2, <2>6, <2>8, <2>9, FailedRecord
  <2>10. CASE runs' = [runs EXCEPT ![p].at = "join", ![p].base = U!Target(p).main]
    <3>1. PICK rn : rn = [runs[p] EXCEPT !.at = "join", !.base = U!Target(p).main] OBVIOUS
    <3>2. DOMAIN runs[p] = DOMAIN U!Idle /\ DOMAIN runs = PubRuns BY DEF U!PubInv
    <3>3. runs' = [runs EXCEPT ![p] = rn] /\ runs'[p] = rn BY <2>10, <3>1, <3>2 DEF U!Idle
    <3>4. DOMAIN rn = DOMAIN U!Idle /\ rn.at = "join" /\ rn.repo = runs[p].repo BY <3>1, <3>2 DEF U!Idle
    <3>5. runs[p].repo \in U!Names => remote'[runs[p].repo].exists BY <2>1, <2>5, <2>6
    <3>6. U!RunInv(p)' BY <1>1, <2>2, <2>6, <3>3, <3>4, <3>5, MemebankGoesOn
    <3> HIDE <1>3, <2>1, <2>2, <2>3
    <3> QED BY <2>6, <2>8, <3>3, <3>4, <3>6, RunMoved
  <2> QED BY <1>3, <2>9, <2>10
<1> QED BY <1>2, <1>3 DEF U!attach_e2e_source_history

(* The joined history belongs to no monorepo.                              *)
LEMMA JoinStep == ASSUME U!PubInv, NEW p \in PubRuns, U!JoinHistories(p) PROVE U!PubInv'
<1>1. order.tool = "memebank" /\ runs[p].at = "join" /\ UNCHANGED order
  BY DEF U!JoinHistories, U!At
<1>2. CASE U!record_failure(p) /\ UNCHANGED remote
  BY <1>1, <1>2, MemeLooks
<1>3. PICK joined : joined = U!amend_root_commit(runs[p].repo, "joined", U!NoLinks) OBVIOUS
<1>4. PICK line : line = U!Target(p).history \union {U!Record(p).commit, joined} OBVIOUS
<1>5. CASE /\ remote' = U!Pushed(runs[p].repo, joined, line)
           /\ U!Goes(p, "provenance") \/ U!record_failure(p)
  <2>1. ASSUME NEW r \in U!ToSet(U!plan.records), r.kind = "monorepo", r.name = runs[p].repo, r.commit \in line
        PROVE  r.commit \in remote[r.name].history \/ r.commit.links = <<>>
    <3>1. U!MemebankRun(p) BY <1>1, MemeRun
    <3>2. NamesDiffer BY <3>1 DEF U!MemebankRun, U!reconstruct, U!load_records, NamesDiffer
    <3>3. U!Record(p) = r BY <2>1, <3>2, RecordOf DEF U!Record
    <3> QED BY <1>1, <2>1, <3>1, <3>3 DEF U!MemebankRun, U!IsMonorepo
  <2>2. joined \in line BY <1>4
  <2> QED BY <1>1, <1>5, <2>1, <2>2, MemePushes
<1> QED BY <1>2, <1>3, <1>4, <1>5 DEF U!JoinHistories

(* A record that is published: the next one.                                *)
LEMMA PublishedRecord ==
  ASSUME U!PubInv, Grew, NEW p \in PubRuns, order.tool = "memebank", U!reconstruct(U!plan),
         runs' = [runs EXCEPT ![p].at = "next", ![p].published = @ \union {runs[p].repo}],
         \A r \in U!ToSet(U!plan.records) :
            r.kind = "monorepo" /\ r.commit \in remote'[r.name].history =>
               r.commit \in remote[r.name].history \/ r.commit.links = <<>> \/ U!LinksThere(r)
  PROVE  U!PubInv'
<1>1. PICK rn : rn = [runs[p] EXCEPT !.at = "next", !.published = @ \union {runs[p].repo}] OBVIOUS
<1>2. DOMAIN runs[p] = DOMAIN U!Idle /\ DOMAIN runs = PubRuns BY DEF U!PubInv
<1>3. runs' = [runs EXCEPT ![p] = rn] /\ runs'[p] = rn
  BY <1>1, <1>2 DEF U!Idle
<1>4. DOMAIN rn = DOMAIN U!Idle /\ rn.at = "next" BY <1>1, <1>2 DEF U!Idle
<1>5. U!RunInv(p)' BY <1>3, <1>4, MemebankGoesOn
<1> QED BY <1>3, <1>4, <1>5, RunMoved

(* The provenance commit has no gitlinks.                                  *)
LEMMA ProvenanceStep == ASSUME U!PubInv, NEW p \in PubRuns, U!publish_provenance_pr(p) PROVE U!PubInv'
<1> DEFINE result == runs' = [runs EXCEPT ![p].at = "next", ![p].published = @ \union {runs[p].repo}]
<1>1. order.tool = "memebank" /\ runs[p].at = "provenance" /\ UNCHANGED order
  BY DEF U!publish_provenance_pr, U!At
<1>2. U!reconstruct(U!plan) /\ (runs[p].repo \in U!Names => remote[runs[p].repo].exists)
  BY <1>1, MemeKnows
<1>3. CASE U!record_failure(p) /\ UNCHANGED remote
  BY <1>1, <1>3, MemeLooks
<1>4. CASE result /\ UNCHANGED remote
  BY <1>1, <1>2, <1>4, StillThere, PublishedRecord
<1>5. PICK name, noted : name = runs[p].repo /\ noted = U!amend_root_commit(name, "noted", U!NoLinks) OBVIOUS
<1>6. PICK line : line = remote[name].history \union {noted} OBVIOUS
<1>7. CASE /\ remote' = [U!Pushed(name, noted, line) EXCEPT ![name].provenance = TRUE]
           /\ result \/ U!record_failure(p)
  <2>1. PICK rec : rec = [remote[name] EXCEPT !.main = noted, !.history = line, !.objects = @ \union line,
                                              !.provenance = TRUE]
    OBVIOUS
  <2>2. DOMAIN remote = U!Names /\ (name \in U!Names => DOMAIN remote[name] = DOMAIN U!Absent)
    BY DEF U!PubInv, U!RemoteOK
  <2>3. remote' = [remote EXCEPT ![name] = rec]
    <3>1. PICK old : old = [remote[name] EXCEPT !.main = noted, !.history = line, !.objects = @ \union line]
      OBVIOUS
    <3>2. U!Pushed(name, noted, line) = [remote EXCEPT ![name] = old] BY <2>2, <3>1 DEF U!Pushed
    <3>3. rec = [old EXCEPT !.provenance = TRUE] BY <2>1, <3>1
    <3> QED BY <1>7, <2>2, <3>2, <3>3
  <2>4. name \in U!Names =>
          /\ DOMAIN rec = DOMAIN U!Absent /\ rec.main = noted /\ rec.history = line
          /\ rec.objects = remote[name].objects \union line /\ rec.exists = remote[name].exists
    BY <2>1, <2>2 DEF U!Absent
  <2>5. name \in U!Names =>
          /\ DOMAIN rec = DOMAIN U!Absent
          /\ rec.main = NULL \/ rec.main \in rec.objects
          /\ rec.exists
          /\ remote[name].objects \subseteq rec.objects
    BY <1>2, <1>5, <1>6, <2>4
  <2>6. /\ Grew
        /\ \A r \in U!ToSet(U!plan.records) :
              r.commit \in remote'[r.name].history =>
                 r.commit \in remote[r.name].history \/ (r.name = name /\ r.commit \in rec.history)
    <3> HIDE <1>5, <1>6, <1>7, <2>1, <2>4
    <3> QED BY <1>1, <2>3, <2>5, OneGrows
  <2>7. \A r \in U!ToSet(U!plan.records) : r.name \in U!Names
    BY OrdersAssumption DEF U!ToSet, ToSet, U!PubInv, U!Names, U!plan
  <2>8. noted.links = <<>> BY <1>5 DEF U!amend_root_commit, U!NoLinks
  <2>9. \A r \in U!ToSet(U!plan.records) :
          r.commit \in remote'[r.name].history => r.commit \in remote[r.name].history \/ r.commit.links = <<>>
    BY <1>6, <2>4, <2>6, <2>7, <2>8
  <2>10. CASE result
    BY <1>1, <1>2, <2>6, <2>9, <2>10, PublishedRecord
  <2>11. CASE U!record_failure(p)
    BY <1>1, <1>2, <2>6, <2>9, <2>11, FailedRecord
  <2> QED BY <1>7, <2>10, <2>11
<1> QED BY <1>3, <1>4, <1>5, <1>6, <1>7 DEF U!publish_provenance_pr, U!Target

(* Every step of the memebank tool.                                        *)
LEMMA MemebankStepKeeps == ASSUME U!PubInv, NEW p \in PubRuns, U!MemebankStep(p) PROVE U!PubInv'
BY RunPublicationStep, NextRecordStep, EnsurePrivateStep, TargetsStep, PushInitialStep, FirstPushStep,
   PushedIsThereStep, AttachStep, JoinStep, ProvenanceStep DEF U!MemebankStep

(* Other people: their commits hold no gitlinks.                            *)
LEMMA SomebodyStep ==
  ASSUME U!PubInv, NEW name \in U!Names, NEW commit \in {Commit("theirs"), Commit("recovered")},
         U!SomebodyPushes(name, commit)
  PROVE  U!PubInv'
<1>1. order' = order /\ runs' = runs BY DEF U!SomebodyPushes
<1>2. commit.links = <<>> BY DEF Commit
<1>3. PICK old, before, provenance :
        /\ old = IF remote[name].exists THEN remote[name] ELSE [U!Created EXCEPT !.settings = FALSE]
        /\ before \subseteq remote[name].history
        /\ remote' = [remote EXCEPT ![name] =
              [old EXCEPT !.main = commit, !.history = before \union {commit}, !.provenance = provenance,
                          !.objects = @ \union before \union {commit}]]
  <2> DEFINE here == IF remote[name].exists THEN remote[name] ELSE [U!Created EXCEPT !.settings = FALSE]
  <2>1. PICK over \in BOOLEAN :
          LET before == IF over THEN {} ELSE remote[name].history
          IN  remote' = [remote EXCEPT ![name] = [here EXCEPT
                  !.main = commit, !.history = before \union {commit},
                  !.provenance = here.provenance /\ ~over,
                  !.objects = @ \union before \union {commit}]]
    BY Zenon DEF U!SomebodyPushes
  <2> DEFINE before == IF over THEN {} ELSE remote[name].history
             kept == here.provenance /\ ~over
  <2>2. before \subseteq remote[name].history OBVIOUS
  <2>3. remote' = [remote EXCEPT ![name] =
           [here EXCEPT !.main = commit, !.history = before \union {commit}, !.provenance = kept,
                        !.objects = @ \union before \union {commit}]]
    BY <2>1, Zenon
  <2> HIDE DEF before, kept
  <2> QED BY <2>2, <2>3, Zenon
<1>4. PICK rec : rec = [old EXCEPT !.main = commit, !.history = before \union {commit},
                                   !.provenance = provenance, !.objects = @ \union before \union {commit}]
  OBVIOUS
<1>5. DOMAIN old = DOMAIN U!Absent /\ old.exists /\ remote[name].objects \subseteq old.objects
  <2>1. DOMAIN remote[name] = DOMAIN U!Absent /\ (remote[name].exists \/ remote[name].objects = {})
    BY DEF U!PubInv, U!RemoteOK
  <2>2. CASE remote[name].exists
    BY <1>3, <2>1, <2>2
  <2>3. CASE ~remote[name].exists
    <3>1. old = [U!Created EXCEPT !.settings = FALSE] BY <1>3, <2>3
    <3>2. DOMAIN old = DOMAIN U!Absent /\ old.exists BY <3>1 DEF U!Created, U!Absent
    <3> QED BY <2>1, <2>3, <3>2
  <2> QED BY <2>2, <2>3
<1>6. remote' = [remote EXCEPT ![name] = rec]
  BY <1>3, <1>4
<1>7. /\ DOMAIN rec = DOMAIN U!Absent /\ rec.main = commit /\ rec.history = before \union {commit}
      /\ rec.exists = old.exists /\ rec.objects = old.objects \union before \union {commit}
  BY <1>4, <1>5 DEF U!Absent
<1>8. /\ DOMAIN rec = DOMAIN U!Absent
      /\ rec.main = NULL \/ rec.main \in rec.objects
      /\ rec.exists
      /\ remote[name].objects \subseteq rec.objects
  BY <1>5, <1>7
<1>9. /\ Grew
      /\ \A r \in U!ToSet(U!plan.records) :
            r.commit \in remote'[r.name].history =>
               r.commit \in remote[r.name].history \/ (r.name = name /\ r.commit \in rec.history)
  <2> HIDE <1>3, <1>4
  <2> QED BY <1>1, <1>6, <1>8, OneGrows
<1>10. \A r \in U!ToSet(U!plan.records) :
         r.commit \in remote'[r.name].history => r.commit \in remote[r.name].history \/ r.commit.links = <<>>
  BY <1>2, <1>3, <1>7, <1>9
<1>11. \A q \in PubRuns : U!RunInv(q)'
  BY <1>1, <1>9, RunStays
<1>12. \A r \in U!ToSet(U!plan.records) :
         r.kind = "monorepo" /\ r.commit \in remote'[r.name].history => U!LinksThere(r)'
  BY <1>9, <1>10, LinksKept
<1>13. U!plan' = U!plan /\ U!ToSet(U!plan.records)' = U!ToSet(U!plan.records)
  BY <1>1 DEF U!plan, U!ToSet
<1> HIDE <1>3, <1>4, <1>6
<1> QED BY <1>1, <1>9, <1>11, <1>12, <1>13 DEF U!PubInv, Grew, U!Idle

(* Every step of both tools, and of other people.                          *)
LEMMA PubStep == ASSUME U!PubInv, U!PubNext PROVE U!PubInv'
<1>1. CASE \E p \in PubRuns : U!FleetStep(p) \/ U!MemebankStep(p) \/ U!Dies(p)
  BY <1>1, FleetStepKeeps, MemebankStepKeeps, DiesStep
<1>2. CASE \E name \in U!Names, commit \in {Commit("theirs"), Commit("recovered")} :
             U!SomebodyPushes(name, commit)
  BY <1>2, SomebodyStep
<1> QED BY <1>1, <1>2 DEF U!PubNext

(* The other parts of the model leave GitHub alone.                        *)
LEMMA PubStays == ASSUME U!PubInv, UNCHANGED U!pubvars PROVE U!PubInv'
<1>1. Grew /\ order' = order /\ runs' = runs /\ remote' = remote BY StillThere DEF U!pubvars
<1>2. \A q \in PubRuns : U!RunInv(q)' BY <1>1, RunStays
<1>3. \A r \in U!ToSet(U!plan.records) :
        r.kind = "monorepo" /\ r.commit \in remote'[r.name].history => U!LinksThere(r)'
  BY <1>1, LinksKept
<1>4. U!plan' = U!plan /\ U!ToSet(U!plan.records)' = U!ToSet(U!plan.records)
  BY <1>1 DEF U!plan, U!ToSet
<1> QED BY <1>1, <1>2, <1>3, <1>4 DEF U!PubInv, Grew, U!Idle

(* The invariant says what is to be shown.                                 *)
LEMMA PubResolves == ASSUME U!PubInv PROVE U!GitlinksResolve
BY DEF U!PubInv, U!LinksThere, U!GitlinksResolve

-----------------------------------------------------------------------------
(* The parts stand still while another one moves.                           *)

ReportInv ==
    /\ part = "mutations" => M!MutationInv
    /\ part = "evidence" => E!EvidenceInv
    /\ part = "guard" => G!GuardInv
    /\ part = "publication" => U!PubInv

(* Each part starts in its invariant.                                      *)
LEMMA ReportInitially == ASSUME Init PROVE ReportInv
<1>1. part = "mutations" => M!Init BY DEF Init
<1>2. part = "evidence" => E!Init BY DEF Init
<1>3. part = "guard" => G!GuardInit BY DEF Init
<1>4. part = "publication" => U!PubInit BY DEF Init
<1> QED BY <1>1, <1>2, <1>3, <1>4, MutationInitially, EvidenceInitially, GuardInitially, PubInitially
  DEF ReportInv

(* One part moves at a time.                                               *)
LEMMA ReportStep == ASSUME ReportInv, [Next]_vars PROVE ReportInv'
<1>1. CASE part = "mutations" /\ M!Next /\ UNCHANGED part
  BY <1>1, MutationStep DEF ReportInv
<1>2. CASE part = "evidence" /\ E!Next /\ UNCHANGED part
  BY <1>2, EvidenceStep DEF ReportInv
<1>3. CASE part = "guard" /\ G!GuardNext /\ UNCHANGED part
  BY <1>3, GuardStep DEF ReportInv
<1>4. CASE part = "publication" /\ U!PubNext /\ UNCHANGED part
  BY <1>4, PubStep DEF ReportInv
<1>5. CASE part \notin {"mutations", "evidence", "guard", "publication"} /\ UNCHANGED part
  BY <1>5 DEF ReportInv
<1>6. CASE UNCHANGED vars
  <2>1. UNCHANGED <<part, mvars, evars, guardvars, pubvars>> BY <1>6 DEF vars
  <2>2. M!MutationInv => M!MutationInv'
    BY <2>1 DEF mvars, M!MutationInv, M!KeyAcceptedOnce, M!Accepted
  <2>3. E!EvidenceInv => E!EvidenceInv'
    BY <2>1 DEF evars, E!EvidenceInv, E!WithinSeconds, E!age_seconds
  <2>4. G!GuardInv => G!GuardInv'
    BY <2>1 DEF guardvars, G!GuardInv, G!GuardTypeOK, G!Named
  <2>5. U!PubInv => U!PubInv'
    BY <2>1, PubStays DEF pubvars, U!pubvars
  <2> QED BY <2>1, <2>2, <2>3, <2>4, <2>5 DEF ReportInv
<1> QED BY <1>1, <1>2, <1>3, <1>4, <1>5, <1>6 DEF Next

(* The inductive invariant of the reports holds in every reachable state.  *)
THEOREM ReportInvariance == Spec => []ReportInv
BY ReportInitially, ReportStep, PTL DEF Spec

(* Writers that try only what a current report calls ready never have two   *)
(* changes accepted under one idempotency key.                              *)
THEOREM KeysOnce == Spec => []KeyAcceptedOnce
<1>1. ReportInv => KeyAcceptedOnce
  BY DEF ReportInv, KeyAcceptedOnce, M!MutationInv
<1> QED BY <1>1, ReportInvariance, PTL

(* What a report has called expired is admissible under that policy never   *)
(* again.                                                                   *)
THEOREM ExpiredForGood == Spec => []ExpiredStaysExpired
<1>1. ReportInv => ExpiredStaysExpired
  BY OldIsNotAdmissible DEF ReportInv, ExpiredStaysExpired
<1> QED BY <1>1, ReportInvariance, PTL

(* A clean exit of the merge guard is about the commits its arguments named *)
(* at one instant after the preview.                                        *)
THEOREM GuardIsRight == Spec => []PreviewIsOfTheInputs
<1>1. ReportInv => PreviewIsOfTheInputs
  BY DEF ReportInv, PreviewIsOfTheInputs, G!GuardInv, G!PreviewIsOfTheInputs
<1> QED BY <1>1, ReportInvariance, PTL

(* Every gitlink of a published monorepo names a commit that its repository *)
(* holds, whatever order the runs of both publishers came in, wherever they *)
(* died and whoever pushed in between.                                      *)
THEOREM LinksResolve == Spec => []GitlinksResolve
<1>1. ReportInv => GitlinksResolve
  BY PubResolves DEF ReportInv, GitlinksResolve
<1> QED BY <1>1, ReportInvariance, PTL
=============================================================================
