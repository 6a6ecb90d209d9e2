------------------------- MODULE SemanticMergeGuard -------------------------
(* scripts/semantic_merge_guard.py previews the merge of two commits of a    *)
(* local repository in a throw-away worktree and says whether the result may *)
(* be opened for review.  Others use the repository meanwhile: they move the *)
(* branches and the remote-tracking refs and check out another branch.       *)
(* Commits are numbers: objects never change, only what a ref names does, so *)
(* everything between the guard's first looks at the refs and its last ones  *)
(* reads immutable objects and is one step.                                  *)
EXTENDS Naturals, Sequences, SequencesExt

CONSTANTS Branches,      \* the names under refs/heads
          Tracking,      \* other refs an argument may name (refs/remotes)
          Calls,         \* the command lines: records [base, head] of arguments
          Merged,        \* the files a clean merge may leave changed
          MaxMoves       \* bound on what others do to the refs

VARIABLES refs,      \* what each ref names; 0 when it does not exist
          checkout,  \* the branch HEAD is attached to
          moves,     \* how often others changed a ref or the checkout
          guard,     \* the run of the guard
          agreed,    \* both arguments named what was previewed, after the preview
          output     \* the report file

guardvars == <<refs, checkout, moves, guard, agreed, output>>

NoReport == [status |-> "none", open |-> FALSE, base |-> FALSE, head |-> FALSE]

(* The heads that head_refs lists.                                         *)
head_refs == [b \in Branches |-> refs[b]]

(* What an argument names now: a full identity names itself.               *)
Named(a) ==
    CASE a.kind = "sha" -> a.sha
      [] a.ref = "HEAD" -> refs[checkout]
      [] OTHER -> refs[a.ref]

(***************************************************************************)
(* The scan of the files a clean merge changed.                             *)
(***************************************************************************)

(* A name that a sequence of declarations repeats.                         *)
Repeats(names) == \E i, j \in DOMAIN names : i < j /\ names[i] = names[j]

(* duplicate_json_keys: the keys an object gives twice.                    *)
duplicate_json_keys(file) == Repeats(file.names)

(* scan_rust walks the lines with the depth of the braces: a module name    *)
(* declared twice anywhere, a field name twice in a block.  Entering a      *)
(* block, and leaving one, forgets the fields seen at its depth.            *)
RustLine(s, line) ==
    LET fields == [s.fields EXCEPT ![s.depth] =
                     IF line.kind = "field" THEN @ \union {line.name} ELSE @]
        opened == s.depth + line.opens
        closed == IF line.closes > opened THEN 0 ELSE opened - line.closes
    IN [modules |-> IF line.kind = "mod" THEN s.modules \union {line.name}
                    ELSE s.modules,
        fields |-> [d \in DOMAIN fields |->
                      IF d \in (s.depth + 1)..opened \/ d \in (closed + 1)..opened
                      THEN {} ELSE fields[d]],
        depth |-> closed,
        found |-> \/ s.found
                  \/ line.kind = "mod" /\ line.name \in s.modules
                  \/ line.kind = "field" /\ line.name \in s.fields[s.depth]]

MaxDepth == 3

scan_rust(file) ==
    FoldLeft(RustLine,
             [modules |-> {}, fields |-> [d \in 0..MaxDepth |-> {}],
              depth |-> 0, found |-> FALSE],
             file.lines).found

(* Files that are no regular file, too large, or binary are not scanned.   *)
read_small_text(file) == file.regular /\ ~ file.large /\ ~ file.binary

semantic_findings(file) ==
    /\ read_small_text(file)
    /\ \/ file.markers
       \/ file.suffix = "toml" /\ Repeats(file.names)
       \/ file.suffix = "json" /\ (~ file.parses \/ duplicate_json_keys(file))
       \/ file.suffix = "rs" /\ scan_rust(file)

(***************************************************************************)
(* The run: each look at a mutable ref is a step.                           *)
(***************************************************************************)

GuardInit ==
    /\ checkout \in Branches
    /\ refs \in [Branches \union Tracking -> {1, 2}]
    /\ moves = 0
    /\ agreed = FALSE
    /\ output = NoReport
    /\ guard \in {[step |-> "head", call |-> c, original |-> 0,
                   before |-> head_refs, base |-> 0, head |-> 0,
                   report |-> NoReport, code |-> 3] : c \in Calls}

(* A git command that fails raises GuardError; so does a name that does not *)
(* resolve.  main() turns every exception into a guard_error report.        *)
Raised == [guard EXCEPT !.step = "write", !.code = 3,
                        !.report = [NoReport EXCEPT !.status = "guard_error"]]

(* resolve_commit: the run goes on with the commit a name stands for, or    *)
(* raises.                                                                  *)
resolve_commit(a, found) == guard' = IF Named(a) = 0 THEN Raised ELSE found

HEAD == [kind |-> "ref", ref |-> "HEAD", sha |-> 0]

LookAtHead ==
    /\ guard.step = "head"
    /\ resolve_commit(HEAD, [guard EXCEPT !.step = "refs", !.original = Named(HEAD)])
    /\ UNCHANGED <<refs, checkout, moves, agreed, output>>

LookAtRefs ==
    /\ guard.step = "refs"
    /\ guard' = [guard EXCEPT !.step = "base", !.before = head_refs]
    /\ UNCHANGED <<refs, checkout, moves, agreed, output>>

ResolveBase ==
    /\ guard.step = "base"
    /\ resolve_commit(guard.call.base,
                      [guard EXCEPT !.step = "tip", !.base = Named(guard.call.base)])
    /\ UNCHANGED <<refs, checkout, moves, agreed, output>>

ResolveHead ==
    /\ guard.step = "tip"
    /\ resolve_commit(guard.call.head,
                      [guard EXCEPT !.step = "preview", !.head = Named(guard.call.head)])
    /\ UNCHANGED <<refs, checkout, moves, agreed, output>>

(* The verdict on the merge: unmerged paths, a file with findings (or one   *)
(* that git diff --check objects to), or a clean preview.                   *)
Verdict(outcome, files, tidy) ==
    CASE outcome = "conflicts" ->
           [status |-> "manual_resolution_required", open |-> FALSE, code |-> 2]
      [] outcome = "merged" /\ (~ tidy \/ \E f \in files : semantic_findings(f)) ->
           [status |-> "semantic_validation_failed", open |-> FALSE, code |-> 2]
      [] OTHER -> [status |-> "clean_preview", open |-> TRUE, code |-> 0]

(* The merge base, the review surface, the histories, the worktree, the     *)
(* merge without a commit and the scan; then the worktree goes away.  No    *)
(* ref is written.  Commits without a common ancestor, and a merge that     *)
(* fails without unmerged paths, raise.                                     *)
Preview ==
    /\ guard.step = "preview"
    /\ \/ \E outcome \in {"conflicts", "merged"}, files \in SUBSET Merged,
             tidy \in BOOLEAN :
            LET v == Verdict(outcome, files, tidy)
            IN guard' = [guard EXCEPT !.step = "head again", !.code = v.code,
                          !.report = [status |-> v.status, open |-> v.open,
                                      base |-> FALSE, head |-> FALSE]]
       \/ guard' = Raised
    /\ UNCHANGED <<refs, checkout, moves, agreed, output>>

Mutated == [guard EXCEPT !.report.status = "source_repository_mutated", !.code = 3]

LookAtHeadAgain ==
    /\ guard.step = "head again"
    /\ resolve_commit(HEAD,
         [(IF Named(HEAD) # guard.original THEN Mutated ELSE guard) EXCEPT !.step = "refs again"])
    /\ UNCHANGED <<refs, checkout, moves, agreed, output>>

LookAtRefsAgain ==
    /\ guard.step = "refs again"
    /\ guard' = [(IF head_refs # guard.before THEN Mutated ELSE guard)
                   EXCEPT !.step = "base again"]
    /\ UNCHANGED <<refs, checkout, moves, agreed, output>>

(* Whether an argument still names what was previewed.  A branch would have *)
(* shown in the comparison of the heads; a remote-tracking ref would not.   *)
StableBranchesOnly(a, expected) == a.kind # "ref" \/ a.ref \in Tracking \/ Named(a) = expected
ref_stable(a, expected) == Named(a) = expected

(* A moved ref spoils the exit code and the status, and leaves the flag     *)
(* safe_to_open_review_pr as the preview set it.                            *)
Recheck(a, expected, field, then) ==
    guard' =
      IF Named(a) = 0 THEN Raised
      ELSE IF ref_stable(a, expected)
      THEN [guard EXCEPT !.step = then, !.report[field] = TRUE]
      ELSE [guard EXCEPT !.step = then, !.code = 3,
                         !.report.status = "input_ref_moved"]

RecheckBase ==
    /\ guard.step = "base again"
    /\ Recheck(guard.call.base, guard.base, "base", "head ref again")
    /\ agreed' = (/\ Named(guard.call.base) = guard.base
                  /\ Named(guard.call.head) = guard.head)
    /\ UNCHANGED <<refs, checkout, moves, output>>

RecheckHead ==
    /\ guard.step = "head ref again"
    /\ Recheck(guard.call.head, guard.head, "head", "write")
    /\ UNCHANGED <<refs, checkout, moves, agreed, output>>

(* The report replaces the file in one rename, or the write fails, which    *)
(* leaves the file as it was and ends the program with the exception.       *)
write_report ==
    /\ guard.step = "write"
    /\ \/ output' = guard.report /\ guard' = [guard EXCEPT !.step = "over"]
       \/ output' = output /\ guard' = [guard EXCEPT !.step = "over", !.code = 1]
    /\ UNCHANGED <<refs, checkout, moves, agreed>>

(* Others: a new commit on a branch or a fetch, a ref deleted, a checkout.  *)
RefMoves(r) ==
    /\ moves < MaxMoves /\ guard.step # "over"
    /\ moves' = moves + 1
    /\ \/ refs' = [refs EXCEPT ![r] = 2 + moves']
       \/ refs[r] # 0 /\ r # checkout /\ refs' = [refs EXCEPT ![r] = 0]
    /\ UNCHANGED <<checkout, guard, agreed, output>>

Checkout(b) ==
    /\ moves < MaxMoves /\ guard.step # "over"
    /\ b # checkout /\ refs[b] # 0
    /\ checkout' = b
    /\ moves' = moves + 1
    /\ UNCHANGED <<refs, guard, agreed, output>>

GuardNext ==
    \/ LookAtHead \/ LookAtRefs \/ ResolveBase \/ ResolveHead \/ Preview
    \/ LookAtHeadAgain \/ LookAtRefsAgain \/ RecheckBase \/ RecheckHead
    \/ write_report
    \/ \E r \in Branches \union Tracking : RefMoves(r)
    \/ \E b \in Branches : Checkout(b)

(* A clean exit is about the arguments: at an instant after the preview was *)
(* made, both of them named the two commits that were merged, although the  *)
(* guard looks at one after the other and others move refs between any two  *)
(* of its looks.  (HEAD itself as the candidate can be checked out away and *)
(* back between two looks, which no look notices.)                          *)
PreviewIsOfTheInputs ==
    guard.step = "over" /\ guard.code = 0 /\ guard.call.head.ref # "HEAD" => agreed

Steps == {"head", "refs", "base", "tip", "preview", "head again", "refs again",
          "base again", "head ref again", "write", "over"}
Statuses == {"none", "guard_error", "manual_resolution_required", "semantic_validation_failed",
             "clean_preview", "source_repository_mutated", "input_ref_moved"}
Reports == [status : Statuses, open : BOOLEAN, base : BOOLEAN, head : BOOLEAN]

GuardTypeOK ==
    /\ refs \in [Branches \union Tracking -> Nat]
    /\ checkout \in Branches
    /\ moves \in Nat
    /\ agreed \in BOOLEAN
    /\ guard \in [step : Steps, call : Calls, original : Nat, before : [Branches -> Nat],
                  base : Nat, head : Nat, code : Nat, report : Reports]

(* A ref that moves names something newer than all there was, or nothing:   *)
(* once it no longer names what was previewed it never does again.  So if   *)
(* the arguments did not agree with the preview when the guard looked at    *)
(* the first one, it has noticed, or the second still differs.              *)
GuardInv ==
    /\ GuardTypeOK
    /\ \A r \in Branches \union Tracking : refs[r] <= 2 + moves
    /\ guard.step \in {"preview", "head again", "refs again", "base again", "head ref again"}
         => /\ guard.head # 0
            /\ guard.call.head.kind = "ref" => guard.head <= 2 + moves
    /\ guard.step \in {"head ref again", "write", "over"} =>
         \/ agreed \/ guard.code # 0 \/ guard.call.head.ref = "HEAD"
         \/ guard.step = "head ref again" /\ Named(guard.call.head) # guard.head
=============================================================================
