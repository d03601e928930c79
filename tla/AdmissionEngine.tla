--------------------------- MODULE AdmissionEngine ---------------------------
(***************************************************************************)
(* The repository as its files, and what writes them: the admission engine  *)
(* at the command line (validators/admit.py), which a crash may stop        *)
(* between any two files; the portal's worker in an isolated checkout       *)
(* (portal/registry_bridge/evaluate_worker.py); reservations, releases and  *)
(* edits by hand, of objects too.  Work is done on branches and lands on    *)
(* the default branch when git merges it, two changes of one record field   *)
(* by field, and the required check validates the merge.                    *)
(*                                                                         *)
(* A tree is a function from paths to contents; a path is a tuple of its    *)
(* directory, an identifier and, for history and receipts, one thing more.  *)
(***************************************************************************)
EXTENDS RegistryChecks, Sequences, FiniteSetsExt, Functions

CONSTANTS
    Branches,
    Seed,         \* the repository to start from
    Works,        \* records handed to the engine, and written by hand
    Proposals,    \* sources proposed with them: partial functions of SourceIds
    Edits,        \* edits by hand of governing and source records
    Reserved,     \* receipt numbers the portal has reserved
    MaxSteps      \* bound of evaluations, crashes, edits and releases together

VARIABLES
    main,     \* the tree of the default branch
    base,     \* base[b]: the commit the branch was cut from
    tree,     \* tree[b]: its working tree
    run,      \* run[b]: the engine process on it
    runs,     \* evaluations started: the stamp that tells two apart
    edits,    \* edits, releases and crashes
    bare      \* history: records registered without a bundle of their own

vars == <<main, base, tree, run, runs, edits, bare>>

-----------------------------------------------------------------------------
(* Paths, and what validators/loader.py reads under them.                   *)
Object(o) == <<"objects", o>>

History(o, version) == <<"history", o, version>>

Ledger(v) == <<"reservations", v>>

Manifest(k) == <<"manifests", k>>

Member(n, decision, kind) ==
    IF kind = "execution" THEN <<"executions", n>> ELSE <<decision, n, kind>>

(* Receipt and release numbers.                                             *)
Numbers == 1..MaxSteps

LedgerStates == {"reserved", "published", "withdrawn"}

(* files with the files of new written over them.                            *)
Over(new, files) ==
    [p \in DOMAIN new \cup DOMAIN files |-> IF p \in DOMAIN new THEN new[p] ELSE files[p]]

Under(files, directory) == {p[2] : p \in {q \in DOMAIN files : q[1] = directory}}

Dir(files, directory) == [x \in Under(files, directory) |-> files[<<directory, x>>]]

Load(files) ==
    [authors |-> Under(files, "authors"), objects |-> Dir(files, "objects"),
     sources |-> Dir(files, "sources"), relations |-> Dir(files, "relations"),
     governing |-> Dir(files, "governing")]

(* load_receipts: of one number in two directories the last one read stays.  *)
ReceiptOf(files, n) ==
    LET has(d) == Member(n, d, "json") \in DOMAIN files
    IN  CASE has("REJECTED") -> "REJECTED"
          [] has("RETURNED_FOR_REPAIR") -> "RETURNED_FOR_REPAIR"
          [] has("ACCEPTED") -> "ACCEPTED"
          [] OTHER -> "none"

LoadReceipts(files) ==
    {[id |-> files[Member(n, ReceiptOf(files, n), "json")].record.id, number |-> n,
      decision |-> ReceiptOf(files, n)] : n \in {x \in Numbers : ReceiptOf(files, x) # "none"}}

(* released_governing_hashes: a later manifest overrides an earlier one.     *)
Released(files) ==
    LET naming(g) == {k \in Under(files, "manifests") : g \in DOMAIN files[Manifest(k)].hashes}
    IN  [g \in {x \in Governing : naming(x) # {}} |-> files[Manifest(Max(naming(g)))].hashes[g]]

Committed(files) ==
    UNION {Under(files, d) : d \in {"authors", "objects", "sources", "relations", "governing"}}
      \cup {x.number : x \in LoadReceipts(files)}

Validate(files) ==
    ValidateRegistry(Load(files), Released(files), LoadReceipts(files), Committed(files),
                     Dir(files, "reservations"))

-----------------------------------------------------------------------------
(* next_receipt_id: above every number a file or the ledger holds.           *)
UsedNumbers(files) ==
    {p[2] : p \in {q \in DOMAIN files : q[1] \in Decisions}}
      \cup (Under(files, "reservations") \ (Objects \cup SourceIds))

NextReceipt_FromZero(files) ==
    IF UsedNumbers(files) = {} THEN 0 ELSE Max(UsedNumbers(files)) + 1

NextReceipt(files) == IF UsedNumbers(files) = {} THEN 1 ELSE Max(UsedNumbers(files)) + 1

(* The repository to start from is one before its first receipt and its      *)
(* first release, whose registry passes the checks.  Governing and source   *)
(* records are edited at will; objects by hand only as the contributors'    *)
(* guide asks (Preserve, Revise).                                           *)
ASSUME EngineAssumption ==
    /\ MaxSteps \in Nat
    /\ Works \subseteq Record
    /\ Reserved \subseteq 1..MaxSteps
    /\ \A proposed \in Proposals : DOMAIN proposed \subseteq SourceIds
    /\ \A files \in Edits : \A p \in DOMAIN files :
          p = <<p[1], p[2]>> /\ p[1] \in {"governing", "sources"}

ASSUME SeedAssumption ==
    /\ \A p \in DOMAIN Seed :
          /\ p = <<p[1], p[2]>>
          /\ p[1] \in {"authors", "objects", "sources", "relations", "governing", "reservations"}
          /\ p[1] = "objects" => Seed[p] \in Record
          /\ p[1] = "reservations" =>
                p[2] \in Objects \cup SourceIds \cup Numbers /\ Seed[p] \in LedgerStates
    /\ Validate(Seed) = {}

-----------------------------------------------------------------------------
(* The members of a bundle, in the order they are moved into place.          *)
Bundle_ManifestFirst == <<"execution", "json", "md", "submission">>

Bundle == <<"json", "md", "submission", "execution">>

Members(x) == {Member(x.number, x.content.decision, kind) : kind \in Range(Bundle)}

(* write_receipt_bundle refuses another decision's directory and any member  *)
(* with other content.                                                      *)
BundleConflict_ByDirectory(files, x) ==
    \E d \in Decisions \ {x.content.decision} : Member(x.number, d, "json") \in DOMAIN files

BundleConflict(files, x) ==
    \/ \E d \in Decisions \ {x.content.decision} : Member(x.number, d, "json") \in DOMAIN files
    \/ \E p \in Members(x) \cap DOMAIN files : files[p] # x.content

Moved(files, x, kind) ==
    LET p == Member(x.number, x.content.decision, kind)
    IN  IF p \in DOMAIN files THEN files ELSE Filed(p, x.content, files)

(* register_object: a registered state is archived before another version    *)
(* is written over it.                                                      *)
RegisterConflict(files, r) ==
    /\ Object(r.id) \in DOMAIN files
    /\ LET old == files[Object(r.id)]
           past == History(r.id, old.version)
       IN  \/ old # r /\ old.version = r.version
           \/ old # r /\ past \in DOMAIN files /\ files[past] # old

Archived_Unkept(files, r) == files

Archived(files, r) ==
    IF Object(r.id) \in DOMAIN files /\ files[Object(r.id)] # r
    THEN Filed(History(r.id, files[Object(r.id)].version), files[Object(r.id)], files)
    ELSE files

Written(files, r) == Filed(Object(r.id), r, files)

(* mark_state.                                                              *)
Marked(files, v, state) ==
    IF Ledger(v) \in DOMAIN files THEN Filed(Ledger(v), state, files) ELSE files

-----------------------------------------------------------------------------
Idle == [step |-> "idle"]

TypeOK ==
    /\ runs + edits \in 0..MaxSteps /\ bare \subseteq Record
    /\ \A b \in Branches :
         run[b].step \in {"idle", "bundle", "archive", "write", "publish", "pushed"}
    /\ \A files \in {main} \cup Range(tree) :
         /\ UsedNumbers(files) \subseteq Numbers
         /\ \A o \in Under(files, "objects") : files[Object(o)] \in Record
         /\ \A v \in Under(files, "reservations") : files[Ledger(v)] \in LedgerStates

Init ==
    /\ main = Seed
    /\ base = [b \in Branches |-> Seed] /\ tree = [b \in Branches |-> Seed]
    /\ run = [b \in Branches |-> Idle]
    /\ runs = 0 /\ edits = 0 /\ bare = {}

Become(b, files) == tree' = [tree EXCEPT ![b] = files]

Go(b, step) == run' = [run EXCEPT ![b].step = step]

(* A fresh checkout of the default branch.                                  *)
Checkout(b) ==
    /\ run[b].step \in {"idle", "pushed"} /\ <<base[b], tree[b]>> # <<main, main>>
    /\ base' = [base EXCEPT ![b] = main]
    /\ Become(b, main)
    /\ run' = [run EXCEPT ![b] = Idle]
    /\ UNCHANGED <<main, runs, edits, bare>>

(* evaluate_and_write, one action per file it touches: --write the bundle,   *)
(* --register the object.                                                   *)
Content(r, files) ==
    [record |-> r, decision |-> Decision(Evaluation(r, Load(files))), stamp |-> runs + 1]

Admit(b, r, register) ==
    /\ run[b].step = "idle" /\ runs + edits < MaxSteps /\ NextReceipt(tree[b]) <= MaxSteps
    /\ run' = [run EXCEPT ![b] = [step |-> "bundle", number |-> NextReceipt(tree[b]),
                                  content |-> Content(r, tree[b]), left |-> Bundle,
                                  register |-> register]]
    /\ runs' = runs + 1
    /\ UNCHANGED <<main, base, tree, edits, bare>>

(* --register without --write: no receipt, no number (0), no bundle.         *)
Register(b, r) ==
    /\ run[b].step = "idle" /\ runs + edits < MaxSteps
    /\ Content(r, tree[b]).decision = "ACCEPTED"
    /\ run' = [run EXCEPT ![b] = [step |-> "archive", number |-> 0,
                                  content |-> Content(r, tree[b]), left |-> << >>,
                                  register |-> TRUE]]
    /\ runs' = runs + 1
    /\ UNCHANGED <<main, base, tree, edits, bare>>

AfterMember(b) ==
    IF Len(run[b].left) > 1 THEN "bundle"
    ELSE IF run[b].content.decision = "ACCEPTED" /\ run[b].register THEN "archive" ELSE "idle"

MoveMember(b) ==
    /\ run[b].step = "bundle" /\ run[b].left # << >>
    /\ ~BundleConflict(tree[b], run[b])
    /\ Become(b, Moved(tree[b], run[b], Head(run[b].left)))
    /\ run' = [run EXCEPT ![b].left = Tail(@),
                          ![b].step = AfterMember(b)]
    /\ UNCHANGED <<main, base, runs, edits, bare>>

Archive(b) ==
    /\ run[b].step = "archive" /\ ~RegisterConflict(tree[b], run[b].content.record)
    /\ Become(b, Archived(tree[b], run[b].content.record))
    /\ Go(b, "write")
    /\ UNCHANGED <<main, base, runs, edits, bare>>

Write(b) ==
    /\ run[b].step = "write"
    /\ Become(b, Written(tree[b], run[b].content.record))
    /\ Go(b, "publish")
    /\ bare' = IF run[b].number = 0 THEN bare \cup {run[b].content.record} ELSE bare
    /\ UNCHANGED <<main, base, runs, edits>>

Publish(b) ==
    /\ run[b].step = "publish"
    /\ Become(b, Marked(tree[b], run[b].content.record.id, "published"))
    /\ Go(b, "idle")
    /\ UNCHANGED <<main, base, runs, edits, bare>>

(* The process dies, or raises what a conflict makes it raise: what it wrote *)
(* stays in the working tree.                                               *)
Crash(b) ==
    /\ run[b].step \in {"bundle", "archive", "write", "publish"} /\ runs + edits < MaxSteps
    /\ Go(b, "idle")
    /\ edits' = edits + 1
    /\ UNCHANGED <<main, base, tree, runs, bare>>

-----------------------------------------------------------------------------
(* The worker's whole run; when it reports a conflict, an invalid dependency *)
(* or base, or an error, its checkout is thrown away.                       *)
WithSources(files, proposed) ==
    Over([p \in {<<"sources", s>> : s \in DOMAIN proposed} |-> proposed[p[2]]], files)

DependencyConflict(files, proposed) ==
    \E s \in DOMAIN proposed : <<"sources", s>> \in DOMAIN files /\ files[<<"sources", s>>] # proposed[s]

(* The ledger files of the submission's identities, those of dependencies    *)
(* that are there now published.                                            *)
WithLedger(files, values) ==
    Over([p \in {Ledger(v) : v \in values} \ DOMAIN files |-> "reserved"], files)

LedgerPublished(files, values, number) ==
    [p \in DOMAIN files |->
       IF /\ p[1] = "reservations" /\ p[2] \in values /\ files[p] = "reserved"
          /\ p[2] \in Under(files, "sources") \cup Under(files, "objects") \cup {number}
       THEN "published" ELSE files[p]]

Bundled(files, x) == Over([p \in Members(x) \ DOMAIN files |-> x.content], files)

WithObject(files, r) == Written(Archived(files, r), r)

(* n is the number the portal has reserved for the receipt.                  *)
Work(b, r, n, proposed) ==
    LET values == {r.id, n} \cup DOMAIN proposed
        prepared == LedgerPublished(WithLedger(WithSources(base[b], proposed), values), values, 0)
        content == Content(r, prepared)
        x == [number |-> n, content |-> content]
        bundled == Bundled(prepared, x)
        registered == IF content.decision = "ACCEPTED"
                      THEN Marked(WithObject(bundled, r), r.id, "published") ELSE bundled
    IN  /\ run[b].step = "idle" /\ tree[b] = base[b] /\ runs + edits < MaxSteps
        /\ ~DependencyConflict(base[b], proposed)
        /\ Validate(prepared) = {}
        /\ ~BundleConflict(prepared, x)
        /\ content.decision = "ACCEPTED" => ~RegisterConflict(bundled, r)
        /\ Become(b, LedgerPublished(registered, values, n))
        /\ run' = [run EXCEPT ![b] = [step |-> "pushed"]]
        /\ runs' = runs + 1
        /\ UNCHANGED <<main, base, edits, bare>>

-----------------------------------------------------------------------------
(* Contributors: a reservation of an object id, its withdrawal, an edit of   *)
(* governing or source records, a release.                                  *)
Reserve(b, o) ==
    /\ run[b].step = "idle" /\ runs + edits < MaxSteps
    /\ o \notin Under(tree[b], "objects") \cup {p[2] : p \in {q \in DOMAIN tree[b] : q[1] = "history"}}
    /\ o \notin {x.id : x \in LoadReceipts(tree[b])} /\ Ledger(o) \notin DOMAIN tree[b]
    /\ Become(b, Filed(Ledger(o), "reserved", tree[b]))
    /\ edits' = edits + 1
    /\ UNCHANGED <<main, base, run, runs, bare>>

Withdraw(b, o) ==
    /\ run[b].step = "idle" /\ runs + edits < MaxSteps
    /\ Ledger(o) \in DOMAIN tree[b] /\ tree[b][Ledger(o)] = "reserved"
    /\ Become(b, Marked(tree[b], o, "withdrawn"))
    /\ edits' = edits + 1
    /\ UNCHANGED <<main, base, run, runs, bare>>

Edit(b, files) ==
    /\ run[b].step = "idle" /\ runs + edits < MaxSteps
    /\ Become(b, Over(files, tree[b])) /\ tree'[b] # tree[b]
    /\ edits' = edits + 1
    /\ UNCHANGED <<main, base, run, runs, bare>>

(* Objects by hand (CONTRIBUTING 2.4, 6.1, 8.4): a new one is simply added;  *)
(* the state of one that is there is first put into the history, then        *)
(* written over with a higher version.                                      *)
Add(b, r) ==
    /\ run[b].step = "idle" /\ runs + edits < MaxSteps
    /\ Object(r.id) \notin DOMAIN tree[b]
    /\ Become(b, Written(tree[b], r))
    /\ bare' = bare \cup {r}
    /\ edits' = edits + 1
    /\ UNCHANGED <<main, base, run, runs>>

Preserve(b, o) ==
    /\ run[b].step = "idle" /\ runs + edits < MaxSteps
    /\ Object(o) \in DOMAIN tree[b]
    /\ History(o, tree[b][Object(o)].version) \notin DOMAIN tree[b]
    /\ Become(b, Filed(History(o, tree[b][Object(o)].version), tree[b][Object(o)], tree[b]))
    /\ edits' = edits + 1
    /\ UNCHANGED <<main, base, run, runs, bare>>

Revise(b, r) ==
    /\ run[b].step = "idle" /\ Object(r.id) \in DOMAIN tree[b]
    /\ LET old == tree[b][Object(r.id)]
           past == History(r.id, old.version)
       IN  past \in DOMAIN tree[b] /\ tree[b][past] = old /\ r.version > old.version
    /\ Become(b, Written(tree[b], r))
    /\ bare' = bare \cup {r}
    /\ UNCHANGED <<main, base, run, runs, edits>>

(* build_release_manifest: what was released keeps the hash it was released  *)
(* with.  A manifest is never written over.  (after, the manifests it was    *)
(* cut after, is for ReleasedIsKept alone.)                                 *)
Hashes_Fresh(files) == [g \in Under(files, "governing") |-> files[<<"governing", g>>].content]

Hashes(files) ==
    Over(Released(files), [g \in Under(files, "governing") |-> files[<<"governing", g>>].content])

Release(b, k) ==
    /\ run[b].step = "idle" /\ runs + edits < MaxSteps /\ Manifest(k) \notin DOMAIN tree[b]
    /\ Become(b, Filed(Manifest(k), [hashes |-> Hashes(tree[b]), after |-> Under(tree[b], "manifests")],
                       tree[b]))
    /\ edits' = edits + 1
    /\ UNCHANGED <<main, base, run, runs, bare>>

-----------------------------------------------------------------------------
(* git's merge of the branch into the default branch.  A record that both    *)
(* changed is merged field by field: git merges lines, and two fields are   *)
(* never on one line (on adjacent lines it may still report a conflict).    *)
Side(files, p) == IF p \in DOMAIN files THEN <<files[p]>> ELSE << >>

Changed(b) == {p \in DOMAIN tree[b] : Side(tree[b], p) # Side(base[b], p)}

ChangedTwice(b) ==
    {p \in Changed(b) : Side(main, p) # Side(base[b], p) /\ Side(main, p) # Side(tree[b], p)}

(* x is what the two were changed from.                                     *)
Clash(x, y, z) == \E f \in DOMAIN x : y[f] # x[f] /\ z[f] # x[f] /\ y[f] # z[f]

Blend(x, y, z) == [f \in DOMAIN x |-> IF y[f] = x[f] THEN z[f] ELSE y[f]]

Parts(r) == [id |-> r.id, title |-> r.title, version |-> r.version, gaps |-> r.gaps,
             supersedes |-> r.supersedes]

ObjectClash(x, y, z) ==
    Clash(Parts(x), Parts(y), Parts(z)) \/ Clash(x.state, y.state, z.state) \/ Clash(x.refs, y.refs, z.refs)

BlendedObject(x, y, z) ==
    LET parts == Blend(Parts(x), Parts(y), Parts(z))
    IN  [id |-> parts.id, title |-> parts.title, version |-> parts.version, gaps |-> parts.gaps,
         supersedes |-> parts.supersedes, state |-> Blend(x.state, y.state, z.state),
         refs |-> Blend(x.refs, y.refs, z.refs)]

Blends(b, p) ==
    /\ p \in DOMAIN base[b] \cap DOMAIN main
    /\ CASE p[1] = "objects" -> ~ObjectClash(base[b][p], main[p], tree[b][p])
         [] p[1] \in {"sources", "governing"} -> ~Clash(base[b][p], main[p], tree[b][p])
         [] OTHER -> FALSE

MergeConflict(b) == \E p \in ChangedTwice(b) : ~Blends(b, p)

MergedFile(b, p) ==
    IF p \notin ChangedTwice(b) THEN tree[b][p]
    ELSE IF p[1] = "objects" THEN BlendedObject(base[b][p], main[p], tree[b][p])
    ELSE Blend(base[b][p], main[p], tree[b][p])

Merged(b) == Over([p \in Changed(b) |-> MergedFile(b, p)], main)

(* The objects that neither side had.                                       *)
Mixed(b) ==
    {Merged(b)[p] : p \in {q \in ChangedTwice(b) :
        q[1] = "objects" /\ Merged(b)[q] \notin {main[q], tree[b][q]}}}

(* The merge of a pull request.  The portal's own is merged at the commit it *)
(* was evaluated against, and evaluated again when that has moved.          *)
Land(b) ==
    /\ run[b].step \in {"idle", "pushed"} /\ tree[b] # base[b]
    /\ run[b].step = "pushed" => main = base[b]
    /\ ~MergeConflict(b)
    /\ Validate(Merged(b)) = {}
    /\ main' = Merged(b)
    /\ base' = [base EXCEPT ![b] = main']
    /\ Become(b, main')
    /\ run' = [run EXCEPT ![b] = Idle]
    /\ bare' = bare \cup Mixed(b)
    /\ UNCHANGED <<runs, edits>>

Next ==
    \E b \in Branches :
        \/ Checkout(b)
        \/ \E r \in Works, register \in BOOLEAN : Admit(b, r, register)
        \/ \E r \in Works : Register(b, r)
        \/ MoveMember(b)
        \/ Archive(b)
        \/ Write(b)
        \/ Publish(b)
        \/ Crash(b)
        \/ \E r \in Works, n \in Reserved, proposed \in Proposals : Work(b, r, n, proposed)
        \/ \E o \in Objects : Reserve(b, o) \/ Withdraw(b, o) \/ Preserve(b, o)
        \/ \E r \in Works : Add(b, r) \/ Revise(b, r)
        \/ \E files \in Edits : Edit(b, files)
        \/ \E k \in Numbers : Release(b, k)
        \/ Land(b)

Spec == Init /\ [][Next]_vars

-----------------------------------------------------------------------------
(* verify_manifest_against_snapshot: what an execution manifest says of its  *)
(* snapshot and of its receipt.                                             *)
Discrepancy(files, n) ==
    \E p \in DOMAIN files :
        /\ p[2] = n /\ p[1] \in Decisions \cup {"executions"}
        /\ p = Member(n, files[p].decision, "execution")
        /\ LET manifest == files[p]
               snapshot == Member(n, manifest.decision, "submission")
           IN  \/ snapshot \notin DOMAIN files
               \/ files[snapshot].record # manifest.record
               \/ ReceiptOf(files, n) # manifest.decision

(* What the default branch has of a receipt in one decision's directory is   *)
(* one run's, though runs crash between its files and two allocators give   *)
(* out numbers; and an execution manifest stands beside the whole bundle of *)
(* its run, with which it agrees but for a receipt that a crashed run left  *)
(* under the number in another decision's directory.                        *)
OneRunPerReceipt ==
    \A n \in Numbers :
        /\ \A d \in Decisions, kind, other \in Range(Bundle) \ {"execution"} :
             {Member(n, d, kind), Member(n, d, other)} \subseteq DOMAIN main =>
                main[Member(n, d, kind)] = main[Member(n, d, other)]
        /\ <<"executions", n>> \in DOMAIN main =>
             LET manifest == main[<<"executions", n>>]
             IN  /\ \A kind \in Range(Bundle) :
                       LET p == Member(n, manifest.decision, kind)
                       IN  p \in DOMAIN main /\ main[p] = manifest
                 /\ Discrepancy(main, n) =>
                       \E d \in Decisions \ {manifest.decision} : Member(n, d, "json") \in DOMAIN main

(* An object on the default branch has its complete accepted bundle there,   *)
(* but for states that were registered without one: by --register alone, by *)
(* hand, or by git from two changes.                                        *)
RegisteredIsAccepted ==
    \A o \in Under(main, "objects") :
        \/ Object(o) \in DOMAIN Seed /\ main[Object(o)] = Seed[Object(o)]
        \/ main[Object(o)] \in bare
        \/ \E n \in Numbers : \A kind \in Range(Bundle) :
              LET p == Member(n, "ACCEPTED", kind)
              IN  p \in DOMAIN main /\ main[p].record = main[Object(o)]

(* A state once on the default branch stays: as the current one, or in the   *)
(* history, which is never rewritten; unless git blends another change into *)
(* it, made from the state before it.                                       *)
StatesAreKept ==
    [][/\ \A o \in Under(main, "objects") :
            \/ \E p \in {Object(o), History(o, main[Object(o)].version)} :
                  p \in DOMAIN main' /\ main'[p] = main[Object(o)]
            \/ \E b \in Branches : Object(o) \in ChangedTwice(b) /\ main' = Merged(b)
       /\ \A p \in DOMAIN main : p[1] = "history" => p \in DOMAIN main' /\ main'[p] = main[p]]_vars

(* What a governing record said when it was first released it says for good, *)
(* unless a release was cut with the record edited from a checkout that has  *)
(* not that manifest: then the two disagree and the higher version wins.    *)
ReleasedIsKept ==
    [][\A g \in DOMAIN Released(main) :
         \/ main'[<<"governing", g>>].content = Released(main)[g]
         \/ \E j, k \in Under(main', "manifests") :
               LET one == main'[Manifest(j)]
                   other == main'[Manifest(k)]
               IN  /\ g \in DOMAIN one.hashes \cap DOMAIN other.hashes
                   /\ one.hashes[g] # other.hashes[g]
                   /\ j \notin other.after /\ k \notin one.after]_vars

=============================================================================
