----------------------- MODULE AdmissionEngineProofs -----------------------
(***************************************************************************)
(* Theorems about AdmissionEngine, for every seed, every set of works,       *)
(* proposals, edits and branches and every bound.                           *)
(***************************************************************************)
EXTENDS AdmissionEngine, TLAPS, FiniteSetTheorems, WellFoundedInduction

-----------------------------------------------------------------------------
(* Paths and the files under them.                                          *)
Kinds == {"json", "md", "submission", "execution"}

Lefts ==
    {Bundle, <<"md", "submission", "execution">>, <<"submission", "execution">>, <<"execution">>,
     << >>}

LEMMA KindsOfBundle == Range(Bundle) = Kinds
BY DEF Bundle, Range, Kinds

LEMMA PathParts ==
    /\ \A o : Object(o)[1] = "objects" /\ Object(o)[2] = o
    /\ \A o, v : History(o, v)[1] = "history" /\ History(o, v)[2] = o
    /\ \A v : Ledger(v)[1] = "reservations" /\ Ledger(v)[2] = v
    /\ \A k : Manifest(k)[1] = "manifests" /\ Manifest(k)[2] = k
    /\ \A d, x : <<d, x>>[1] = d /\ <<d, x>>[2] = x
BY DEF Object, History, Ledger, Manifest

LEMMA MemberParts ==
    ASSUME NEW n, NEW d \in Decisions, NEW kind
    PROVE  /\ Member(n, d, kind)[2] = n
           /\ Member(n, d, kind)[1] = IF kind = "execution" THEN "executions" ELSE d
           /\ kind = "execution" => Member(n, d, kind) = <<"executions", n>>
BY DEF Member

(* What is left of a bundle when its first file is moved.                   *)
LEMMA HeadAndTail ==
    ASSUME NEW left \in Lefts, left # << >>
    PROVE  /\ Head(left) \in Kinds /\ Tail(left) \in Lefts
           /\ Range(left) = Range(Tail(left)) \cup {Head(left)}
           /\ Len(left) <= 1 => Range(Tail(left)) = {}
           /\ \A kind \in Kinds :
                 kind # Head(left) /\ (kind = "json" \/ Head(left) = "execution") =>
                    kind \notin Range(left)
<1>1. CASE left = <<"json", "md", "submission", "execution">>
  <2>1. Head(left) = "json" /\ Tail(left) = <<"md", "submission", "execution">> /\ Len(left) = 4
    BY <1>1
  <2>2. Range(left) = Kinds /\ Range(Tail(left)) = {"md", "submission", "execution"}
    BY <1>1, <2>1 DEF Range, Kinds
  <2>3. QED BY <2>1, <2>2 DEF Kinds, Lefts
<1>2. CASE left = <<"md", "submission", "execution">>
  <2>1. Head(left) = "md" /\ Tail(left) = <<"submission", "execution">> /\ Len(left) = 3
    BY <1>2
  <2>2. /\ Range(left) = {"md", "submission", "execution"}
        /\ Range(Tail(left)) = {"submission", "execution"}
    BY <1>2, <2>1 DEF Range
  <2>3. QED BY <2>1, <2>2 DEF Kinds, Lefts
<1>3. CASE left = <<"submission", "execution">>
  <2>1. Head(left) = "submission" /\ Tail(left) = <<"execution">> /\ Len(left) = 2
    BY <1>3
  <2>2. Range(left) = {"submission", "execution"} /\ Range(Tail(left)) = {"execution"}
    BY <1>3, <2>1 DEF Range
  <2>3. QED BY <2>1, <2>2 DEF Kinds, Lefts
<1>4. CASE left = <<"execution">>
  <2>1. Head(left) = "execution" /\ Tail(left) = << >>
    BY <1>4
  <2>2. Range(left) = {"execution"}
    BY <1>4 DEF Range
  <2>3. Range(<< >>) = {}
    BY DEF Range
  <2>4. QED BY <2>1, <2>2, <2>3 DEF Kinds, Lefts
<1>5. QED BY <1>1, <1>2, <1>3, <1>4 DEF Lefts, Bundle

-----------------------------------------------------------------------------
(* What a tree holds.                                                       *)
Plain == {"authors", "sources", "relations", "governing"}

Contents == [record: Works, decision: Decisions, stamp: 1..MaxSteps]

States == Record

(* The file at a path is what its directory says.                           *)
FileStands(p, v) ==
    /\ p[1] \in Plain => p = <<p[1], p[2]>>
    /\ p[1] = "objects" => p = Object(p[2]) /\ v \in States
    /\ p[1] = "reservations" =>
          p = Ledger(p[2]) /\ p[2] \in Numbers \cup Objects \cup SourceIds /\ v \in LedgerStates
    /\ p[1] = "manifests" => p = Manifest(p[2]) /\ p[2] \in Numbers
    /\ p[1] \in Decisions => p[2] \in Numbers /\ v \in Contents /\ v.decision = p[1]
    /\ p[1] = "executions" => p = <<"executions", p[2]>> /\ v \in Contents

TreeStands(files) == \A p \in DOMAIN files : FileStands(p, files[p])

(* Reading one file.                                                        *)
LEMMA FiledReads ==
    ASSUME NEW x, NEW v, NEW files
    PROVE  /\ DOMAIN Filed(x, v, files) = DOMAIN files \cup {x}
           /\ \A p \in DOMAIN files \cup {x} :
                 Filed(x, v, files)[p] = IF p = x THEN v ELSE files[p]
BY DEF Filed

LEMMA OverReads ==
    ASSUME NEW new, NEW files
    PROVE  /\ DOMAIN Over(new, files) = DOMAIN new \cup DOMAIN files
           /\ \A p \in DOMAIN new \cup DOMAIN files :
                 Over(new, files)[p] = IF p \in DOMAIN new THEN new[p] ELSE files[p]
BY DEF Over

LEMMA FiledStands ==
    ASSUME NEW x, NEW v, NEW files, TreeStands(files), FileStands(x, v)
    PROVE  TreeStands(Filed(x, v, files))
<1> SUFFICES ASSUME NEW p \in DOMAIN Filed(x, v, files)
             PROVE  FileStands(p, Filed(x, v, files)[p])
  BY DEF TreeStands
<1>1. p \in DOMAIN files \cup {x}
  BY FiledReads
<1>2. Filed(x, v, files)[p] = IF p = x THEN v ELSE files[p]
  BY <1>1 DEF Filed
<1>3. p # x => FileStands(p, files[p])
  BY <1>1 DEF TreeStands
<1>4. CASE p = x
  BY <1>2, <1>4
<1>5. CASE p # x
  BY <1>2, <1>3, <1>5
<1>6. QED BY <1>4, <1>5

LEMMA OverStands ==
    ASSUME NEW new, NEW files, TreeStands(files), TreeStands(new)
    PROVE  TreeStands(Over(new, files))
<1> SUFFICES ASSUME NEW p \in DOMAIN Over(new, files)
             PROVE  FileStands(p, Over(new, files)[p])
  BY DEF TreeStands
<1>1. p \in DOMAIN new \cup DOMAIN files
  BY OverReads
<1>2. Over(new, files)[p] = IF p \in DOMAIN new THEN new[p] ELSE files[p]
  BY <1>1 DEF Over
<1>3. CASE p \in DOMAIN new
  <2>1. Over(new, files)[p] = new[p]
    BY <1>2, <1>3
  <2>2. QED BY <1>3, <2>1 DEF TreeStands
<1>4. CASE p \notin DOMAIN new
  <2>1. Over(new, files)[p] = files[p] /\ p \in DOMAIN files
    BY <1>1, <1>2, <1>4
  <2>2. QED BY <2>1 DEF TreeStands
<1>5. QED BY <1>3, <1>4

LEMMA DecisionTyped ==
    ASSUME NEW details
    PROVE  Decision(details) \in Decisions
BY DEF Decision, Decisions

(* A member of a bundle.                                                    *)
LEMMA MemberStands ==
    ASSUME NEW n \in Numbers, NEW c \in Contents, NEW kind
    PROVE  FileStands(Member(n, c.decision, kind), c)
<1>1. c.decision \in Decisions
  BY DEF Contents
<1>2. CASE kind = "execution"
  <2>1. Member(n, c.decision, kind) = <<"executions", n>>
    BY <1>2 DEF Member
  <2>2. QED BY <2>1 DEF FileStands, Plain, Decisions
<1>3. CASE kind # "execution"
  <2>1. /\ Member(n, c.decision, kind)[1] = c.decision
        /\ Member(n, c.decision, kind)[2] = n
    BY <1>3 DEF Member
  <2>2. QED BY <1>1, <2>1 DEF FileStands, Plain, Decisions
<1>4. QED BY <1>2, <1>3

LEMMA LedgerStands ==
    ASSUME NEW v \in Numbers \cup Objects \cup SourceIds, NEW s \in LedgerStates
    PROVE  FileStands(Ledger(v), s)
BY PathParts DEF FileStands, Plain, Decisions, Ledger

LEMMA ObjectStands ==
    ASSUME NEW o, NEW r \in States
    PROVE  FileStands(Object(o), r)
BY PathParts DEF FileStands, Plain, Decisions, Object

LEMMA HistoryStands ==
    ASSUME NEW o, NEW n, NEW r
    PROVE  FileStands(History(o, n), r)
BY PathParts DEF FileStands, Plain, Decisions, History

LEMMA ManifestStands ==
    ASSUME NEW k \in Numbers, NEW m
    PROVE  FileStands(Manifest(k), m)
BY PathParts DEF FileStands, Plain, Decisions, Manifest

LEMMA PlainStands ==
    ASSUME NEW d \in Plain, NEW x, NEW v
    PROVE  FileStands(<<d, x>>, v)
BY DEF FileStands, Plain, Decisions

-----------------------------------------------------------------------------
(* Numbers.  A nonempty set of them has a greatest: the end of the smallest   *)
(* interval from one of them up.                                            *)
LEMMA GreatestExists ==
    ASSUME NEW S \in SUBSET Numbers, S # {}
    PROVE  Max(S) \in S /\ \A y \in S : Max(S) >= y
<1>1. MaxSteps \in Nat
  BY EngineAssumption
<1> DEFINE T == {i..MaxSteps : i \in S}
<1>2. \A i \in S : i \in Nat /\ i <= MaxSteps /\ i..MaxSteps \in SUBSET Nat /\ IsFiniteSet(i..MaxSteps)
  BY <1>1, FS_Interval DEF Numbers
<1>3. T \subseteq FiniteSubsetsOf(Nat) /\ T # {}
  BY <1>2 DEF FiniteSubsetsOf
<1>4. PICK t \in T : \A u \in T : <<u, t>> \notin StrictSubsetOrdering(Nat)
  <2> HIDE DEF T
  <2> QED BY <1>3, WFMin, FS_StrictSubsetOrderingWellFounded
<1>5. PICK x \in S : t = x..MaxSteps
  OBVIOUS
<1>6. ASSUME NEW y \in S PROVE x >= y
  <2>1. <<y..MaxSteps, t>> \notin StrictSubsetOrdering(Nat)
    BY <1>4
  <2>2. ~(y..MaxSteps \subseteq x..MaxSteps /\ y..MaxSteps # x..MaxSteps)
    BY <1>5, <2>1, <1>2 DEF StrictSubsetOrdering
  <2>3. x \in Nat /\ y \in Nat /\ x <= MaxSteps
    BY <1>2
  <2>4. ASSUME x < y PROVE FALSE
    <3>1. \A i \in y..MaxSteps : i \in x..MaxSteps
      BY <1>1, <2>3, <2>4
    <3>2. x \in x..MaxSteps
      BY <1>1, <2>3
    <3>3. x \notin y..MaxSteps
      BY <1>1, <2>3, <2>4
    <3>4. QED BY <2>2, <3>1, <3>2, <3>3
  <2>5. QED BY <2>3, <2>4
<1>7. \E z \in S : \A y \in S : z >= y
  BY <1>6
<1>8. QED BY <1>7 DEF Max

LEMMA NumbersOfTree ==
    ASSUME NEW files, TreeStands(files)
    PROVE  /\ UsedNumbers(files) \subseteq Numbers
           /\ Under(files, "manifests") \subseteq Numbers
           /\ NextReceipt(files) \in Nat \ {0}
<1>1. ASSUME NEW n \in UsedNumbers(files) PROVE n \in Numbers
  <2>1. CASE n \in {p[2] : p \in {q \in DOMAIN files : q[1] \in Decisions}}
    <3>1. PICK p \in DOMAIN files : p[1] \in Decisions /\ n = p[2]
      BY <2>1
    <3>2. QED BY <3>1 DEF TreeStands, FileStands
  <2>2. CASE n \in Under(files, "reservations") \ (Objects \cup SourceIds)
    <3>1. PICK p \in DOMAIN files : p[1] = "reservations" /\ n = p[2]
      BY <2>2 DEF Under
    <3>2. QED BY <2>2, <3>1 DEF TreeStands, FileStands
  <2>3. QED BY <1>1, <2>1, <2>2 DEF UsedNumbers
<1>2. ASSUME NEW k \in Under(files, "manifests") PROVE k \in Numbers
  <2>1. PICK p \in DOMAIN files : p[1] = "manifests" /\ k = p[2]
    BY DEF Under
  <2>2. QED BY <2>1 DEF TreeStands, FileStands
<1>3. NextReceipt(files) \in Nat \ {0}
  <2>1. CASE UsedNumbers(files) = {}
    BY <2>1 DEF NextReceipt
  <2>2. CASE UsedNumbers(files) # {}
    <3>1. Max(UsedNumbers(files)) \in Numbers
      BY <1>1, <2>2, GreatestExists
    <3>2. PICK m : m = Max(UsedNumbers(files))
      OBVIOUS
    <3>3. m \in Nat
      BY <3>1, <3>2, EngineAssumption DEF Numbers
    <3>4. QED BY <2>2, <3>2, <3>3 DEF NextReceipt
  <2>3. QED BY <2>1, <2>2
<1>4. QED BY <1>1, <1>2, <1>3

-----------------------------------------------------------------------------
(* What each operation writes stands.                                       *)
Values == Numbers \cup Objects \cup SourceIds

LEMMA WorkIds ==
    ASSUME NEW r \in Works
    PROVE  r.id \in Values /\ r \in States
BY EngineAssumption DEF Values, States, Record

LEMMA MarkedStands ==
    ASSUME NEW files, TreeStands(files), NEW v \in Values, NEW s \in LedgerStates
    PROVE  TreeStands(Marked(files, v, s))
BY LedgerStands, FiledStands DEF Marked, Values

LEMMA WithSourcesStands ==
    ASSUME NEW files, TreeStands(files), NEW proposed
    PROVE  TreeStands(WithSources(files, proposed))
<1> DEFINE paths == {<<"sources", s>> : s \in DOMAIN proposed}
           new == [p \in paths |-> proposed[p[2]]]
<1>1. \A p \in paths : FileStands(p, new[p])
  BY PlainStands DEF Plain
<1>2. TreeStands(new)
  BY <1>1 DEF TreeStands
<1> QED BY <1>2, OverStands DEF WithSources

LEMMA WithLedgerStands ==
    ASSUME NEW files, TreeStands(files), NEW values \in SUBSET Values
    PROVE  TreeStands(WithLedger(files, values))
<1> DEFINE new == [p \in {Ledger(v) : v \in values} \ DOMAIN files |-> "reserved"]
<1>1. \A v \in values : FileStands(Ledger(v), "reserved")
  BY LedgerStands DEF Values, LedgerStates
<1>2. \A p \in DOMAIN new : FileStands(p, new[p])
  BY <1>1
<1>3. TreeStands(new)
  BY <1>2 DEF TreeStands
<1> QED BY <1>3, OverStands DEF WithLedger

LEMMA LedgerPublishedStands ==
    ASSUME NEW files, TreeStands(files), NEW values, NEW number
    PROVE  TreeStands(LedgerPublished(files, values, number))
<1> DEFINE new == LedgerPublished(files, values, number)
<1> SUFFICES ASSUME NEW p \in DOMAIN files PROVE FileStands(p, new[p])
  BY DEF LedgerPublished, TreeStands
<1>1. FileStands(p, files[p])
  BY DEF TreeStands
<1>2. new[p] = files[p] \/ (p[1] = "reservations" /\ new[p] = "published")
  BY DEF LedgerPublished
<1>3. ASSUME p[1] = "reservations" PROVE FileStands(p, "published")
  <2>1. p = Ledger(p[2]) /\ p[2] \in Numbers \cup Objects \cup SourceIds
    BY <1>1, <1>3 DEF FileStands
  <2>2. "published" \in LedgerStates
    BY DEF LedgerStates
  <2>3. FileStands(Ledger(p[2]), "published")
    BY <2>1, <2>2, LedgerStands
  <2> QED BY <2>1, <2>3
<1> HIDE DEF new
<1> QED BY <1>1, <1>2, <1>3

LEMMA BundledStands ==
    ASSUME NEW files, TreeStands(files), NEW n \in Numbers, NEW c \in Contents, NEW x,
           x.number = n, x.content = c
    PROVE  TreeStands(Bundled(files, x))
<1> DEFINE new == [p \in Members(x) \ DOMAIN files |-> x.content]
<1>1. \A p \in Members(x) : FileStands(p, c)
  BY MemberStands DEF Members
<1>2. TreeStands(new)
  BY <1>1 DEF TreeStands
<1> QED BY <1>2, OverStands DEF Bundled

LEMMA MovedStands ==
    ASSUME NEW files, TreeStands(files), NEW x, x.number \in Numbers, x.content \in Contents,
           NEW kind
    PROVE  TreeStands(Moved(files, x, kind))
BY FiledStands, MemberStands DEF Moved

LEMMA ArchivedStands ==
    ASSUME NEW files, TreeStands(files), NEW r
    PROVE  TreeStands(Archived(files, r))
BY FiledStands, HistoryStands DEF Archived

LEMMA WrittenStands ==
    ASSUME NEW files, TreeStands(files), NEW r \in Works
    PROVE  TreeStands(Written(files, r))
BY FiledStands, ObjectStands, WorkIds DEF Written

LEMMA WithObjectStands ==
    ASSUME NEW files, TreeStands(files), NEW r \in Works
    PROVE  TreeStands(WithObject(files, r))
BY ArchivedStands, WrittenStands DEF WithObject

-----------------------------------------------------------------------------
(* Types.                                                                   *)
Pushed == [step |-> "pushed"]

EngineRun ==
    {x \in [step: {"idle", "bundle", "archive", "write", "publish"}, number: Numbers \cup {0},
            content: Contents, left: Lefts, register: BOOLEAN] :
        x.step = "bundle" => x.number \in Numbers}

RunTyped(r) == r = Idle \/ r = Pushed \/ r \in EngineRun

Typed ==
    /\ DOMAIN base = Branches /\ DOMAIN tree = Branches /\ DOMAIN run = Branches
    /\ runs \in Nat /\ edits \in Nat /\ runs + edits <= MaxSteps
    /\ TreeStands(main)
    /\ \A b \in Branches : TreeStands(base[b]) /\ TreeStands(tree[b]) /\ RunTyped(run[b])
    /\ bare \subseteq Record

(* The step leaves branch b with these files and this run, and the others    *)
(* alone.                                                                   *)
Leaves(b, files, r) ==
    /\ DOMAIN tree' = Branches /\ DOMAIN run' = Branches
    /\ tree'[b] = files /\ run'[b] = r
    /\ \A c \in Branches \ {b} : tree'[c] = tree[c] /\ run'[c] = run[c]

LEMMA LeavesThem ==
    ASSUME Typed, NEW b \in Branches, NEW files, NEW r,
           Become(b, files), run' = [run EXCEPT ![b] = r]
    PROVE  Leaves(b, files, r)
BY DEF Typed, Become, Leaves

LEMMA LeavesRun ==
    ASSUME Typed, NEW b \in Branches, NEW files,
           Become(b, files), UNCHANGED run
    PROVE  Leaves(b, files, run[b])
BY DEF Typed, Become, Leaves

LEMMA LeavesAtStep ==
    ASSUME Typed, NEW b \in Branches, NEW files, NEW step,
           Become(b, files), Go(b, step)
    PROVE  Leaves(b, files, [run[b] EXCEPT !.step = step])
BY DEF Typed, Become, Go, Leaves

LEMMA LeavesTree ==
    ASSUME Typed, NEW b \in Branches, NEW r,
           UNCHANGED tree, run' = [run EXCEPT ![b] = r]
    PROVE  Leaves(b, tree[b], r)
BY DEF Typed, Leaves

(* Which runs can be at a step.                                             *)
LEMMA RunAtStep ==
    ASSUME NEW r, RunTyped(r), r.step \in {"bundle", "archive", "write", "publish"}
    PROVE  r \in EngineRun
BY DEF RunTyped, Idle, Pushed

LEMMA SteppedRun ==
    ASSUME NEW r \in EngineRun, NEW step \in {"idle", "archive", "write", "publish"}
    PROVE  [r EXCEPT !.step = step] \in EngineRun
BY DEF EngineRun

LEMMA ContentTyped ==
    ASSUME Typed, NEW r \in Works, NEW files, runs + edits < MaxSteps
    PROVE  Content(r, files) \in Contents
<1>1. runs + 1 \in 1..MaxSteps
  BY EngineAssumption DEF Typed
<1>2. Decision(Evaluation(r, Load(files))) \in Decisions
  BY DecisionTyped
<1>3. QED BY <1>1, <1>2 DEF Content, Contents

NewRun(b, r, register) ==
    [step |-> "bundle", number |-> NextReceipt(tree[b]), content |-> Content(r, tree[b]),
     left |-> Bundle, register |-> register]

BareRun(b, r) ==
    [step |-> "archive", number |-> 0, content |-> Content(r, tree[b]), left |-> << >>,
     register |-> TRUE]

LEMMA AdmitLeaves ==
    ASSUME Typed, NEW b \in Branches, NEW r \in Works, NEW register \in BOOLEAN,
           Admit(b, r, register)
    PROVE  Leaves(b, tree[b], NewRun(b, r, register)) /\ NewRun(b, r, register) \in EngineRun
<1>1. Leaves(b, tree[b], NewRun(b, r, register))
  BY LeavesTree DEF Admit, NewRun
<1>2. NextReceipt(tree[b]) \in Numbers
  <2>1. NextReceipt(tree[b]) \in Nat \ {0} /\ NextReceipt(tree[b]) <= MaxSteps
    BY NumbersOfTree DEF Typed, Admit
  <2>2. QED BY <2>1, EngineAssumption DEF Numbers
<1>3. Content(r, tree[b]) \in Contents
  BY ContentTyped DEF Admit
<1>4. Bundle \in Lefts
  BY DEF Lefts
<1>5. QED BY <1>1, <1>2, <1>3, <1>4 DEF NewRun, EngineRun

LEMMA RegisterLeaves ==
    ASSUME Typed, NEW b \in Branches, NEW r \in Works, Register(b, r)
    PROVE  Leaves(b, tree[b], BareRun(b, r)) /\ BareRun(b, r) \in EngineRun
<1>1. Leaves(b, tree[b], BareRun(b, r))
  BY LeavesTree DEF Register, BareRun
<1>2. Content(r, tree[b]) \in Contents
  BY ContentTyped DEF Register
<1>3. << >> \in Lefts
  BY DEF Lefts
<1>4. QED BY <1>1, <1>2, <1>3 DEF BareRun, EngineRun

MovedRun(b) == [run[b] EXCEPT !.left = Tail(run[b].left), !.step = AfterMember(b)]

LEMMA MoveMemberLeaves ==
    ASSUME Typed, NEW b \in Branches, MoveMember(b)
    PROVE  /\ run[b] \in EngineRun /\ MovedRun(b) \in EngineRun
           /\ Leaves(b, Moved(tree[b], run[b], Head(run[b].left)), MovedRun(b))
<1>1. run[b] \in EngineRun
  BY RunAtStep DEF MoveMember, Typed
<1>2. run' = [run EXCEPT ![b] = MovedRun(b)]
  BY DEF MoveMember, MovedRun
<1>3. Leaves(b, Moved(tree[b], run[b], Head(run[b].left)), MovedRun(b))
  BY <1>2, LeavesThem DEF MoveMember
<1>4. AfterMember(b) \in {"idle", "bundle", "archive"}
  BY DEF AfterMember
<1>5. Tail(run[b].left) \in Lefts
  <2>1. run[b].left \in Lefts /\ run[b].left # << >>
    BY <1>1 DEF EngineRun, MoveMember
  <2>2. QED BY <2>1, HeadAndTail
<1>6. MovedRun(b) \in EngineRun
  BY <1>1, <1>4, <1>5 DEF MovedRun, EngineRun, MoveMember
<1>7. QED BY <1>1, <1>3, <1>6

LEMMA ArchiveLeaves ==
    ASSUME Typed, NEW b \in Branches, Archive(b)
    PROVE  /\ run[b] \in EngineRun /\ [run[b] EXCEPT !.step = "write"] \in EngineRun
           /\ Leaves(b, Archived(tree[b], run[b].content.record), [run[b] EXCEPT !.step = "write"])
<1>1. run[b] \in EngineRun
  BY RunAtStep DEF Archive, Typed
<1>2. QED BY <1>1, SteppedRun, LeavesAtStep DEF Archive

LEMMA WriteLeaves ==
    ASSUME Typed, NEW b \in Branches, Write(b)
    PROVE  /\ run[b] \in EngineRun /\ [run[b] EXCEPT !.step = "publish"] \in EngineRun
           /\ Leaves(b, Written(tree[b], run[b].content.record), [run[b] EXCEPT !.step = "publish"])
<1>1. run[b] \in EngineRun
  BY RunAtStep DEF Write, Typed
<1>2. QED BY <1>1, SteppedRun, LeavesAtStep DEF Write

LEMMA PublishLeaves ==
    ASSUME Typed, NEW b \in Branches, Publish(b)
    PROVE  /\ run[b] \in EngineRun /\ [run[b] EXCEPT !.step = "idle"] \in EngineRun
           /\ Leaves(b, Marked(tree[b], run[b].content.record.id, "published"),
                     [run[b] EXCEPT !.step = "idle"])
<1>1. run[b] \in EngineRun
  BY RunAtStep DEF Publish, Typed
<1>2. QED BY <1>1, SteppedRun, LeavesAtStep DEF Publish

LEMMA CrashLeaves ==
    ASSUME Typed, NEW b \in Branches, Crash(b)
    PROVE  /\ run[b] \in EngineRun /\ [run[b] EXCEPT !.step = "idle"] \in EngineRun
           /\ Leaves(b, tree[b], [run[b] EXCEPT !.step = "idle"])
<1>1. run[b] \in EngineRun
  BY RunAtStep DEF Crash, Typed
<1>2. run' = [run EXCEPT ![b] = [run[b] EXCEPT !.step = "idle"]] /\ UNCHANGED tree
  BY DEF Crash, Go
<1>3. QED BY <1>1, <1>2, SteppedRun, LeavesTree

(* The stages of the worker's run.                                          *)
WorkValues(b, r, n, proposed) == {r.id, n} \cup DOMAIN proposed

Prepared(b, r, n, proposed) ==
    LedgerPublished(WithLedger(WithSources(base[b], proposed), WorkValues(b, r, n, proposed)),
                    WorkValues(b, r, n, proposed), 0)

WorkBundle(b, r, n, proposed) ==
    [number |-> n, content |-> Content(r, Prepared(b, r, n, proposed))]

WorkBundled(b, r, n, proposed) == Bundled(Prepared(b, r, n, proposed), WorkBundle(b, r, n, proposed))

WorkRegistered(b, r, n, proposed) ==
    IF WorkBundle(b, r, n, proposed).content.decision = "ACCEPTED"
    THEN Marked(WithObject(WorkBundled(b, r, n, proposed), r), r.id, "published")
    ELSE WorkBundled(b, r, n, proposed)

WorkDone(b, r, n, proposed) ==
    LedgerPublished(WorkRegistered(b, r, n, proposed), WorkValues(b, r, n, proposed), n)

LEMMA WorkStages ==
    ASSUME NEW b, NEW r, NEW n, NEW proposed, Work(b, r, n, proposed)
    PROVE  /\ run[b].step = "idle" /\ tree[b] = base[b] /\ runs + edits < MaxSteps
           /\ ~BundleConflict(Prepared(b, r, n, proposed), WorkBundle(b, r, n, proposed))
           /\ WorkBundle(b, r, n, proposed).content.decision = "ACCEPTED" =>
                 ~RegisterConflict(WorkBundled(b, r, n, proposed), r)
           /\ Become(b, WorkDone(b, r, n, proposed))
           /\ run' = [run EXCEPT ![b] = Pushed]
           /\ runs' = runs + 1
           /\ UNCHANGED <<main, base, edits, bare>>
BY DEF Work, WorkDone, WorkRegistered, WorkBundled, WorkBundle, Prepared, WorkValues, Pushed

LEMMA WorkLeaves ==
    ASSUME Typed, NEW b \in Branches, NEW r \in Works, NEW n \in Reserved,
           NEW proposed \in Proposals,
           Work(b, r, n, proposed)
    PROVE  /\ n \in Numbers
           /\ Leaves(b, WorkDone(b, r, n, proposed), Pushed)
           /\ WorkBundle(b, r, n, proposed).number \in Numbers
           /\ WorkBundle(b, r, n, proposed).content \in Contents
           /\ TreeStands(Prepared(b, r, n, proposed))
           /\ TreeStands(WorkBundled(b, r, n, proposed))
           /\ TreeStands(WorkDone(b, r, n, proposed))
<1> DEFINE values == WorkValues(b, r, n, proposed)
           x == WorkBundle(b, r, n, proposed)
<1>1. tree[b] = base[b] /\ runs + edits < MaxSteps
  BY WorkStages
<1>2. TreeStands(base[b])
  BY <1>1 DEF Typed
<1>3. n \in Numbers
  BY EngineAssumption DEF Numbers
<1>4. values \in SUBSET Values
  <2>1. DOMAIN proposed \subseteq SourceIds
    BY EngineAssumption
  <2>2. QED BY <1>3, <2>1, WorkIds DEF WorkValues, Values
<1>5. TreeStands(Prepared(b, r, n, proposed))
  <2>1. TreeStands(WithSources(base[b], proposed))
    BY <1>2, WithSourcesStands
  <2>2. TreeStands(WithLedger(WithSources(base[b], proposed), values))
    BY <1>4, <2>1, WithLedgerStands
  <2>3. QED BY <2>2, LedgerPublishedStands DEF Prepared
<1>6. x.content \in Contents /\ x.number \in Numbers
  BY <1>1, <1>3, ContentTyped DEF WorkBundle
<1>7. TreeStands(WorkBundled(b, r, n, proposed))
  <2> HIDE DEF x
  <2>1. QED BY <1>5, <1>6, BundledStands DEF WorkBundled, x
<1>8. TreeStands(WorkRegistered(b, r, n, proposed))
  <2>1. TreeStands(WithObject(WorkBundled(b, r, n, proposed), r))
    BY <1>7, WithObjectStands
  <2>2. TreeStands(Marked(WithObject(WorkBundled(b, r, n, proposed), r), r.id, "published"))
    BY <2>1, MarkedStands, WorkIds DEF LedgerStates
  <2>3. QED BY <1>7, <2>2 DEF WorkRegistered
<1>9. TreeStands(WorkDone(b, r, n, proposed))
  BY <1>8, LedgerPublishedStands DEF WorkDone
<1>10. Leaves(b, WorkDone(b, r, n, proposed), Pushed)
  BY WorkStages, LeavesThem
<1>11. QED BY <1>3, <1>5, <1>6, <1>7, <1>9, <1>10

LEMMA CheckoutLeaves ==
    ASSUME Typed, NEW b \in Branches, Checkout(b)
    PROVE  Leaves(b, main, Idle)
BY LeavesThem DEF Checkout

LEMMA ReserveLeaves ==
    ASSUME Typed, NEW b \in Branches, NEW o \in Objects, Reserve(b, o)
    PROVE  /\ Leaves(b, Filed(Ledger(o), "reserved", tree[b]), run[b])
           /\ TreeStands(Filed(Ledger(o), "reserved", tree[b]))
<1>1. FileStands(Ledger(o), "reserved")
  BY LedgerStands DEF LedgerStates
<1>2. QED BY <1>1, FiledStands, LeavesRun DEF Reserve, Typed

LEMMA WithdrawLeaves ==
    ASSUME Typed, NEW b \in Branches, NEW o \in Objects, Withdraw(b, o)
    PROVE  /\ Leaves(b, Marked(tree[b], o, "withdrawn"), run[b])
           /\ TreeStands(Marked(tree[b], o, "withdrawn"))
<1>1. "withdrawn" \in LedgerStates /\ o \in Values
  BY DEF LedgerStates, Values
<1>2. QED BY <1>1, MarkedStands, LeavesRun DEF Withdraw, Typed

LEMMA EditLeaves ==
    ASSUME Typed, NEW b \in Branches, NEW files \in Edits, Edit(b, files)
    PROVE  Leaves(b, Over(files, tree[b]), run[b]) /\ TreeStands(Over(files, tree[b]))
<1>1. ASSUME NEW p \in DOMAIN files PROVE FileStands(p, files[p])
  <2>1. p = <<p[1], p[2]>> /\ p[1] \in {"governing", "sources"}
    BY EngineAssumption
  <2>2. p[1] \in Plain
    BY <2>1 DEF Plain
  <2>3. FileStands(<<p[1], p[2]>>, files[p])
    BY <2>2, PlainStands
  <2>4. QED BY <2>1, <2>3
<1>2. TreeStands(files)
  BY <1>1 DEF TreeStands
<1>3. QED BY <1>2, OverStands, LeavesRun DEF Edit, Typed

LEMMA AddLeaves ==
    ASSUME Typed, NEW b \in Branches, NEW r \in Works, Add(b, r) \/ Revise(b, r)
    PROVE  /\ Leaves(b, Written(tree[b], r), run[b])
           /\ TreeStands(Written(tree[b], r))
BY WrittenStands, LeavesRun DEF Add, Revise, Typed

Kept(files, o) == Filed(History(o, files[Object(o)].version), files[Object(o)], files)

LEMMA PreserveLeaves ==
    ASSUME Typed, NEW b \in Branches, NEW o \in Objects, Preserve(b, o)
    PROVE  Leaves(b, Kept(tree[b], o), run[b]) /\ TreeStands(Kept(tree[b], o))
BY HistoryStands, FiledStands, LeavesRun DEF Preserve, Typed, Kept

NewManifest(files) == [hashes |-> Hashes(files), after |-> Under(files, "manifests")]

LEMMA ReleaseLeaves ==
    ASSUME Typed, NEW b \in Branches, NEW k \in Numbers, Release(b, k)
    PROVE  /\ Leaves(b, Filed(Manifest(k), NewManifest(tree[b]), tree[b]), run[b])
           /\ TreeStands(Filed(Manifest(k), NewManifest(tree[b]), tree[b]))
BY ManifestStands, FiledStands, LeavesRun DEF Release, Typed, NewManifest

Changes(b) == [p \in Changed(b) |-> MergedFile(b, p)]

(* Git's mixture of two records is a record.                                *)
LEMMA BlendChooses ==
    ASSUME NEW x, NEW y, NEW z, NEW D, NEW S, x \in [D -> S], y \in [D -> S], z \in [D -> S]
    PROVE  Blend(x, y, z) \in [D -> S]
BY DEF Blend

LEMMA BlendedStands ==
    ASSUME NEW x \in Record, NEW y \in Record, NEW z \in Record
    PROVE  BlendedObject(x, y, z) \in Record
<1> DEFINE parts == Blend(Parts(x), Parts(y), Parts(z))
<1>1. /\ parts.id \in {y.id, z.id} /\ parts.title \in {y.title, z.title}
      /\ parts.version \in {y.version, z.version} /\ parts.gaps \in {y.gaps, z.gaps}
      /\ parts.supersedes \in {y.supersedes, z.supersedes}
  BY DEF Blend, Parts
<1>2. Blend(x.state, y.state, z.state) \in [Fields -> Statuses]
  <2>1. /\ x.state \in [Fields -> Statuses] /\ y.state \in [Fields -> Statuses]
        /\ z.state \in [Fields -> Statuses]
    BY DEF Record
  <2>2. QED BY <2>1, BlendChooses
<1>3. Blend(x.refs, y.refs, z.refs) \in [References -> SUBSET Ids]
  <2>1. /\ x.refs \in [References -> SUBSET Ids] /\ y.refs \in [References -> SUBSET Ids]
        /\ z.refs \in [References -> SUBSET Ids]
    BY DEF Record
  <2>2. QED BY <2>1, BlendChooses
<1>4. /\ parts.id \in Objects /\ parts.title \in Nat /\ parts.version \in Nat
      /\ parts.gaps \in SUBSET MissingnessClasses /\ parts.supersedes \in Objects \cup {NoId}
  BY <1>1 DEF Record
<1> HIDE DEF parts
<1>5. [id |-> parts.id, title |-> parts.title, version |-> parts.version, gaps |-> parts.gaps,
       supersedes |-> parts.supersedes, state |-> Blend(x.state, y.state, z.state),
       refs |-> Blend(x.refs, y.refs, z.refs)] \in Record
  BY <1>2, <1>3, <1>4 DEF Record
<1>6. QED BY <1>5 DEF BlendedObject, parts

LEMMA MergedFileStands ==
    ASSUME Typed, NEW b \in Branches, ~MergeConflict(b), NEW p \in Changed(b)
    PROVE  FileStands(p, MergedFile(b, p))
<1>1. p \in DOMAIN tree[b] /\ FileStands(p, tree[b][p])
  BY DEF Changed, Typed, TreeStands
<1>2. CASE p \notin ChangedTwice(b)
  BY <1>1, <1>2 DEF MergedFile
<1>3. CASE p \in ChangedTwice(b)
  <2>1. Blends(b, p)
    BY <1>3 DEF MergeConflict
  <2>2. p \in DOMAIN base[b] /\ p \in DOMAIN main
    BY <2>1 DEF Blends
  <2>3. FileStands(p, base[b][p]) /\ FileStands(p, main[p])
    BY <2>2 DEF Typed, TreeStands
  <2>4. CASE p[1] = "objects"
    <3>1. p = Object(p[2]) /\ base[b][p] \in Record /\ main[p] \in Record /\ tree[b][p] \in Record
      BY <1>1, <2>3, <2>4 DEF FileStands, States
    <3>2. MergedFile(b, p) = BlendedObject(base[b][p], main[p], tree[b][p])
      BY <1>3, <2>4 DEF MergedFile
    <3>3. MergedFile(b, p) \in States
      BY <3>1, <3>2, BlendedStands DEF States
    <3>4. FileStands(Object(p[2]), MergedFile(b, p))
      BY <3>3, ObjectStands
    <3>5. QED BY <3>1, <3>4
  <2>5. CASE p[1] \in {"sources", "governing"}
    <3>1. p = <<p[1], p[2]>> /\ p[1] \in Plain
      BY <1>1, <2>5 DEF FileStands, Plain
    <3>2. FileStands(<<p[1], p[2]>>, MergedFile(b, p))
      BY <3>1, PlainStands
    <3>3. QED BY <3>1, <3>2
  <2>6. QED BY <2>1, <2>4, <2>5 DEF Blends
<1>4. QED BY <1>2, <1>3

LEMMA LandLeaves ==
    ASSUME Typed, NEW b \in Branches, Land(b)
    PROVE  main' = Merged(b) /\ Leaves(b, Merged(b), Idle) /\ TreeStands(Merged(b))
<1>1. TreeStands(Changes(b))
  BY MergedFileStands DEF TreeStands, Changes, Land
<1>2. TreeStands(Merged(b))
  BY <1>1, OverStands DEF Typed, Merged, Changes
<1>3. main' = Merged(b) /\ Become(b, Merged(b)) /\ run' = [run EXCEPT ![b] = Idle]
  BY DEF Land
<1>4. QED BY <1>2, <1>3, LeavesThem

LEMMA MixedTyped ==
    ASSUME NEW b, TreeStands(Merged(b))
    PROVE  Mixed(b) \subseteq Record
<1> SUFFICES ASSUME NEW p \in ChangedTwice(b), p[1] = "objects"
             PROVE  Merged(b)[p] \in Record
  BY DEF Mixed
<1>1. p \in DOMAIN Merged(b)
  BY DEF ChangedTwice, Merged, Over
<1>2. QED BY <1>1 DEF TreeStands, FileStands, States

LEMMA TypedAfter ==
    ASSUME Typed, NEW b \in Branches, NEW files, NEW r, Leaves(b, files, r), TreeStands(files),
           RunTyped(r), UNCHANGED main \/ main' = files, DOMAIN base' = Branches,
           \A c \in Branches : base'[c] \in {base[c], main, main'}, bare' \subseteq Record,
           runs' \in Nat, edits' \in Nat, runs' + edits' <= MaxSteps
    PROVE  Typed'
<1>1. TreeStands(main')
  BY DEF Typed
<1>2. ASSUME NEW c \in Branches PROVE TreeStands(tree'[c]) /\ RunTyped(run'[c])
  BY DEF Typed, Leaves
<1>3. DOMAIN tree' = Branches /\ DOMAIN run' = Branches
  BY DEF Leaves
<1>4. ASSUME NEW c \in Branches PROVE TreeStands(base'[c])
  BY <1>1 DEF Typed
<1>5. QED BY <1>1, <1>2, <1>3, <1>4 DEF Typed

LEMMA TypedInit == Init => Typed
<1> SUFFICES ASSUME Init PROVE Typed
  OBVIOUS
<1>1. ASSUME NEW p \in DOMAIN Seed PROVE FileStands(p, Seed[p])
  <2>1. /\ p = <<p[1], p[2]>>
        /\ p[1] \in {"authors", "objects", "sources", "relations", "governing", "reservations"}
        /\ p[1] = "reservations" =>
              p[2] \in Objects \cup SourceIds \cup Numbers /\ Seed[p] \in LedgerStates
    BY SeedAssumption
  <2>2. CASE p[1] = "objects"
    <3>1. p = <<"objects", p[2]>>
      BY <2>1, <2>2
    <3>5. Seed[p] \in States
      BY <2>2, SeedAssumption DEF States
    <3>6. FileStands(Object(p[2]), Seed[p])
      BY <3>5, ObjectStands
    <3>7. QED BY <3>1, <3>6 DEF Object
  <2>3. CASE p[1] = "reservations"
    <3>1. p = Ledger(p[2])
      BY <2>1, <2>3 DEF Ledger
    <3>2. FileStands(Ledger(p[2]), Seed[p])
      BY <2>1, <2>3, LedgerStands
    <3>3. QED BY <3>1, <3>2
  <2>4. CASE p[1] \in Plain
    BY <2>1, <2>4, PlainStands
  <2>5. QED BY <2>1, <2>2, <2>3, <2>4 DEF Plain
<1>2. TreeStands(Seed)
  BY <1>1 DEF TreeStands
<1>3. RunTyped(Idle)
  BY DEF RunTyped
<1>4. runs \in Nat /\ edits \in Nat /\ runs + edits <= MaxSteps
  BY EngineAssumption DEF Init
<1>5. /\ DOMAIN base = Branches /\ DOMAIN tree = Branches /\ DOMAIN run = Branches /\ main = Seed
      /\ bare = {}
  BY DEF Init
<1>6. \A b \in Branches : base[b] = Seed /\ tree[b] = Seed /\ run[b] = Idle
  BY DEF Init
<1>7. QED BY <1>2, <1>3, <1>4, <1>5, <1>6 DEF Typed

(* A step of a branch, and a step that changes no file and no run.           *)
Step(b) ==
    \/ Checkout(b)
    \/ \E r \in Works : \E register \in BOOLEAN : Admit(b, r, register)
    \/ \E r \in Works : Register(b, r)
    \/ MoveMember(b)
    \/ Archive(b)
    \/ Write(b)
    \/ Publish(b)
    \/ Crash(b)
    \/ \E r \in Works : \E n \in Reserved : \E proposed \in Proposals : Work(b, r, n, proposed)
    \/ \E o \in Objects : Reserve(b, o) \/ Withdraw(b, o) \/ Preserve(b, o)
    \/ \E r \in Works : Add(b, r) \/ Revise(b, r)
    \/ \E files \in Edits : Edit(b, files)
    \/ \E k \in Numbers : Release(b, k)
    \/ Land(b)

LEMMA TypedStep ==
    ASSUME Typed, NEW b \in Branches, Step(b)
    PROVE  Typed'
<1>1. /\ runs \in Nat /\ edits \in Nat /\ runs + edits <= MaxSteps /\ MaxSteps \in Nat
      /\ bare \subseteq Record /\ RunTyped(run[b]) /\ TreeStands(tree[b]) /\ TreeStands(main)
      /\ DOMAIN base = Branches
      /\ RunTyped(Idle) /\ RunTyped(Pushed) /\ (\A r \in EngineRun : RunTyped(r))
  BY EngineAssumption DEF Typed, RunTyped
<1>2. CASE Checkout(b)
  <2>1. /\ DOMAIN base' = Branches
        /\ (\A c \in Branches : base'[c] \in {base[c], main, main'}) /\ bare' \subseteq Record
        /\ UNCHANGED <<main, runs, edits>>
    BY <1>1, <1>2 DEF Checkout
  <2>2. QED BY <1>1, <1>2, <2>1, CheckoutLeaves, TypedAfter
<1>3. ASSUME NEW r \in Works, NEW register \in BOOLEAN, Admit(b, r, register) PROVE Typed'
  <2>1. /\ DOMAIN base' = Branches
        /\ (\A c \in Branches : base'[c] \in {base[c], main, main'}) /\ bare' \subseteq Record
        /\ UNCHANGED <<main, edits>>
    BY <1>1, <1>3 DEF Admit
  <2>2. runs' \in Nat /\ edits' \in Nat /\ runs' + edits' <= MaxSteps
    BY <1>1, <1>3 DEF Admit
  <2>3. QED BY <1>1, <1>3, <2>1, <2>2, AdmitLeaves, TypedAfter
<1>4. CASE MoveMember(b)
  <2>1. /\ DOMAIN base' = Branches
        /\ (\A c \in Branches : base'[c] \in {base[c], main, main'}) /\ bare' \subseteq Record
        /\ UNCHANGED <<main, runs, edits>>
    BY <1>1, <1>4 DEF MoveMember
  <2>2. run[b] \in EngineRun /\ MovedRun(b) \in EngineRun
    BY <1>4, MoveMemberLeaves
  <2>3. run[b].number \in Numbers /\ run[b].content \in Contents
    BY <1>4, <2>2 DEF EngineRun, MoveMember
  <2>4. TreeStands(Moved(tree[b], run[b], Head(run[b].left)))
    BY <1>1, <2>3, MovedStands
  <2>5. QED BY <1>1, <1>4, <2>1, <2>2, <2>4, MoveMemberLeaves, TypedAfter
<1>5. CASE Archive(b)
  <2>1. /\ DOMAIN base' = Branches
        /\ (\A c \in Branches : base'[c] \in {base[c], main, main'}) /\ bare' \subseteq Record
        /\ UNCHANGED <<main, runs, edits>>
    BY <1>1, <1>5 DEF Archive
  <2>2. TreeStands(Archived(tree[b], run[b].content.record))
    BY <1>1, ArchivedStands
  <2>3. QED BY <1>1, <1>5, <2>1, <2>2, ArchiveLeaves, TypedAfter
<1>6. CASE Write(b)
  <2>1. run[b].content.record \in Works
    BY <1>6, WriteLeaves DEF EngineRun, Contents
  <2>2. run[b].content.record \in Record
    BY <2>1, EngineAssumption
  <2>3. bare' \subseteq Record
    BY <1>1, <1>6, <2>2 DEF Write
  <2>4. /\ DOMAIN base' = Branches /\ (\A c \in Branches : base'[c] \in {base[c], main, main'})
        /\ UNCHANGED <<main, runs, edits>>
    BY <1>1, <1>6 DEF Write
  <2>5. TreeStands(Written(tree[b], run[b].content.record))
    BY <1>1, <2>1, WrittenStands
  <2>6. QED BY <1>1, <1>6, <2>3, <2>4, <2>5, WriteLeaves, TypedAfter
<1>7. CASE Publish(b)
  <2>1. /\ DOMAIN base' = Branches
        /\ (\A c \in Branches : base'[c] \in {base[c], main, main'}) /\ bare' \subseteq Record
        /\ UNCHANGED <<main, runs, edits>>
    BY <1>1, <1>7 DEF Publish
  <2>2. run[b].content.record \in Works
    BY <1>7, PublishLeaves DEF EngineRun, Contents
  <2>3. TreeStands(Marked(tree[b], run[b].content.record.id, "published"))
    BY <1>1, <2>2, MarkedStands, WorkIds DEF LedgerStates
  <2>4. QED BY <1>1, <1>7, <2>1, <2>3, PublishLeaves, TypedAfter
<1>8. CASE Crash(b)
  <2>1. /\ DOMAIN base' = Branches
        /\ (\A c \in Branches : base'[c] \in {base[c], main, main'}) /\ bare' \subseteq Record
        /\ UNCHANGED main
    BY <1>1, <1>8 DEF Crash
  <2>2. runs' \in Nat /\ edits' \in Nat /\ runs' + edits' <= MaxSteps
    BY <1>1, <1>8 DEF Crash
  <2>3. QED BY <1>1, <1>8, <2>1, <2>2, CrashLeaves, TypedAfter
<1>9. ASSUME NEW r \in Works, NEW n \in Reserved, NEW proposed \in Proposals,
             Work(b, r, n, proposed)
      PROVE  Typed'
  <2>1. /\ DOMAIN base' = Branches
        /\ (\A c \in Branches : base'[c] \in {base[c], main, main'}) /\ bare' \subseteq Record
        /\ UNCHANGED <<main, edits>> /\ runs' = runs + 1
        /\ runs + edits < MaxSteps
    BY <1>1, <1>9, WorkStages
  <2>2. runs' \in Nat /\ edits' \in Nat /\ runs' + edits' <= MaxSteps
    BY <1>1, <2>1
  <2>3. Leaves(b, WorkDone(b, r, n, proposed), Pushed) /\ TreeStands(WorkDone(b, r, n, proposed))
    BY <1>9, WorkLeaves
  <2>4. QED BY <1>1, <2>1, <2>2, <2>3, TypedAfter
<1>10. ASSUME NEW o \in Objects, Reserve(b, o) PROVE Typed'
  <2>1. /\ DOMAIN base' = Branches
        /\ (\A c \in Branches : base'[c] \in {base[c], main, main'}) /\ bare' \subseteq Record
        /\ UNCHANGED main
    BY <1>1, <1>10 DEF Reserve
  <2>2. runs' \in Nat /\ edits' \in Nat /\ runs' + edits' <= MaxSteps
    BY <1>1, <1>10 DEF Reserve
  <2>3. QED BY <1>1, <1>10, <2>1, <2>2, ReserveLeaves, TypedAfter
<1>11. ASSUME NEW o \in Objects, Withdraw(b, o) PROVE Typed'
  <2>1. /\ DOMAIN base' = Branches
        /\ (\A c \in Branches : base'[c] \in {base[c], main, main'}) /\ bare' \subseteq Record
        /\ UNCHANGED main
    BY <1>1, <1>11 DEF Withdraw
  <2>2. runs' \in Nat /\ edits' \in Nat /\ runs' + edits' <= MaxSteps
    BY <1>1, <1>11 DEF Withdraw
  <2>3. QED BY <1>1, <1>11, <2>1, <2>2, WithdrawLeaves, TypedAfter
<1>12. ASSUME NEW files \in Edits, Edit(b, files) PROVE Typed'
  <2>1. /\ DOMAIN base' = Branches
        /\ (\A c \in Branches : base'[c] \in {base[c], main, main'}) /\ bare' \subseteq Record
        /\ UNCHANGED main
    BY <1>1, <1>12 DEF Edit
  <2>2. runs' \in Nat /\ edits' \in Nat /\ runs' + edits' <= MaxSteps
    BY <1>1, <1>12 DEF Edit
  <2>3. QED BY <1>1, <1>12, <2>1, <2>2, EditLeaves, TypedAfter
<1>13. ASSUME NEW k \in Numbers, Release(b, k) PROVE Typed'
  <2>1. /\ DOMAIN base' = Branches
        /\ (\A c \in Branches : base'[c] \in {base[c], main, main'}) /\ bare' \subseteq Record
        /\ UNCHANGED main
    BY <1>1, <1>13 DEF Release
  <2>2. runs' \in Nat /\ edits' \in Nat /\ runs' + edits' <= MaxSteps
    BY <1>1, <1>13 DEF Release
  <2>3. QED BY <1>1, <1>13, <2>1, <2>2, ReleaseLeaves, TypedAfter
<1>14. CASE Land(b)
  <2>1. main' = Merged(b) /\ TreeStands(Merged(b))
    BY <1>14, LandLeaves
  <2>2. bare' \subseteq Record
    BY <1>1, <1>14, <2>1, MixedTyped DEF Land
  <2>3. /\ DOMAIN base' = Branches /\ (\A c \in Branches : base'[c] \in {base[c], main, main'})
        /\ UNCHANGED <<runs, edits>>
    BY <1>1, <1>14 DEF Land
  <2>4. QED BY <1>1, <1>14, <2>2, <2>3, LandLeaves, TypedAfter
<1>15. ASSUME NEW r \in Works, Register(b, r) PROVE Typed'
  <2>1. /\ DOMAIN base' = Branches
        /\ (\A c \in Branches : base'[c] \in {base[c], main, main'}) /\ bare' \subseteq Record
        /\ UNCHANGED main
    BY <1>1, <1>15 DEF Register
  <2>2. runs' \in Nat /\ edits' \in Nat /\ runs' + edits' <= MaxSteps
    BY <1>1, <1>15 DEF Register
  <2>3. QED BY <1>1, <1>15, <2>1, <2>2, RegisterLeaves, TypedAfter
<1>16. ASSUME NEW o \in Objects, Preserve(b, o) PROVE Typed'
  <2>1. /\ DOMAIN base' = Branches
        /\ (\A c \in Branches : base'[c] \in {base[c], main, main'}) /\ bare' \subseteq Record
        /\ UNCHANGED main
    BY <1>1, <1>16 DEF Preserve
  <2>2. runs' \in Nat /\ edits' \in Nat /\ runs' + edits' <= MaxSteps
    BY <1>1, <1>16 DEF Preserve
  <2>3. QED BY <1>1, <1>16, <2>1, <2>2, PreserveLeaves, TypedAfter
<1>17. ASSUME NEW r \in Works, Add(b, r) \/ Revise(b, r) PROVE Typed'
  <2>1. bare' \subseteq Record
    BY <1>1, <1>17, EngineAssumption DEF Add, Revise
  <2>2. /\ DOMAIN base' = Branches /\ (\A c \in Branches : base'[c] \in {base[c], main, main'})
        /\ UNCHANGED main
    BY <1>1, <1>17 DEF Add, Revise
  <2>3. runs' \in Nat /\ edits' \in Nat /\ runs' + edits' <= MaxSteps
    BY <1>1, <1>17 DEF Add, Revise
  <2>4. QED BY <1>1, <1>17, <2>1, <2>2, <2>3, AddLeaves, TypedAfter
<1>18. QED
  BY <1>2, <1>3, <1>4, <1>5, <1>6, <1>7, <1>8, <1>9, <1>10, <1>11, <1>12, <1>13, <1>14, <1>15,
     <1>16, <1>17 DEF Step

LEMMA NextIsStep == Next <=> \E b \in Branches : Step(b)
BY DEF Next, Step

LEMMA TypedStutter ==
    ASSUME Typed, UNCHANGED vars
    PROVE  Typed'
BY DEF Typed, vars

LEMMA TypedImpliesTypeOK == Typed => TypeOK
<1> SUFFICES ASSUME Typed PROVE TypeOK
  OBVIOUS
<1>1. runs + edits \in 0..MaxSteps
  BY EngineAssumption DEF Typed
<1>2. ASSUME NEW b \in Branches
      PROVE  run[b].step \in {"idle", "bundle", "archive", "write", "publish", "pushed"}
  BY DEF Typed, RunTyped, Idle, Pushed, EngineRun
<1>3. ASSUME NEW files, TreeStands(files)
      PROVE  /\ UsedNumbers(files) \subseteq Numbers
             /\ \A o \in Under(files, "objects") :
                   files[Object(o)] \in Record
             /\ \A v \in Under(files, "reservations") : files[Ledger(v)] \in LedgerStates
  <2>1. ASSUME NEW o \in Under(files, "objects")
        PROVE  files[Object(o)] \in Record
    <3>1. PICK p \in DOMAIN files : p[1] = "objects" /\ o = p[2]
      BY DEF Under
    <3>2. p = Object(o) /\ files[p] \in States
      BY <1>3, <3>1 DEF TreeStands, FileStands
    <3>3. QED BY <3>2 DEF States
  <2>2. ASSUME NEW v \in Under(files, "reservations") PROVE files[Ledger(v)] \in LedgerStates
    <3>1. PICK p \in DOMAIN files : p[1] = "reservations" /\ v = p[2]
      BY DEF Under
    <3>2. QED BY <1>3, <3>1 DEF TreeStands, FileStands
  <2>3. QED BY <1>3, <2>1, <2>2, NumbersOfTree
<1>4. \A files \in {main} \cup Range(tree) : TreeStands(files)
  BY DEF Typed, Range
<1>5. bare \subseteq Record
  BY DEF Typed
<1>6. QED BY <1>1, <1>2, <1>3, <1>4, <1>5 DEF TypeOK

(* No repository, however works, crashes, edits and merges follow on each    *)
(* other, holds a receipt or a reservation numbered past the bound, an      *)
(* object that is no record, git's blends among them, or a ledger file of a *)
(* fourth state.                                                            *)
THEOREM TypeCorrect == Spec => []TypeOK
<1>1. Typed /\ [Next]_vars => Typed'
  BY NextIsStep, TypedStep, TypedStutter
<1>2. QED BY <1>1, TypedInit, TypedImpliesTypeOK, PTL DEF Spec

-----------------------------------------------------------------------------
(* What a tree keeps.  A receipt, an archived state and a manifest stay as   *)
(* they are; a state of an object stays as the current one or is archived.  *)
ReceiptDirs == Decisions \cup {"executions"}

FixedDirs == ReceiptDirs \cup {"history", "manifests"}

Keeps(f, g) == \A p \in DOMAIN f : p[1] \in FixedDirs => p \in DOMAIN g /\ g[p] = f[p]

HasState(files, o, s) ==
    \E p \in {Object(o), History(o, s.version)} : p \in DOMAIN files /\ files[p] = s

KeepsStates(f, g) == \A p \in DOMAIN f : p[1] = "objects" => HasState(g, p[2], f[p])

Later(f, g) == Keeps(f, g) /\ KeepsStates(f, g)

LEMMA LaterReflexive ==
    ASSUME NEW f, TreeStands(f)
    PROVE  Later(f, f)
<1>1. ASSUME NEW p \in DOMAIN f, p[1] = "objects" PROVE HasState(f, p[2], f[p])
  <2>1. p = Object(p[2])
    BY <1>1 DEF TreeStands, FileStands
  <2>2. QED BY <2>1 DEF HasState
<1>2. QED BY <1>1 DEF Later, Keeps, KeepsStates

LEMMA LaterTransitive ==
    ASSUME NEW f, NEW g, NEW h, Later(f, g), Later(g, h)
    PROVE  Later(f, h)
<1>1. Keeps(f, h)
  BY DEF Later, Keeps
<1>2. ASSUME NEW p \in DOMAIN f, p[1] = "objects" PROVE HasState(h, p[2], f[p])
  <2>1. PICK q \in {Object(p[2]), History(p[2], f[p].version)} : q \in DOMAIN g /\ g[q] = f[p]
    BY <1>2 DEF Later, KeepsStates, HasState
  <2>2. CASE q = Object(p[2])
    <3>1. q[1] = "objects" /\ q[2] = p[2]
      BY <2>2, PathParts
    <3>2. HasState(h, q[2], g[q])
      BY <2>1, <3>1 DEF Later, KeepsStates
    <3>3. QED BY <2>1, <3>1, <3>2
  <2>3. CASE q = History(p[2], f[p].version)
    <3>1. q[1] \in FixedDirs
      BY <2>3, PathParts DEF FixedDirs
    <3>2. q \in DOMAIN h /\ h[q] = g[q]
      BY <2>1, <3>1 DEF Later, Keeps
    <3>3. QED BY <2>1, <2>3, <3>2 DEF HasState
  <2>4. QED BY <2>1, <2>2, <2>3
<1>3. QED BY <1>1, <1>2 DEF Later, KeepsStates

(* Two trees that differ only in sources, ledger files, governing records,  *)
(* authors and relations.                                                   *)
Alike(f, g) ==
    \A p : p[1] \in FixedDirs \cup {"objects"} =>
              /\ p \in DOMAIN f <=> p \in DOMAIN g
              /\ p \in DOMAIN f => g[p] = f[p]

LEMMA AlikeTransitive ==
    ASSUME NEW f, NEW g, NEW h, Alike(f, g), Alike(g, h)
    PROVE  Alike(f, h)
BY DEF Alike

LEMMA AlikeOver ==
    ASSUME NEW new, NEW files, \A p \in DOMAIN new : p[1] \in {"sources", "governing", "reservations"}
    PROVE  Alike(files, Over(new, files))
<1> SUFFICES ASSUME NEW p, p[1] \in FixedDirs \cup {"objects"}
             PROVE  /\ p \in DOMAIN files <=> p \in DOMAIN Over(new, files)
                    /\ p \in DOMAIN files => Over(new, files)[p] = files[p]
  BY DEF Alike
<1>1. p \notin DOMAIN new
  BY DEF FixedDirs, ReceiptDirs, Decisions
<1>2. QED BY <1>1 DEF Over

LEMMA AlikeFiled ==
    ASSUME NEW x, NEW v, NEW files, x[1] \in {"sources", "governing", "reservations"}
    PROVE  Alike(files, Filed(x, v, files))
<1> SUFFICES ASSUME NEW p, p[1] \in FixedDirs \cup {"objects"}
             PROVE  /\ p \in DOMAIN files <=> p \in DOMAIN Filed(x, v, files)
                    /\ p \in DOMAIN files => Filed(x, v, files)[p] = files[p]
  BY DEF Alike
<1>1. p # x
  BY DEF FixedDirs, ReceiptDirs, Decisions
<1>2. QED BY <1>1 DEF Filed

LEMMA AlikeMarked ==
    ASSUME NEW files, NEW v, NEW s
    PROVE  Alike(files, Marked(files, v, s))
<1>1. Alike(files, Filed(Ledger(v), s, files))
  BY AlikeFiled, PathParts
<1>2. Alike(files, files)
  BY DEF Alike
<1>3. QED BY <1>1, <1>2 DEF Marked

LEMMA AlikeWithSources ==
    ASSUME NEW files, NEW proposed
    PROVE  Alike(files, WithSources(files, proposed))
<1> DEFINE paths == {<<"sources", s>> : s \in DOMAIN proposed}
           new == [p \in paths |-> proposed[p[2]]]
<1>1. \A p \in DOMAIN new : p[1] \in {"sources", "governing", "reservations"}
  OBVIOUS
<1>2. QED BY <1>1, AlikeOver DEF WithSources

LEMMA AlikeWithLedger ==
    ASSUME NEW files, NEW values
    PROVE  Alike(files, WithLedger(files, values))
<1> DEFINE new == [p \in {Ledger(v) : v \in values} \ DOMAIN files |-> "reserved"]
<1>1. \A p \in DOMAIN new : p[1] \in {"sources", "governing", "reservations"}
  BY PathParts
<1>2. QED BY <1>1, AlikeOver DEF WithLedger

LEMMA AlikeLedgerPublished ==
    ASSUME NEW files, NEW values, NEW number
    PROVE  Alike(files, LedgerPublished(files, values, number))
<1> DEFINE new == LedgerPublished(files, values, number)
<1>1. DOMAIN new = DOMAIN files
  BY DEF LedgerPublished
<1>2. \A p \in DOMAIN files : p[1] # "reservations" => new[p] = files[p]
  BY DEF LedgerPublished
<1>3. ASSUME NEW p, p[1] \in FixedDirs \cup {"objects"} PROVE p[1] # "reservations"
  BY <1>3 DEF FixedDirs, ReceiptDirs, Decisions
<1> HIDE DEF new
<1>4. ASSUME NEW p, p[1] \in FixedDirs \cup {"objects"}
      PROVE  /\ p \in DOMAIN files <=> p \in DOMAIN new
             /\ p \in DOMAIN files => new[p] = files[p]
  BY <1>1, <1>2, <1>3, <1>4
<1>5. Alike(files, new)
  BY <1>4 DEF Alike
<1>6. QED BY <1>5 DEF new

LEMMA AlikeIsLater ==
    ASSUME NEW f, NEW g, TreeStands(f), Alike(f, g)
    PROVE  Later(f, g)
<1>1. Keeps(f, g)
  BY DEF Alike, Keeps
<1>2. ASSUME NEW p \in DOMAIN f, p[1] = "objects" PROVE HasState(g, p[2], f[p])
  <2>1. p = Object(p[2])
    BY <1>2 DEF TreeStands, FileStands
  <2>2. p \in DOMAIN g /\ g[p] = f[p]
    BY <1>2 DEF Alike
  <2>3. QED BY <2>1, <2>2 DEF HasState
<1>3. QED BY <1>1, <1>2 DEF Later, KeepsStates

-----------------------------------------------------------------------------
(* What is true of every tree.  Its objects are the seed's, or registered    *)
(* without a bundle (bare), or have their complete accepted bundle; a file  *)
(* of a bundle stands with the receipt of its run, an execution manifest    *)
(* with all of them; a manifest was cut after manifests that are there; and *)
(* where two manifests disagree, two do of which neither was cut after the  *)
(* other.                                                                   *)
SameIn(directory, f, g) ==
    \A p : p[1] = directory => /\ p \in DOMAIN f <=> p \in DOMAIN g
                               /\ p \in DOMAIN f => g[p] = f[p]

HasBundle(files, r) ==
    \E n \in Numbers : \A kind \in Kinds :
        /\ Member(n, "ACCEPTED", kind) \in DOMAIN files
        /\ files[Member(n, "ACCEPTED", kind)].record = r

Admitted(files, B, p) ==
    (p \in DOMAIN Seed /\ files[p] = Seed[p]) \/ files[p] \in B \/ HasBundle(files, files[p])

Accepted(files, B) == \A p \in DOMAIN files : p[1] = "objects" => Admitted(files, B, p)

(* What stands with a file of a bundle.                                     *)
Needed(p) == IF p[1] = "executions" THEN Kinds ELSE {"json"}

WholeAt(files, p) ==
    \A kind \in Needed(p) :
        LET m == Member(p[2], files[p].decision, kind)
        IN  m \in DOMAIN files /\ files[m] = files[p]

Whole(files) == \A p \in DOMAIN files : p[1] \in ReceiptDirs => WholeAt(files, p)

Cut(files) == {k \in Numbers : Manifest(k) \in DOMAIN files}

Cutting(files, k) == files[Manifest(k)]

Closed(files) == \A k \in Cut(files) : Cutting(files, k).after \subseteq Cut(files)

Differ(files, j, k, g) ==
    /\ g \in DOMAIN Cutting(files, j).hashes /\ g \in DOMAIN Cutting(files, k).hashes
    /\ Cutting(files, j).hashes[g] # Cutting(files, k).hashes[g]

Apart(files, j, k) == j \notin Cutting(files, k).after /\ k \notin Cutting(files, j).after

Disputed(files, g) == \E j, k \in Cut(files) : Differ(files, j, k, g) /\ Apart(files, j, k)

Agree(files) ==
    \A j, k \in Cut(files) : \A g \in Governing : Differ(files, j, k, g) => Disputed(files, g)

Sound(files, B) == Accepted(files, B) /\ Whole(files) /\ Closed(files) /\ Agree(files)

LEMMA SoundGrows ==
    ASSUME NEW files, NEW B, NEW C, B \subseteq C, Sound(files, B)
    PROVE  Sound(files, C)
BY DEF Sound, Accepted, Admitted

LEMMA CutIsUnder ==
    ASSUME NEW files, TreeStands(files)
    PROVE  Under(files, "manifests") = Cut(files)
<1>1. ASSUME NEW k \in Under(files, "manifests") PROVE k \in Cut(files)
  <2>1. PICK p \in DOMAIN files : p[1] = "manifests" /\ k = p[2]
    BY DEF Under
  <2>2. p = Manifest(k) /\ k \in Numbers
    BY <2>1 DEF TreeStands, FileStands
  <2>3. QED BY <2>2 DEF Cut
<1>2. ASSUME NEW k \in Cut(files) PROVE k \in Under(files, "manifests")
  <2>1. Manifest(k) \in DOMAIN files
    BY DEF Cut
  <2>2. QED BY <2>1, PathParts DEF Under
<1>3. QED BY <1>1, <1>2

LEMMA MemberFixed ==
    ASSUME NEW n, NEW d \in Decisions, NEW kind
    PROVE  Member(n, d, kind)[1] \in ReceiptDirs /\ Member(n, d, kind)[1] \in FixedDirs
BY MemberParts DEF FixedDirs, ReceiptDirs

LEMMA HasBundleKept ==
    ASSUME NEW f, NEW g, Keeps(f, g), NEW r, HasBundle(f, r)
    PROVE  HasBundle(g, r)
<1>1. PICK n \in Numbers : \A kind \in Kinds :
          /\ Member(n, "ACCEPTED", kind) \in DOMAIN f
          /\ f[Member(n, "ACCEPTED", kind)].record = r
  BY DEF HasBundle
<1>2. ASSUME NEW kind \in Kinds
      PROVE  /\ Member(n, "ACCEPTED", kind) \in DOMAIN g
             /\ g[Member(n, "ACCEPTED", kind)].record = r
  <2>1. Member(n, "ACCEPTED", kind)[1] \in FixedDirs
    BY MemberFixed DEF Decisions
  <2>2. QED BY <1>1, <2>1 DEF Keeps
<1>3. QED BY <1>2 DEF HasBundle

LEMMA AdmittedKept ==
    ASSUME NEW f, NEW g, Keeps(f, g), NEW B, NEW p, g[p] = f[p], Admitted(f, B, p)
    PROVE  Admitted(g, B, p)
BY HasBundleKept DEF Admitted

LEMMA AcceptedKept ==
    ASSUME NEW f, NEW g, NEW B, Keeps(f, g), SameIn("objects", f, g), Accepted(f, B)
    PROVE  Accepted(g, B)
<1> SUFFICES ASSUME NEW p \in DOMAIN g, p[1] = "objects"
             PROVE  Admitted(g, B, p)
  BY DEF Accepted
<1>1. p \in DOMAIN f /\ g[p] = f[p]
  BY DEF SameIn
<1>2. Admitted(f, B, p)
  BY <1>1 DEF Accepted
<1>3. QED BY <1>1, <1>2, AdmittedKept

LEMMA WholeAtKept ==
    ASSUME NEW f, NEW g, TreeStands(f), Keeps(f, g), NEW p \in DOMAIN f, p[1] \in ReceiptDirs,
           WholeAt(f, p)
    PROVE  WholeAt(g, p)
<1>1. g[p] = f[p] /\ f[p].decision \in Decisions
  BY DEF Keeps, FixedDirs, TreeStands, FileStands, ReceiptDirs, Contents
<1>2. ASSUME NEW kind \in Needed(p)
      PROVE  LET m == Member(p[2], g[p].decision, kind)
             IN  m \in DOMAIN g /\ g[m] = g[p]
  <2> DEFINE m == Member(p[2], f[p].decision, kind)
  <2>1. m \in DOMAIN f /\ f[m] = f[p]
    BY DEF WholeAt
  <2>2. m[1] \in FixedDirs
    BY <1>1, MemberFixed
  <2>3. m \in DOMAIN g /\ g[m] = f[m]
    BY <2>1, <2>2 DEF Keeps
  <2>4. QED BY <1>1, <2>1, <2>3
<1>3. QED BY <1>2 DEF WholeAt

LEMMA WholeKept ==
    ASSUME NEW f, NEW g, TreeStands(f), Keeps(f, g), Whole(f),
           \A p \in DOMAIN g : p[1] \in ReceiptDirs => p \in DOMAIN f \/ WholeAt(g, p)
    PROVE  Whole(g)
BY WholeAtKept DEF Whole

LEMMA ManifestsKept ==
    ASSUME NEW f, NEW g, SameIn("manifests", f, g), Closed(f), Agree(f)
    PROVE  Closed(g) /\ Agree(g)
<1>1. Cut(f) = Cut(g)
  BY PathParts DEF Cut, SameIn
<1>2. \A k \in Cut(f) : Cutting(g, k) = Cutting(f, k)
  BY PathParts DEF Cut, Cutting, SameIn
<1>3. Closed(g)
  BY <1>1, <1>2 DEF Closed
<1>4. ASSUME NEW j \in Cut(f), NEW k \in Cut(f)
      PROVE  /\ Apart(f, j, k) <=> Apart(g, j, k)
             /\ \A x : Differ(f, j, k, x) <=> Differ(g, j, k, x)
  BY <1>2 DEF Apart, Differ
<1>5. \A x : Disputed(f, x) <=> Disputed(g, x)
  BY <1>1, <1>4 DEF Disputed
<1>6. Agree(g)
  BY <1>1, <1>4, <1>5 DEF Agree
<1>7. QED BY <1>3, <1>6

LEMMA SoundKept ==
    ASSUME NEW f, NEW g, NEW B, TreeStands(f), Keeps(f, g), SameIn("objects", f, g),
           SameIn("manifests", f, g), Sound(f, B),
           \A p \in DOMAIN g : p[1] \in ReceiptDirs => p \in DOMAIN f \/ WholeAt(g, p)
    PROVE  Sound(g, B)
BY AcceptedKept, ManifestsKept, WholeKept DEF Sound

LEMMA AlikeSound ==
    ASSUME NEW f, NEW g, NEW B, TreeStands(f), Alike(f, g), Sound(f, B)
    PROVE  Sound(g, B)
<1>1. SameIn("objects", f, g) /\ SameIn("manifests", f, g) /\ Keeps(f, g)
  BY DEF Alike, SameIn, Keeps, FixedDirs
<1>2. \A p \in DOMAIN g : p[1] \in ReceiptDirs => p \in DOMAIN f
  BY DEF Alike, FixedDirs
<1>3. QED BY <1>1, <1>2, SoundKept

(* A file filed where none is, or where the same one is.                    *)
LEMMA FiledKeeps ==
    ASSUME NEW x, NEW v, NEW files, x \in DOMAIN files => files[x] = v
    PROVE  /\ Keeps(files, Filed(x, v, files))
           /\ \A p \in DOMAIN files :
                 p \in DOMAIN Filed(x, v, files) /\ Filed(x, v, files)[p] = files[p]
           /\ \A p \in DOMAIN Filed(x, v, files) : p \in DOMAIN files \/ p = x
<1>1. \A p \in DOMAIN files : p \in DOMAIN Filed(x, v, files) /\ Filed(x, v, files)[p] = files[p]
  BY DEF Filed
<1>2. \A p \in DOMAIN Filed(x, v, files) : p \in DOMAIN files \/ p = x
  BY DEF Filed
<1>3. QED BY <1>1, <1>2 DEF Keeps

LEMMA FiledElsewhere ==
    ASSUME NEW x, NEW v, NEW files, NEW directory, x[1] # directory
    PROVE  SameIn(directory, files, Filed(x, v, files))
<1> SUFFICES ASSUME NEW p, p[1] = directory
             PROVE  /\ p \in DOMAIN files <=> p \in DOMAIN Filed(x, v, files)
                    /\ p \in DOMAIN files => Filed(x, v, files)[p] = files[p]
  BY DEF SameIn
<1>1. p # x
  OBVIOUS
<1>2. QED BY <1>1 DEF Filed

LEMMA StaysIsLater ==
    ASSUME NEW f, NEW g, TreeStands(f), \A p \in DOMAIN f : p \in DOMAIN g /\ g[p] = f[p]
    PROVE  Later(f, g)
<1>1. ASSUME NEW p \in DOMAIN f, p[1] = "objects" PROVE HasState(g, p[2], f[p])
  <2>1. p = Object(p[2])
    BY <1>1 DEF TreeStands, FileStands
  <2>2. QED BY <2>1 DEF HasState
<1>2. QED BY <1>1 DEF Later, Keeps, KeepsStates

-----------------------------------------------------------------------------
(* The engine's writes.                                                     *)
MemberOf(x, kind) == Member(x.number, x.content.decision, kind)

Has(files, x, kind) ==
    MemberOf(x, kind) \in DOMAIN files /\ files[MemberOf(x, kind)] = x.content

LEMMA MemberAmong ==
    ASSUME NEW x, NEW kind \in Kinds
    PROVE  MemberOf(x, kind) \in Members(x)
BY KindsOfBundle DEF Members, MemberOf

LEMMA MemberWhole ==
    ASSUME NEW files, NEW x, x.content \in Contents, NEW kind \in Kinds, Has(files, x, kind),
           \A k \in Kinds : k = "json" \/ kind = "execution" => Has(files, x, k)
    PROVE  WholeAt(files, MemberOf(x, kind))
<1> DEFINE m == MemberOf(x, kind)
<1>1. x.content.decision \in Decisions
  BY DEF Contents
<1>2. m[2] = x.number /\ (m[1] = "executions" => kind = "execution")
  BY <1>1, MemberParts DEF MemberOf, Decisions
<1>3. files[m] = x.content
  BY DEF Has
<1> HIDE DEF m
<1>4. ASSUME NEW k \in Needed(m)
      PROVE  Member(m[2], files[m].decision, k) \in DOMAIN files
             /\ files[Member(m[2], files[m].decision, k)] = files[m]
  <2>1. k \in Kinds /\ (k = "json" \/ kind = "execution")
    BY <1>2, <1>4 DEF Needed, Kinds
  <2>2. Has(files, x, k)
    BY <2>1
  <2>3. Member(m[2], files[m].decision, k) = MemberOf(x, k)
    BY <1>2, <1>3 DEF MemberOf
  <2>4. QED BY <1>3, <2>2, <2>3 DEF Has
<1>5. QED BY <1>4 DEF WholeAt, m

LEMMA MovedKeeps ==
    ASSUME NEW files, NEW B, TreeStands(files), Sound(files, B), NEW x, x.content \in Contents,
           ~BundleConflict(files, x), NEW kind \in Kinds,
           \A k \in Kinds \ {kind} : k = "json" \/ kind = "execution" => Has(files, x, k)
    PROVE  /\ Later(files, Moved(files, x, kind)) /\ Sound(Moved(files, x, kind), B)
           /\ Has(Moved(files, x, kind), x, kind)
<1> DEFINE m == MemberOf(x, kind)
<1>1. x.content.decision \in Decisions
  BY DEF Contents
<1>2. m[1] \in ReceiptDirs
  BY <1>1, MemberFixed DEF MemberOf
<1>3. m \in Members(x)
  BY MemberAmong
<1>4. m \in DOMAIN files => files[m] = x.content
  BY <1>3 DEF BundleConflict
<1>5. Moved(files, x, kind) = IF m \in DOMAIN files THEN files ELSE Filed(m, x.content, files)
  BY DEF Moved, MemberOf
<1> HIDE DEF m
<1>6. CASE m \in DOMAIN files
  <2>1. Moved(files, x, kind) = files
    BY <1>5, <1>6
  <2>2. QED BY <1>4, <1>6, <2>1, LaterReflexive DEF m, Has
<1>7. CASE m \notin DOMAIN files
  <2> DEFINE new == Filed(m, x.content, files)
  <2>1. Moved(files, x, kind) = new
    BY <1>5, <1>7
  <2>2. /\ \A p \in DOMAIN files : p \in DOMAIN new /\ new[p] = files[p]
        /\ \A p \in DOMAIN new : p \in DOMAIN files \/ p = m
    BY <1>7, FiledKeeps
  <2>3. m \in DOMAIN new /\ new[m] = x.content
    BY DEF Filed
  <2>5. m[1] # "objects" /\ m[1] # "manifests"
    BY <1>2 DEF ReceiptDirs, Decisions
  <2>6. SameIn("objects", files, new) /\ SameIn("manifests", files, new)
    BY <2>5, FiledElsewhere
  <2> HIDE DEF new
  <2>7. Later(files, new)
    BY <2>2, StaysIsLater
  <2>8. Has(new, x, kind)
    BY <2>3 DEF Has, m
  <2>9. \A k \in Kinds : k = "json" \/ kind = "execution" => Has(new, x, k)
    BY <2>2, <2>8 DEF Has
  <2>10. WholeAt(new, m)
    BY <2>8, <2>9, MemberWhole DEF m
  <2>11. \A p \in DOMAIN new : p[1] \in ReceiptDirs => p \in DOMAIN files \/ WholeAt(new, p)
    BY <2>2, <2>10
  <2>12. Sound(new, B)
    BY <2>6, <2>7, <2>11, SoundKept DEF Later
  <2>13. QED BY <2>1, <2>7, <2>8, <2>12
<1>8. QED BY <1>6, <1>7

LEMMA BundledKeeps ==
    ASSUME NEW files, NEW B, TreeStands(files), Sound(files, B), NEW x, x.content \in Contents,
           ~BundleConflict(files, x)
    PROVE  /\ Later(files, Bundled(files, x)) /\ Sound(Bundled(files, x), B)
           /\ \A kind \in Kinds : Has(Bundled(files, x), x, kind)
<1> DEFINE new == Bundled(files, x)
<1>1. x.content.decision \in Decisions
  BY DEF Contents
<1>2. ASSUME NEW m \in Members(x) PROVE m[1] \in ReceiptDirs
  <2>1. PICK kind : m = Member(x.number, x.content.decision, kind)
    BY DEF Members
  <2>2. QED BY <1>1, <2>1, MemberFixed
<1>3. \A m \in Members(x) : m \in DOMAIN files => files[m] = x.content
  BY DEF BundleConflict
<1>4. DOMAIN new = Members(x) \cup DOMAIN files
  BY DEF Bundled, Over
<1>5. \A p \in DOMAIN files : new[p] = files[p]
  BY DEF Bundled, Over
<1>6. \A p \in Members(x) : p \notin DOMAIN files => new[p] = x.content
  BY DEF Bundled, Over
<1> HIDE DEF new
<1>7. \A kind \in Kinds : Has(new, x, kind)
  BY <1>3, <1>4, <1>5, <1>6, MemberAmong DEF Has
<1>9. \A p \in DOMAIN files : p \in DOMAIN new /\ new[p] = files[p]
  BY <1>4, <1>5
<1>10. Later(files, new)
  BY <1>9, StaysIsLater
<1>11. ASSUME NEW d \in {"objects", "manifests"} PROVE SameIn(d, files, new)
  <2>1. \A p \in Members(x) : p[1] # d
    BY <1>2 DEF ReceiptDirs, Decisions
  <2>2. QED BY <1>4, <1>5, <2>1 DEF SameIn
<1>12. ASSUME NEW p \in DOMAIN new, p \notin DOMAIN files PROVE WholeAt(new, p)
  <2>1. p \in Members(x)
    BY <1>4, <1>12
  <2>2. PICK kind \in Kinds : p = MemberOf(x, kind)
    BY <2>1, KindsOfBundle DEF Members, MemberOf
  <2>3. QED BY <1>7, <2>2, MemberWhole
<1>13. Sound(new, B)
  BY <1>10, <1>11, <1>12, SoundKept DEF Later
<1>14. QED BY <1>7, <1>10, <1>13 DEF new

(* The registered state of r's object is r's own or archived.               *)
Safe(files, r) ==
    Object(r.id) \in DOMAIN files =>
        \/ files[Object(r.id)] = r
        \/ LET past == History(r.id, files[Object(r.id)].version)
           IN  past \in DOMAIN files /\ files[past] = files[Object(r.id)]

(* A state filed in the history, where there is none or the same.            *)
LEMMA FiledSound ==
    ASSUME NEW x, NEW v, NEW files, NEW B, TreeStands(files), Sound(files, B),
           x \in DOMAIN files => files[x] = v, x[1] = "history"
    PROVE  /\ Later(files, Filed(x, v, files)) /\ Sound(Filed(x, v, files), B)
           /\ \A p \in DOMAIN files :
                 p \in DOMAIN Filed(x, v, files) /\ Filed(x, v, files)[p] = files[p]
<1> DEFINE new == Filed(x, v, files)
<1>1. /\ \A p \in DOMAIN files : p \in DOMAIN new /\ new[p] = files[p]
      /\ \A p \in DOMAIN new : p \in DOMAIN files \/ p = x
  BY FiledKeeps
<1>2. SameIn("objects", files, new) /\ SameIn("manifests", files, new)
  BY FiledElsewhere
<1> HIDE DEF new
<1>3. Later(files, new)
  BY <1>1, StaysIsLater
<1>4. x[1] \notin ReceiptDirs
  BY DEF ReceiptDirs, Decisions
<1>5. \A p \in DOMAIN new : p[1] \in ReceiptDirs => p \in DOMAIN files
  BY <1>1, <1>4
<1>6. Sound(new, B)
  BY <1>2, <1>3, <1>5, SoundKept DEF Later
<1>7. QED BY <1>1, <1>3, <1>6 DEF new

LEMMA ArchivedKeeps ==
    ASSUME NEW files, NEW B, TreeStands(files), Sound(files, B), NEW r, ~RegisterConflict(files, r)
    PROVE  /\ Later(files, Archived(files, r)) /\ Sound(Archived(files, r), B)
           /\ Safe(Archived(files, r), r)
<1> DEFINE old == files[Object(r.id)]
           past == History(r.id, old.version)
           new == Filed(past, old, files)
<1>1. CASE Object(r.id) \in DOMAIN files /\ old # r
  <2>1. Archived(files, r) = new
    BY <1>1 DEF Archived
  <2>2. past \in DOMAIN files => files[past] = old
    BY <1>1 DEF RegisterConflict
  <2>3. past[1] = "history"
    BY PathParts
  <2>5. past \in DOMAIN new /\ new[past] = old
    BY DEF Filed
  <2>6. /\ Later(files, new) /\ Sound(new, B)
        /\ \A p \in DOMAIN files : p \in DOMAIN new /\ new[p] = files[p]
    <3> SUFFICES ASSUME NEW x, x = past, NEW v, v = old
                 PROVE  /\ Later(files, Filed(x, v, files)) /\ Sound(Filed(x, v, files), B)
                        /\ \A p \in DOMAIN files : /\ p \in DOMAIN Filed(x, v, files)
                                                   /\ Filed(x, v, files)[p] = files[p]
      OBVIOUS
    <3>1. x[1] = "history" /\ (x \in DOMAIN files => files[x] = v)
      BY <2>2, <2>3
    <3> HIDE DEF old, past
    <3>2. QED BY <3>1, FiledSound
  <2>9. Object(r.id) \in DOMAIN new /\ new[Object(r.id)] = old
    BY <1>1, <2>6
  <2>10. Safe(new, r)
    <3> HIDE DEF new
    <3>1. History(r.id, new[Object(r.id)].version) = past
      BY <2>9
    <3>2. new[History(r.id, new[Object(r.id)].version)] = new[Object(r.id)]
      BY <2>5, <2>9, <3>1
    <3>3. QED BY <2>5, <3>1, <3>2 DEF Safe
  <2> HIDE DEF new
  <2>13. QED BY <2>1, <2>6, <2>10
<1>2. CASE ~(Object(r.id) \in DOMAIN files /\ old # r)
  <2>1. Archived(files, r) = files
    BY <1>2 DEF Archived
  <2>2. Safe(files, r)
    BY <1>2 DEF Safe
  <2>3. QED BY <2>1, <2>2, LaterReflexive
<1>3. QED BY <1>1, <1>2

LEMMA WrittenKeeps ==
    ASSUME NEW files, NEW B, TreeStands(files), Sound(files, B), NEW r, Safe(files, r),
           HasBundle(files, r) \/ r \in B
    PROVE  Later(files, Written(files, r)) /\ Sound(Written(files, r), B)
<1> DEFINE o == Object(r.id)
           new == Written(files, r)
<1>1. o[1] = "objects"
  BY PathParts
<1>2. o[1] \notin FixedDirs /\ o[1] \notin ReceiptDirs /\ o[1] # "manifests"
  BY <1>1 DEF FixedDirs, ReceiptDirs, Decisions
<1>3. /\ DOMAIN new = DOMAIN files \cup {o}
      /\ new[o] = r
      /\ \A p \in DOMAIN files : p # o => new[p] = files[p]
  BY DEF Written, Filed
<1>4. SameIn("manifests", files, new)
  BY <1>2, FiledElsewhere DEF Written
<1> HIDE DEF new, o
<1>5. Keeps(files, new)
  BY <1>2, <1>3 DEF Keeps
<1>6. ASSUME NEW p \in DOMAIN files, p[1] = "objects" PROVE HasState(new, p[2], files[p])
  <2>1. p = Object(p[2])
    BY <1>6 DEF TreeStands, FileStands
  <2>2. CASE p # o
    <3>1. p \in DOMAIN new /\ new[p] = files[p]
      BY <1>3, <2>2
    <3>2. QED BY <2>1, <3>1 DEF HasState
  <2>3. CASE p = o
    <3>1. p[2] = r.id
      BY <2>3, PathParts DEF o
    <3>2. CASE files[p] = r
      <4>1. p \in DOMAIN new /\ new[p] = files[p]
        BY <1>3, <2>3, <3>2
      <4>2. QED BY <2>1, <4>1 DEF HasState
    <3>3. CASE files[p] # r
      <4> DEFINE past == History(r.id, files[p].version)
      <4>1. past \in DOMAIN files /\ files[past] = files[p]
        BY <2>3, <3>3 DEF Safe, o
      <4>2. past[1] \in FixedDirs
        BY PathParts DEF FixedDirs
      <4>3. past \in DOMAIN new /\ new[past] = files[p]
        BY <1>5, <4>1, <4>2 DEF Keeps
      <4>4. QED BY <3>1, <4>3 DEF HasState
    <3>4. QED BY <3>2, <3>3
  <2>4. QED BY <2>2, <2>3
<1>7. Later(files, new)
  BY <1>5, <1>6 DEF Later, KeepsStates
<1>8. HasBundle(new, r) \/ r \in B
  BY <1>5, HasBundleKept
<1>9. ASSUME NEW p \in DOMAIN new, p[1] = "objects" PROVE Admitted(new, B, p)
  <2>1. CASE p = o
    BY <1>3, <1>8, <2>1 DEF Admitted
  <2>2. CASE p # o
    <3>1. p \in DOMAIN files /\ new[p] = files[p]
      BY <1>3, <2>2
    <3>2. Admitted(files, B, p)
      BY <1>9, <3>1 DEF Sound, Accepted
    <3>3. QED BY <1>5, <3>1, <3>2, AdmittedKept
  <2>3. QED BY <2>1, <2>2
<1>10. Accepted(new, B)
  BY <1>9 DEF Accepted
<1>11. \A p \in DOMAIN new : p[1] \in ReceiptDirs => p \in DOMAIN files
  BY <1>2, <1>3
<1>12. Whole(new)
  BY <1>5, <1>11, WholeKept DEF Sound
<1>13. Sound(new, B)
  BY <1>4, <1>10, <1>12, ManifestsKept DEF Sound
<1>14. QED BY <1>7, <1>13 DEF new

(* The hashes of a new manifest are those released, where there are.         *)
Naming(files, g) == {k \in Under(files, "manifests") : g \in DOMAIN files[Manifest(k)].hashes}

LEMMA ReleasedReads ==
    ASSUME NEW files, TreeStands(files), NEW g \in Governing, NEW k \in Cut(files),
           g \in DOMAIN Cutting(files, k).hashes
    PROVE  /\ g \in DOMAIN Released(files)
           /\ \E m \in Cut(files) : /\ g \in DOMAIN Cutting(files, m).hashes
                                    /\ Released(files)[g] = Cutting(files, m).hashes[g]
<1>1. Under(files, "manifests") = Cut(files)
  BY CutIsUnder
<1>2. k \in Naming(files, g)
  BY <1>1 DEF Naming, Cutting
<1>3. Naming(files, g) \subseteq Numbers
  BY <1>1 DEF Naming, Cut
<1>4. Max(Naming(files, g)) \in Naming(files, g)
  BY <1>2, <1>3, GreatestExists
<1>5. Released(files) = [x \in {y \in Governing : Naming(files, y) # {}} |->
                           files[Manifest(Max(Naming(files, x)))].hashes[x]]
  BY DEF Released, Naming
<1>6. g \in {y \in Governing : Naming(files, y) # {}}
  BY <1>2
<1>7. Released(files)[g] = files[Manifest(Max(Naming(files, g)))].hashes[g]
  BY <1>5, <1>6
<1>8. PICK m : m = Max(Naming(files, g))
  OBVIOUS
<1>9. m \in Cut(files) /\ g \in DOMAIN Cutting(files, m).hashes
  BY <1>1, <1>4, <1>8 DEF Naming, Cutting
<1>10. g \in DOMAIN Released(files)
  BY <1>5, <1>6
<1>11. QED BY <1>7, <1>8, <1>9, <1>10 DEF Cutting

LEMMA ReleasedHas ==
    ASSUME NEW files, TreeStands(files), NEW g \in DOMAIN Released(files)
    PROVE  /\ g \in Governing
           /\ \E m \in Cut(files) : /\ g \in DOMAIN Cutting(files, m).hashes
                                    /\ Released(files)[g] = Cutting(files, m).hashes[g]
<1>1. g \in Governing /\ Naming(files, g) # {}
  BY DEF Released, Naming
<1>2. PICK k \in Cut(files) : g \in DOMAIN Cutting(files, k).hashes
  BY <1>1, CutIsUnder DEF Naming, Cutting
<1>3. QED BY <1>1, <1>2, ReleasedReads

LEMMA ReleaseKeeps ==
    ASSUME NEW files, NEW B, TreeStands(files), Sound(files, B), NEW k \in Numbers,
           k \notin Cut(files)
    PROVE  /\ Later(files, Filed(Manifest(k), NewManifest(files), files))
           /\ Sound(Filed(Manifest(k), NewManifest(files), files), B)
<1> DEFINE m == Manifest(k)
           new == Filed(m, NewManifest(files), files)
<1>1. m \notin DOMAIN files /\ m[1] = "manifests"
  BY PathParts DEF Cut
<1>2. /\ \A p \in DOMAIN files : p \in DOMAIN new /\ new[p] = files[p]
      /\ \A p \in DOMAIN new : p \in DOMAIN files \/ p = m
  <2> HIDE DEF m
  <2> QED BY <1>1, FiledKeeps
<1>3. m[1] \notin ReceiptDirs /\ SameIn("objects", files, new)
  <2>1. m[1] \notin ReceiptDirs /\ m[1] # "objects"
    BY <1>1 DEF ReceiptDirs, Decisions
  <2> HIDE DEF m
  <2>2. QED BY <2>1, FiledElsewhere
<1>4. DOMAIN new = DOMAIN files \cup {m} /\ new[m] = NewManifest(files)
  BY DEF Filed
<1> HIDE DEF new
<1>5. Later(files, new)
  BY <1>2, StaysIsLater
<1>6. Cut(new) = Cut(files) \cup {k}
  <2>1. \A j : Manifest(j) = m => j = k
    BY DEF Manifest
  <2>2. QED BY <1>4, <2>1 DEF Cut
<1>7. \A j \in Cut(files) : Cutting(new, j) = Cutting(files, j)
  BY <1>2 DEF Cut, Cutting
<1>8. Cutting(new, k).after = Cut(files) /\ Cutting(new, k).hashes = Hashes(files)
  BY <1>4, CutIsUnder DEF Cutting, NewManifest
<1>9. Closed(new)
  <2>1. \A j \in Cut(files) : Cutting(new, j).after \subseteq Cut(new)
    BY <1>6, <1>7 DEF Sound, Closed
  <2>2. QED BY <1>6, <1>8, <2>1 DEF Closed
<1>10. ASSUME NEW i \in Cut(files), NEW j \in Cut(files)
       PROVE  /\ Apart(files, i, j) <=> Apart(new, i, j)
              /\ \A g : Differ(files, i, j, g) <=> Differ(new, i, j, g)
  BY <1>7 DEF Apart, Differ
<1>11. ASSUME NEW g, Disputed(files, g) PROVE Disputed(new, g)
  <2>1. PICK i, j \in Cut(files) : Differ(files, i, j, g) /\ Apart(files, i, j)
    BY <1>11 DEF Disputed
  <2>2. Differ(new, i, j, g) /\ Apart(new, i, j)
    BY <1>10, <2>1
  <2>3. QED BY <1>6, <2>2 DEF Disputed
<1>12. ASSUME NEW j \in Cut(files), NEW g \in Governing, Differ(new, j, k, g)
       PROVE  Disputed(new, g)
  <2>1. g \in DOMAIN Cutting(files, j).hashes /\ Cutting(files, j).hashes[g] # Hashes(files)[g]
    BY <1>7, <1>8, <1>12 DEF Differ
  <2>2. g \in DOMAIN Released(files)
    BY <2>1, ReleasedReads
  <2>3. PICK i \in Cut(files) : /\ g \in DOMAIN Cutting(files, i).hashes
                                /\ Released(files)[g] = Cutting(files, i).hashes[g]
    BY <2>1, ReleasedReads
  <2>4. Hashes(files)[g] = Released(files)[g]
    BY <2>2 DEF Hashes, Over
  <2>5. Differ(files, j, i, g)
    BY <2>1, <2>3, <2>4 DEF Differ
  <2>6. Disputed(files, g)
    BY <2>5 DEF Sound, Agree
  <2>7. QED BY <1>11, <2>6
<1>13. ASSUME NEW i \in Cut(new), NEW j \in Cut(new), NEW g \in Governing, Differ(new, i, j, g)
       PROVE  Disputed(new, g)
  <2>1. CASE i \in Cut(files) /\ j \in Cut(files)
    <3>1. Differ(files, i, j, g)
      BY <1>10, <1>13, <2>1
    <3>2. QED BY <1>11, <3>1, <2>1 DEF Sound, Agree
  <2>2. CASE i \in Cut(files) /\ j = k
    BY <1>12, <1>13, <2>2
  <2>3. CASE i = k /\ j \in Cut(files)
    <3>1. Differ(new, j, k, g)
      BY <1>13, <2>3 DEF Differ
    <3>2. QED BY <1>12, <2>3, <3>1
  <2>4. CASE i = k /\ j = k
    BY <1>13, <2>4 DEF Differ
  <2>5. QED BY <1>6, <2>1, <2>2, <2>3, <2>4
<1>14. Agree(new)
  BY <1>13 DEF Agree
<1>15. Accepted(new, B)
  BY <1>3, <1>5, AcceptedKept DEF Later, Sound
<1>16. \A p \in DOMAIN new : p[1] \in ReceiptDirs => p \in DOMAIN files
  BY <1>2, <1>3
<1>17. Whole(new)
  BY <1>5, <1>16, WholeKept DEF Sound, Later
<1>18. Sound(new, B)
  BY <1>9, <1>14, <1>15, <1>17 DEF Sound
<1>19. QED BY <1>5, <1>18 DEF new

-----------------------------------------------------------------------------
(* git's merge.                                                             *)
LEMMA SideSame ==
    ASSUME NEW f, NEW g, NEW p
    PROVE  Side(f, p) = Side(g, p) <=> /\ p \in DOMAIN f <=> p \in DOMAIN g
                                       /\ p \in DOMAIN f => f[p] = g[p]
BY DEF Side

BlendDirs == {"objects", "sources", "governing"}

LEMMA MergedReads ==
    ASSUME NEW b, Keeps(base[b], main), Later(base[b], tree[b]), ~MergeConflict(b)
    PROVE  /\ Keeps(main, Merged(b)) /\ Keeps(tree[b], Merged(b))
           /\ \A p \in DOMAIN Merged(b) :
                 \/ p \in DOMAIN main /\ Merged(b)[p] = main[p]
                 \/ p \in DOMAIN tree[b] /\ Merged(b)[p] = tree[b][p]
                 \/ p \in ChangedTwice(b) /\ p \in DOMAIN tree[b] /\ p[1] \in BlendDirs
           /\ \A p \in DOMAIN main : p \in DOMAIN Merged(b)
           /\ \A p \in DOMAIN main : \/ Merged(b)[p] = main[p]
                                     \/ /\ p \in DOMAIN base[b] /\ base[b][p] = main[p]
                                        /\ ~(p \in DOMAIN tree[b] /\ tree[b][p] = base[b][p])
                                     \/ p \in ChangedTwice(b)
<1> DEFINE f == base[b]
           t == tree[b]
           new == Merged(b)
           changed == Changed(b)
           twice == ChangedTwice(b)
<1>1. /\ DOMAIN new = changed \cup DOMAIN main
      /\ \A p \in changed : p \notin twice => new[p] = t[p]
      /\ \A p \in DOMAIN main : p \notin changed => new[p] = main[p]
  BY DEF Merged, Over, MergedFile
<1>2. ASSUME NEW p \in changed, p \notin twice, p \in DOMAIN main
      PROVE  \/ p \in DOMAIN t /\ t[p] = main[p]
             \/ /\ p \in DOMAIN f /\ f[p] = main[p]
                /\ ~(p \in DOMAIN t /\ t[p] = f[p])
  <2>1. Side(t, p) # Side(f, p)
    BY DEF Changed
  <2>2. Side(main, p) = Side(f, p) \/ Side(main, p) = Side(t, p)
    BY <1>2, <2>1 DEF ChangedTwice
  <2>3. CASE Side(main, p) = Side(t, p)
    BY <1>2, <2>3, SideSame
  <2>4. CASE Side(main, p) = Side(f, p)
    <3>1. p \in DOMAIN f /\ f[p] = main[p]
      BY <1>2, <2>4, SideSame
    <3>2. ~(p \in DOMAIN t /\ t[p] = f[p])
      BY <2>1, <3>1, SideSame
    <3>3. QED BY <3>1, <3>2
  <2>5. QED BY <2>2, <2>3, <2>4
<1>3. ASSUME NEW p \in DOMAIN t, p \notin changed
      PROVE  p \in DOMAIN f /\ f[p] = t[p]
  <2>1. Side(t, p) = Side(f, p) /\ p \in DOMAIN t
    BY <1>3 DEF Changed
  <2> HIDE DEF f, t, changed
  <2>2. QED BY <2>1, SideSame
<1>4. ASSUME NEW p \in changed PROVE p \in DOMAIN t
  BY DEF Changed
<1>5. Keeps(f, main) /\ Keeps(f, t)
  BY DEF Later
<1>6. ASSUME NEW p \in twice PROVE p \in changed /\ p[1] \in BlendDirs /\ p[1] \notin FixedDirs
  <2>1. p \in changed /\ Blends(b, p)
    BY DEF ChangedTwice, MergeConflict
  <2>2. p[1] \in BlendDirs
    BY <2>1 DEF Blends, BlendDirs
  <2>3. QED BY <2>1, <2>2 DEF BlendDirs, FixedDirs, ReceiptDirs, Decisions
<1> HIDE DEF f, t, new, changed, twice
<1>7. ASSUME NEW p \in DOMAIN main, p[1] \in FixedDirs
      PROVE  p \in DOMAIN new /\ new[p] = main[p]
  <2>1. CASE p \in changed
    <3>1. p \in DOMAIN f => p \in DOMAIN t /\ t[p] = f[p]
      BY <1>5, <1>7 DEF Keeps
    <3>2. p \notin twice
      BY <1>6, <1>7
    <3>3. t[p] = main[p]
      BY <1>2, <2>1, <3>1, <3>2
    <3>4. QED BY <1>1, <2>1, <3>2, <3>3
  <2>2. CASE p \notin changed
    BY <1>1, <2>2
  <2>3. QED BY <2>1, <2>2
<1>8. ASSUME NEW p \in DOMAIN t, p[1] \in FixedDirs
      PROVE  p \in DOMAIN new /\ new[p] = t[p]
  <2>1. CASE p \in changed
    BY <1>1, <1>6, <1>8, <2>1
  <2>2. CASE p \notin changed
    <3>1. p \in DOMAIN f /\ f[p] = t[p]
      BY <1>3, <2>2
    <3>2. p \in DOMAIN main /\ main[p] = f[p]
      BY <1>5, <1>8, <3>1 DEF Keeps
    <3>3. QED BY <1>1, <2>2, <3>1, <3>2
  <2>3. QED BY <2>1, <2>2
<1>9. Keeps(main, new)
  BY <1>7 DEF Keeps
<1>10. Keeps(t, new)
  BY <1>8 DEF Keeps
<1>11. ASSUME NEW p \in DOMAIN new
       PROVE  \/ p \in DOMAIN main /\ new[p] = main[p]
              \/ p \in DOMAIN t /\ new[p] = t[p]
              \/ p \in twice /\ p \in DOMAIN t /\ p[1] \in BlendDirs
  BY <1>1, <1>4, <1>6
<1>12. \A p \in DOMAIN main : p \in DOMAIN new
  BY <1>1
<1>13. ASSUME NEW p \in DOMAIN main
       PROVE  \/ new[p] = main[p]
              \/ p \in DOMAIN f /\ f[p] = main[p] /\ ~(p \in DOMAIN t /\ t[p] = f[p])
              \/ p \in twice
  BY <1>1, <1>2
<1>14. QED BY <1>9, <1>10, <1>11, <1>12, <1>13 DEF f, t, new, twice

(* What the merge makes of the objects of the default branch.               *)
Combines(b, f, g) ==
    \A p \in DOMAIN f : p[1] = "objects" => HasState(g, p[2], f[p]) \/ p \in ChangedTwice(b)

LEMMA MergedKeeps ==
    ASSUME NEW b, TreeStands(main), TreeStands(tree[b]), Sound(main, bare), Sound(tree[b], bare),
           Keeps(base[b], main), Later(base[b], tree[b]), ~MergeConflict(b)
    PROVE  /\ Keeps(main, Merged(b)) /\ Combines(b, main, Merged(b))
           /\ Sound(Merged(b), bare \cup Mixed(b))
<1> DEFINE new == Merged(b)
           t == tree[b]
           old == main
           twice == ChangedTwice(b)
           B == bare \cup Mixed(b)
<1>1. /\ Keeps(old, new) /\ Keeps(t, new)
      /\ \A p \in DOMAIN new : \/ p \in DOMAIN old /\ new[p] = old[p]
                               \/ p \in DOMAIN t /\ new[p] = t[p]
                               \/ p \in twice /\ p \in DOMAIN t /\ p[1] \in BlendDirs
      /\ \A p \in DOMAIN old : p \in DOMAIN new
      /\ \A p \in DOMAIN old : \/ new[p] = old[p]
                               \/ /\ p \in DOMAIN base[b] /\ base[b][p] = old[p]
                                  /\ ~(p \in DOMAIN t /\ t[p] = base[b][p])
                               \/ p \in twice
  BY MergedReads
<1>2. TreeStands(old) /\ TreeStands(t) /\ Later(base[b], t)
  OBVIOUS
<1>3. Sound(old, B) /\ Sound(t, B)
  BY SoundGrows
<1>4. \A p \in twice : p[1] = "objects" => new[p] \in {old[p], t[p]} \/ new[p] \in B
  BY DEF Mixed
<1>5. ASSUME NEW p \in twice, p[1] = "objects" PROVE p \in DOMAIN old /\ p \in DOMAIN t
  <2>1. Blends(b, p) /\ p \in Changed(b)
    BY DEF MergeConflict, ChangedTwice
  <2>2. QED BY <2>1 DEF Blends, Changed
<1> HIDE DEF new, t, old, twice, B
<1>6. ASSUME NEW p \in DOMAIN old, p[1] = "objects" PROVE HasState(new, p[2], old[p]) \/ p \in twice
  <2>1. p = Object(p[2])
    BY <1>2, <1>6 DEF TreeStands, FileStands
  <2>2. CASE new[p] = old[p]
    BY <1>1, <2>1, <2>2 DEF HasState
  <2>3. CASE new[p] # old[p] /\ p \notin twice
    <3>1. p \in DOMAIN base[b] /\ base[b][p] = old[p] /\ ~(p \in DOMAIN t /\ t[p] = base[b][p])
      BY <1>1, <2>3
    <3>2. HasState(t, p[2], base[b][p])
      BY <1>2, <1>6, <3>1 DEF Later, KeepsStates
    <3>3. PICK q \in {Object(p[2]), History(p[2], old[p].version)} : q \in DOMAIN t /\ t[q] = old[p]
      BY <3>1, <3>2 DEF HasState
    <3>4. q = History(p[2], old[p].version)
      BY <2>1, <3>1, <3>3
    <3>5. q \in DOMAIN new /\ new[q] = t[q]
      BY <1>1, <3>3, <3>4, PathParts DEF Keeps, FixedDirs
    <3>6. QED BY <3>3, <3>4, <3>5 DEF HasState
  <2>4. QED BY <2>2, <2>3
<1>7. Combines(b, old, new)
  BY <1>6 DEF Combines, twice
<1>8. ASSUME NEW g, Sound(g, B), Keeps(g, new), NEW p \in DOMAIN g, p[1] = "objects", new[p] = g[p]
      PROVE  Admitted(new, B, p)
  BY <1>8, AdmittedKept DEF Sound, Accepted
<1>9. ASSUME NEW p \in DOMAIN new, p[1] = "objects" PROVE Admitted(new, B, p)
  <2>1. CASE p \in DOMAIN old /\ new[p] = old[p]
    BY <1>1, <1>3, <1>8, <1>9, <2>1
  <2>2. CASE p \in DOMAIN t /\ new[p] = t[p]
    BY <1>1, <1>3, <1>8, <1>9, <2>2
  <2>3. CASE p \in twice /\ new[p] \in B
    BY <2>3 DEF Admitted
  <2>4. CASE p \in twice /\ new[p] \in {old[p], t[p]}
    BY <1>5, <1>9, <2>1, <2>2, <2>4
  <2>5. QED BY <1>1, <1>4, <1>9, <2>1, <2>2, <2>3, <2>4
<1>10. Accepted(new, B)
  BY <1>9 DEF Accepted
<1>11. ASSUME NEW p \in DOMAIN new, p[1] \in ReceiptDirs PROVE WholeAt(new, p)
  <2>1. p \in DOMAIN old \/ p \in DOMAIN t
    BY <1>1, <1>11 DEF BlendDirs, ReceiptDirs, Decisions
  <2>2. QED BY <1>1, <1>2, <1>3, <1>11, <2>1, WholeAtKept DEF Sound, Whole
<1>12. Whole(new)
  BY <1>11 DEF Whole
<1>13. ASSUME NEW g, Keeps(g, new), NEW k \in Cut(g)
       PROVE  k \in Cut(new) /\ Cutting(new, k) = Cutting(g, k)
  <2>1. Manifest(k) \in DOMAIN g /\ Manifest(k)[1] \in FixedDirs /\ k \in Numbers
    BY PathParts DEF Cut, FixedDirs
  <2>2. QED BY <1>13, <2>1 DEF Keeps, Cut, Cutting
<1>14. ASSUME NEW k \in Cut(new) PROVE k \in Cut(old) \/ k \in Cut(t)
  BY <1>1 DEF Cut
<1>15. ASSUME NEW k \in Cut(new) PROVE Cutting(new, k).after \subseteq Cut(new)
  <2>1. ASSUME NEW g, Keeps(g, new), Sound(g, B), k \in Cut(g)
        PROVE  Cutting(new, k).after \subseteq Cut(new)
    BY <1>13, <2>1 DEF Sound, Closed
  <2>2. QED BY <1>1, <1>3, <1>14, <2>1
<1>16. Closed(new)
  BY <1>15 DEF Closed
<1>17. ASSUME NEW f, Keeps(f, new), Sound(f, B), NEW j \in Cut(f), NEW k \in Cut(f),
              NEW g \in Governing, Differ(new, j, k, g)
       PROVE  Disputed(new, g)
  <2>1. Differ(f, j, k, g)
    <3>1. Cutting(new, j) = Cutting(f, j) /\ Cutting(new, k) = Cutting(f, k)
      BY <1>13, <1>17
    <3>2. QED BY <1>17, <3>1 DEF Differ
  <2>2. PICK i, l \in Cut(f) : Differ(f, i, l, g) /\ Apart(f, i, l)
    BY <1>17, <2>1 DEF Sound, Agree, Disputed
  <2>3. /\ Cutting(new, i) = Cutting(f, i) /\ Cutting(new, l) = Cutting(f, l)
        /\ i \in Cut(new) /\ l \in Cut(new)
    BY <1>13, <1>17
  <2>4. Differ(new, i, l, g) /\ Apart(new, i, l)
    BY <2>2, <2>3 DEF Differ, Apart
  <2>5. QED BY <2>3, <2>4 DEF Disputed
<1>18. ASSUME NEW j \in Cut(old), j \notin Cut(t), NEW k \in Cut(t), k \notin Cut(old)
       PROVE  Apart(new, j, k)
  <2>1. Cutting(old, j).after \subseteq Cut(old) /\ Cutting(t, k).after \subseteq Cut(t)
    BY <1>3 DEF Sound, Closed
  <2>2. Cutting(new, j) = Cutting(old, j) /\ Cutting(new, k) = Cutting(t, k)
    BY <1>1, <1>13
  <2>3. QED BY <1>18, <2>1, <2>2 DEF Apart
<1>19. ASSUME NEW j \in Cut(new), NEW k \in Cut(new), NEW g \in Governing, Differ(new, j, k, g)
       PROVE  Disputed(new, g)
  <2>1. CASE j \in Cut(old) /\ k \in Cut(old)
    BY <1>1, <1>3, <1>17, <1>19, <2>1
  <2>2. CASE j \in Cut(t) /\ k \in Cut(t)
    BY <1>1, <1>3, <1>17, <1>19, <2>2
  <2>3. CASE j \in Cut(old) /\ j \notin Cut(t) /\ k \in Cut(t) /\ k \notin Cut(old)
    BY <1>18, <1>19, <2>3 DEF Disputed
  <2>4. CASE k \in Cut(old) /\ k \notin Cut(t) /\ j \in Cut(t) /\ j \notin Cut(old)
    <3>1. Apart(new, k, j)
      BY <1>18, <2>4
    <3>2. Differ(new, k, j, g)
      BY <1>19 DEF Differ
    <3>3. QED BY <1>19, <3>1, <3>2 DEF Disputed
  <2>5. QED BY <1>14, <2>1, <2>2, <2>3, <2>4
<1>20. Agree(new)
  BY <1>19 DEF Agree
<1>21. Sound(new, B)
  BY <1>10, <1>12, <1>16, <1>20 DEF Sound
<1>22. QED BY <1>1, <1>7, <1>21 DEF new, old, t, B

-----------------------------------------------------------------------------
(* A run.  The members it has moved are there; it registers an object only   *)
(* with its complete accepted bundle there, unless it writes none (0), and  *)
(* writes its state when the state it writes over is archived.              *)
Running(files, r) ==
    r \in EngineRun =>
        /\ r.step = "bundle" => \A kind \in Kinds \ Range(r.left) : Has(files, r, kind)
        /\ r.step \in {"archive", "write", "publish"} =>
              /\ r.content.decision = "ACCEPTED"
              /\ r.number # 0 => \A kind \in Kinds : Has(files, r, kind)
        /\ r.step = "write" => Safe(files, r.content.record)

LEMMA HasIsKept ==
    ASSUME NEW f, NEW g, Keeps(f, g), NEW x, x.content \in Contents, NEW kind, Has(f, x, kind)
    PROVE  Has(g, x, kind)
<1>1. MemberOf(x, kind)[1] \in FixedDirs
  BY MemberFixed DEF MemberOf, Contents
<1>2. QED BY <1>1 DEF Has, Keeps

LEMMA BundleIsThere ==
    ASSUME NEW files, NEW x, x.number \in Numbers, x.content.decision = "ACCEPTED",
           \A kind \in Kinds : Has(files, x, kind)
    PROVE  HasBundle(files, x.content.record)
BY DEF HasBundle, Has, MemberOf

LEMMA MovedRunning ==
    ASSUME Typed, NEW b \in Branches, MoveMember(b), Sound(tree[b], bare), Running(tree[b], run[b])
    PROVE  LET files == Moved(tree[b], run[b], Head(run[b].left))
           IN  Later(tree[b], files) /\ Sound(files, bare) /\ Running(files, MovedRun(b))
<1> DEFINE r == run[b]
           kind == Head(r.left)
           files == Moved(tree[b], r, kind)
           next == MovedRun(b)
<1>1. r \in EngineRun /\ TreeStands(tree[b])
  BY MoveMemberLeaves DEF Typed
<1>2. r.left \in Lefts /\ r.left # << >> /\ r.content \in Contents
  BY <1>1 DEF EngineRun, MoveMember
<1>3. /\ kind \in Kinds
      /\ Range(r.left) = Range(Tail(r.left)) \cup {kind}
      /\ Len(r.left) <= 1 => Range(Tail(r.left)) = {}
      /\ \A k \in Kinds : k # kind /\ (k = "json" \/ kind = "execution") => k \notin Range(r.left)
  BY <1>2, HeadAndTail
<1>4. ~BundleConflict(tree[b], r)
  BY DEF MoveMember
<1>5. \A k \in Kinds \ Range(r.left) : Has(tree[b], r, k)
  BY <1>1 DEF MoveMember, Running
<1>6. \A k \in Kinds \ {kind} : k = "json" \/ kind = "execution" => Has(tree[b], r, k)
  BY <1>3, <1>5
<1>7. Later(tree[b], files) /\ Sound(files, bare) /\ Has(files, r, kind)
  BY <1>1, <1>2, <1>3, <1>4, <1>6, MovedKeeps
<1>8. /\ next.content = r.content /\ next.number = r.number /\ next.left = Tail(r.left)
      /\ next.step = AfterMember(b)
  BY <1>1 DEF MovedRun, EngineRun
<1>9. ASSUME NEW k \in Kinds \ Range(Tail(r.left)) PROVE Has(files, next, k)
  <2>1. Has(files, r, k)
    <3>1. CASE k = kind
      BY <1>7, <3>1
    <3>2. CASE k # kind
      <4>1. Has(tree[b], r, k)
        BY <1>3, <1>5, <3>2
      <4>2. QED BY <1>2, <1>7, <4>1, HasIsKept DEF Later
    <3>3. QED BY <3>1, <3>2
  <2>2. QED BY <1>8, <2>1 DEF Has, MemberOf
<1>10. next.step \in {"archive", "write", "publish"} =>
           Range(Tail(r.left)) = {} /\ next.content.decision = "ACCEPTED"
  <2>1. r.left \in Lefts => Len(r.left) \in Nat
    BY DEF Lefts, Bundle
  <2>2. QED BY <1>2, <1>3, <1>8, <2>1 DEF AfterMember
<1>11. next.step # "write"
  BY <1>8 DEF AfterMember
<1> HIDE DEF files, next
<1>12. Running(files, next)
  BY <1>8, <1>9, <1>10, <1>11 DEF Running
<1>13. QED BY <1>7, <1>12 DEF files, next

(* What a step from one step of a run to the next needs.                    *)
LEMMA SteppedRunning ==
    ASSUME NEW files, NEW r \in EngineRun, NEW step, step # "bundle",
           step \in {"archive", "write", "publish"} =>
              /\ r.content.decision = "ACCEPTED"
              /\ r.number # 0 => \A kind \in Kinds : Has(files, r, kind),
           step = "write" => Safe(files, r.content.record)
    PROVE  Running(files, [r EXCEPT !.step = step])
<1> DEFINE next == [r EXCEPT !.step = step]
<1>1. next.content = r.content /\ next.number = r.number /\ next.step = step
  BY DEF EngineRun
<1>2. \A kind : Has(files, next, kind) <=> Has(files, r, kind)
  BY <1>1 DEF Has, MemberOf
<1> HIDE DEF next
<1>3. Running(files, next)
  BY <1>1, <1>2 DEF Running
<1>4. QED BY <1>3 DEF next

LEMMA ArchivedRunning ==
    ASSUME Typed, NEW b \in Branches, Archive(b), Sound(tree[b], bare), Running(tree[b], run[b])
    PROVE  LET files == Archived(tree[b], run[b].content.record)
           IN  /\ Later(tree[b], files) /\ Sound(files, bare)
               /\ Running(files, [run[b] EXCEPT !.step = "write"])
<1> DEFINE r == run[b]
           files == Archived(tree[b], r.content.record)
<1>1. r \in EngineRun /\ TreeStands(tree[b]) /\ r.content \in Contents
  BY ArchiveLeaves DEF Typed, EngineRun
<1>2. Later(tree[b], files) /\ Sound(files, bare) /\ Safe(files, r.content.record)
  BY <1>1, ArchivedKeeps DEF Archive
<1>3. r.content.decision = "ACCEPTED" /\ (r.number # 0 => \A kind \in Kinds : Has(tree[b], r, kind))
  BY <1>1 DEF Archive, Running
<1> HIDE DEF files
<1>4. r.number # 0 => \A kind \in Kinds : Has(files, r, kind)
  BY <1>1, <1>2, <1>3, HasIsKept DEF Later
<1>5. Running(files, [r EXCEPT !.step = "write"])
  BY <1>1, <1>2, <1>3, <1>4, SteppedRunning
<1>6. QED BY <1>2, <1>5 DEF files

LEMMA WrittenRunning ==
    ASSUME Typed, NEW b \in Branches, Write(b), Sound(tree[b], bare), Running(tree[b], run[b])
    PROVE  LET files == Written(tree[b], run[b].content.record)
           IN  /\ Later(tree[b], files) /\ Sound(files, bare')
               /\ Running(files, [run[b] EXCEPT !.step = "publish"])
<1> DEFINE r == run[b]
           files == Written(tree[b], r.content.record)
           B == bare'
<1>1. /\ r \in EngineRun /\ TreeStands(tree[b]) /\ r.content \in Contents
      /\ r.number \in Numbers \cup {0}
  BY WriteLeaves DEF Typed, EngineRun
<1>2. /\ r.content.decision = "ACCEPTED"
      /\ r.number # 0 => \A kind \in Kinds : Has(tree[b], r, kind)
      /\ Safe(tree[b], r.content.record)
  BY <1>1 DEF Write, Running
<1>3. bare \subseteq B /\ (r.number = 0 => r.content.record \in B)
  BY DEF Write
<1> HIDE DEF B
<1>4. HasBundle(tree[b], r.content.record) \/ r.content.record \in B
  BY <1>1, <1>2, <1>3, BundleIsThere
<1>5. Sound(tree[b], B)
  BY <1>3, SoundGrows
<1>6. Later(tree[b], files) /\ Sound(files, B)
  BY <1>1, <1>2, <1>4, <1>5, WrittenKeeps
<1> HIDE DEF files
<1>7. r.number # 0 => \A kind \in Kinds : Has(files, r, kind)
  BY <1>1, <1>2, <1>6, HasIsKept DEF Later
<1>8. Running(files, [r EXCEPT !.step = "publish"])
  BY <1>1, <1>2, <1>7, SteppedRunning
<1>9. QED BY <1>6, <1>8 DEF files, B

LEMMA IdleRunning ==
    ASSUME NEW files, NEW r, r.step = "idle" \/ r = Idle \/ r = Pushed
    PROVE  Running(files, r)
BY DEF Running, Idle, Pushed, EngineRun

(* The worker's whole run.                                                  *)
LEMMA WorkKeeps ==
    ASSUME Typed, NEW b \in Branches, NEW r \in Works, NEW n \in Reserved,
           NEW proposed \in Proposals,
           Work(b, r, n, proposed), Sound(tree[b], bare)
    PROVE  LET files == WorkDone(b, r, n, proposed)
           IN  Later(tree[b], files) /\ Sound(files, bare)
<1> DEFINE values == WorkValues(b, r, n, proposed)
           first == base[b]
           second == WithSources(first, proposed)
           third == WithLedger(second, values)
           prepared == Prepared(b, r, n, proposed)
           x == WorkBundle(b, r, n, proposed)
           bundled == WorkBundled(b, r, n, proposed)
           archived == Archived(bundled, r)
           written == Written(archived, r)
           registered == WorkRegistered(b, r, n, proposed)
           done == WorkDone(b, r, n, proposed)
<1>1. /\ tree[b] = first
      /\ ~BundleConflict(prepared, x)
      /\ x.content.decision = "ACCEPTED" => ~RegisterConflict(bundled, r)
  BY WorkStages
<1>2. /\ x.number \in Numbers /\ x.content \in Contents
      /\ TreeStands(prepared) /\ TreeStands(bundled) /\ TreeStands(done)
  BY WorkLeaves
<1>3. TreeStands(first) /\ Sound(first, bare)
  BY <1>1 DEF Typed
<1>4. x.content.record = r
  BY DEF WorkBundle, Content
<1>5. Alike(first, prepared)
  <2>1. Alike(first, second)
    BY AlikeWithSources
  <2>2. Alike(second, third)
    BY AlikeWithLedger
  <2>3. Alike(third, prepared)
    BY AlikeLedgerPublished DEF Prepared
  <2> HIDE DEF first, second, third, prepared
  <2>4. QED BY <2>1, <2>2, <2>3, AlikeTransitive
<1>6. TreeStands(archived) /\ TreeStands(written)
  BY <1>2, ArchivedStands, WrittenStands
<1>7. bundled = Bundled(prepared, x)
  BY DEF WorkBundled
<1>8. registered = IF x.content.decision = "ACCEPTED"
                   THEN Marked(written, r.id, "published") ELSE bundled
  BY DEF WorkRegistered, WithObject
<1>9. Alike(registered, done)
  BY AlikeLedgerPublished DEF WorkDone
<1>10. Alike(written, Marked(written, r.id, "published"))
  BY AlikeMarked
<1> DEFINE marked == Marked(written, r.id, "published")
<1> HIDE DEF values, first, second, third, prepared, x, bundled, registered, done, marked
<1>11. Later(first, prepared) /\ Sound(prepared, bare)
  BY <1>3, <1>5, AlikeIsLater, AlikeSound
<1>12. /\ Later(prepared, bundled) /\ Sound(bundled, bare)
       /\ \A kind \in Kinds : Has(bundled, x, kind)
  BY <1>1, <1>2, <1>7, <1>11, BundledKeeps
<1>13. CASE x.content.decision = "ACCEPTED"
  <2>1. Later(bundled, archived) /\ Sound(archived, bare) /\ Safe(archived, r)
    BY <1>1, <1>2, <1>12, <1>13, ArchivedKeeps
  <2>2. HasBundle(bundled, r)
    BY <1>2, <1>4, <1>12, <1>13, BundleIsThere
  <2>3. HasBundle(archived, r)
    BY <2>1, <2>2, HasBundleKept DEF Later
  <2>4. Later(archived, written) /\ Sound(written, bare)
    BY <1>6, <2>1, <2>3, WrittenKeeps
  <2>5. registered = marked /\ Alike(written, marked)
    BY <1>8, <1>10, <1>13 DEF marked
  <2> HIDE DEF archived, written
  <2>6. Alike(written, done)
    BY <1>9, <2>5, AlikeTransitive
  <2>7. Later(written, done) /\ Sound(done, bare)
    BY <1>6, <2>4, <2>6, AlikeIsLater, AlikeSound DEF written
  <2>8. Later(bundled, done)
    BY <2>1, <2>4, <2>7, LaterTransitive
  <2>9. Later(first, done)
    BY <1>11, <1>12, <2>8, LaterTransitive
  <2>10. QED BY <1>1, <2>7, <2>9 DEF done
<1>14. CASE x.content.decision # "ACCEPTED"
  <2>1. Alike(bundled, done)
    BY <1>8, <1>9, <1>14
  <2>2. Later(bundled, done) /\ Sound(done, bare)
    BY <1>2, <1>12, <2>1, AlikeIsLater, AlikeSound
  <2>3. Later(first, done)
    BY <1>11, <1>12, <2>2, LaterTransitive
  <2>4. QED BY <1>1, <2>2, <2>3 DEF done
<1>15. QED BY <1>13, <1>14

(* By hand: a state is kept, a new object is added, a kept state is revised. *)
LEMMA HandKeeps ==
    ASSUME NEW files, NEW B, TreeStands(files), Sound(files, B)
    PROVE  /\ \A o : Object(o) \in DOMAIN files
                     /\ History(o, files[Object(o)].version) \notin DOMAIN files
                   => Later(files, Kept(files, o)) /\ Sound(Kept(files, o), B)
           /\ \A r \in B :
                 Safe(files, r) => Later(files, Written(files, r)) /\ Sound(Written(files, r), B)
<1>1. ASSUME NEW o, Object(o) \in DOMAIN files,
             History(o, files[Object(o)].version) \notin DOMAIN files
      PROVE  Later(files, Kept(files, o)) /\ Sound(Kept(files, o), B)
  <2> DEFINE past == History(o, files[Object(o)].version)
  <2>1. past \notin DOMAIN files /\ past[1] = "history"
    BY <1>1, PathParts
  <2> HIDE DEF past
  <2>2. QED BY <2>1, FiledSound DEF Kept, past
<1>2. QED BY <1>1, WrittenKeeps

-----------------------------------------------------------------------------
(* The inductive invariant.  Every tree is sound and later than what it was  *)
(* cut from; the default branch keeps the files that are never changed; and *)
(* it passes the checks.                                                    *)
BranchStands(b) ==
    /\ Sound(tree[b], bare) /\ Keeps(base[b], main) /\ Later(base[b], tree[b])
    /\ Running(tree[b], run[b])

Repository ==
    /\ Typed
    /\ Validate(main) = {} /\ Sound(main, bare)
    /\ \A b \in Branches : BranchStands(b)

LEMMA KeepsTransitive ==
    ASSUME NEW f, NEW g, NEW h, Keeps(f, g), Keeps(g, h)
    PROVE  Keeps(f, h)
BY DEF Keeps

LEMMA RepositoryInit == Init => Repository
<1> SUFFICES ASSUME Init PROVE Repository
  OBVIOUS
<1>1. Typed
  BY TypedInit
<1>2. main = Seed /\ \A b \in Branches : base[b] = Seed /\ tree[b] = Seed /\ run[b] = Idle
  BY DEF Init
<1>3. Validate(main) = {}
  BY <1>2, SeedAssumption
<1>4. \A p \in DOMAIN Seed : p[1] \notin ReceiptDirs /\ p[1] # "manifests"
  BY SeedAssumption DEF ReceiptDirs, Decisions
<1>5. Accepted(Seed, bare)
  BY DEF Accepted, Admitted
<1>6. Cut(Seed) = {}
  BY <1>4, PathParts DEF Cut
<1>7. Sound(Seed, bare)
  BY <1>4, <1>5, <1>6 DEF Sound, Whole, Closed, Agree
<1>8. Later(Seed, Seed)
  BY <1>1, <1>2, LaterReflexive DEF Typed
<1>9. \A b \in Branches : BranchStands(b)
  BY <1>2, <1>7, <1>8, IdleRunning DEF BranchStands, Later
<1>10. QED BY <1>1, <1>2, <1>3, <1>7, <1>9 DEF Repository

(* A step that leaves the default branch and writes the branch's tree.       *)
LEMMA QuietStep ==
    ASSUME Repository, NEW b \in Branches, NEW files, NEW r, Leaves(b, files, r), Typed',
           UNCHANGED <<main, base>>, bare \subseteq bare', Later(tree[b], files),
           Sound(files, bare'), Running(files, r)
    PROVE  Repository'
<1> DEFINE B == bare'
<1>1. bare \subseteq B /\ Sound(files, B)
  OBVIOUS
<1> HIDE DEF B
<1>2. Sound(main, B)
  BY <1>1, SoundGrows DEF Repository
<1>3. ASSUME NEW c \in Branches PROVE BranchStands(c)'
  <2>1. BranchStands(c)
    BY DEF Repository
  <2>2. CASE c = b
    <3>1. Later(base[b], files)
      BY <2>1, <2>2, LaterTransitive DEF BranchStands
    <3>2. tree'[b] = files /\ run'[b] = r
      BY DEF Leaves
    <3>3. QED BY <2>1, <2>2, <3>1, <3>2 DEF BranchStands
  <2>3. CASE c # b
    <3>1. tree'[c] = tree[c] /\ run'[c] = run[c]
      BY <2>3 DEF Leaves
    <3>2. Sound(tree[c], B)
      BY <1>1, <2>1, SoundGrows DEF BranchStands
    <3>3. QED BY <2>1, <3>1, <3>2 DEF BranchStands, B
  <2>4. QED BY <2>2, <2>3
<1>4. QED BY <1>2, <1>3 DEF Repository, B

LEMMA CheckedOut ==
    ASSUME Repository, NEW b \in Branches, Checkout(b)
    PROVE  Repository'
<1>1. Typed'
  BY TypedStep DEF Repository, Step
<1>2. Leaves(b, main, Idle) /\ UNCHANGED <<main, bare>>
  BY CheckoutLeaves DEF Repository, Checkout
<1>3. base'[b] = main /\ \A c \in Branches \ {b} : base'[c] = base[c]
  BY DEF Repository, Typed, Checkout
<1>4. Later(main, main)
  BY LaterReflexive DEF Repository, Typed
<1>5. ASSUME NEW c \in Branches PROVE BranchStands(c)'
  <2>1. CASE c = b
    <3>1. tree'[b] = main /\ run'[b] = Idle
      BY <1>2 DEF Leaves
    <3>2. Running(main, Idle) /\ Sound(main, bare)
      BY IdleRunning DEF Repository
    <3>3. QED BY <1>2, <1>3, <1>4, <2>1, <3>1, <3>2 DEF BranchStands, Later
  <2>2. CASE c # b
    <3>1. tree'[c] = tree[c] /\ run'[c] = run[c] /\ base'[c] = base[c]
      BY <1>2, <1>3, <2>2 DEF Leaves
    <3>2. QED BY <1>2, <3>1 DEF BranchStands, Repository
  <2>3. QED BY <2>1, <2>2
<1>6. QED BY <1>1, <1>2, <1>5 DEF Repository

(* A landing keeps what the default branch and the branch held.             *)
LEMMA LandKeeps ==
    ASSUME Repository, NEW b \in Branches, Land(b)
    PROVE  /\ main' = Merged(b) /\ Keeps(main, main') /\ Combines(b, main, main')
           /\ bare \subseteq bare' /\ Sound(main', bare')
           /\ TreeStands(main') /\ Validate(main') = {}
<1>1. main' = Merged(b) /\ TreeStands(Merged(b))
  BY LandLeaves DEF Repository
<1>2. TreeStands(main) /\ TreeStands(tree[b]) /\ Sound(main, bare)
  BY DEF Repository, Typed
<1>3. Sound(tree[b], bare) /\ Keeps(base[b], main) /\ Later(base[b], tree[b])
  BY DEF Repository, BranchStands
<1>4. ~MergeConflict(b) /\ Validate(Merged(b)) = {} /\ bare' = bare \cup Mixed(b)
  BY DEF Land
<1>5. /\ Keeps(main, Merged(b)) /\ Combines(b, main, Merged(b))
      /\ Sound(Merged(b), bare \cup Mixed(b))
  BY <1>2, <1>3, <1>4, MergedKeeps
<1>6. QED BY <1>1, <1>4, <1>5

LEMMA Landed ==
    ASSUME Repository, NEW b \in Branches, Land(b)
    PROVE  Repository'
<1>1. Typed'
  BY TypedStep DEF Repository, Step
<1>2. Leaves(b, main', Idle)
  BY LandLeaves DEF Repository
<1>3. base'[b] = main' /\ \A c \in Branches \ {b} : base'[c] = base[c]
  BY DEF Repository, Typed, Land
<1>4. /\ Keeps(main, main') /\ bare \subseteq bare' /\ Sound(main', bare')
      /\ TreeStands(main') /\ Validate(main') = {}
  BY LandKeeps
<1>5. ASSUME NEW c \in Branches PROVE BranchStands(c)'
  <2>1. CASE c = b
    <3>1. tree'[b] = main' /\ run'[b] = Idle
      BY <1>2 DEF Leaves
    <3>2. Running(main', Idle) /\ Later(main', main')
      BY <1>4, IdleRunning, LaterReflexive
    <3>3. QED BY <1>3, <1>4, <2>1, <3>1, <3>2 DEF BranchStands, Later
  <2>2. CASE c # b
    <3>1. tree'[c] = tree[c] /\ run'[c] = run[c] /\ base'[c] = base[c]
      BY <1>2, <1>3, <2>2 DEF Leaves
    <3>2. BranchStands(c)
      BY DEF Repository
    <3>3. Keeps(base[c], main')
      BY <1>4, <3>2, KeepsTransitive DEF BranchStands
    <3>4. Sound(tree[c], bare')
      BY <1>4, <3>2, SoundGrows DEF BranchStands
    <3>5. QED BY <3>1, <3>2, <3>3, <3>4 DEF BranchStands
  <2>3. QED BY <2>1, <2>2
<1>6. QED BY <1>1, <1>4, <1>5 DEF Repository

LEMMA RepositoryStep ==
    ASSUME Repository, NEW b \in Branches, Step(b)
    PROVE  Repository'
<1>1. /\ Typed /\ Typed' /\ Sound(tree[b], bare) /\ Running(tree[b], run[b]) /\ TreeStands(tree[b])
      /\ Later(tree[b], tree[b])
  BY TypedStep, LaterReflexive DEF Repository, BranchStands, Typed
<1>2. CASE Checkout(b)
  BY <1>2, CheckedOut
<1>3. ASSUME NEW r \in Works, NEW register \in BOOLEAN, Admit(b, r, register) PROVE Repository'
  <2> DEFINE next == NewRun(b, r, register)
  <2>1. Leaves(b, tree[b], next)
    BY <1>1, <1>3, AdmitLeaves
  <2>2. UNCHANGED <<main, base, bare>>
    BY <1>3 DEF Admit
  <2>3. next.step = "bundle" /\ Kinds \ Range(next.left) = {}
    BY KindsOfBundle DEF NewRun
  <2> HIDE DEF next
  <2>4. Running(tree[b], next)
    BY <2>3 DEF Running
  <2>5. QED BY <1>1, <2>1, <2>2, <2>4, QuietStep
<1>4. ASSUME NEW r \in Works, Register(b, r) PROVE Repository'
  <2> DEFINE next == BareRun(b, r)
  <2>1. Leaves(b, tree[b], next)
    BY <1>1, <1>4, RegisterLeaves
  <2>2. UNCHANGED <<main, base, bare>> /\ Content(r, tree[b]).decision = "ACCEPTED"
    BY <1>4 DEF Register
  <2>3. next.step = "archive" /\ next.number = 0 /\ next.content = Content(r, tree[b])
    BY DEF BareRun
  <2> HIDE DEF next
  <2>4. Running(tree[b], next)
    BY <2>2, <2>3 DEF Running
  <2>5. QED BY <1>1, <2>1, <2>2, <2>4, QuietStep
<1>5. CASE MoveMember(b)
  <2> DEFINE files == Moved(tree[b], run[b], Head(run[b].left))
  <2>1. Leaves(b, files, MovedRun(b))
    BY <1>1, <1>5, MoveMemberLeaves
  <2>2. UNCHANGED <<main, base, bare>>
    BY <1>5 DEF MoveMember
  <2>3. Later(tree[b], files) /\ Sound(files, bare) /\ Running(files, MovedRun(b))
    BY <1>1, <1>5, MovedRunning
  <2> HIDE DEF files
  <2>4. QED BY <1>1, <2>1, <2>2, <2>3, QuietStep
<1>6. CASE Archive(b)
  <2> DEFINE files == Archived(tree[b], run[b].content.record)
             next == [run[b] EXCEPT !.step = "write"]
  <2>1. Leaves(b, files, next)
    BY <1>1, <1>6, ArchiveLeaves
  <2>2. UNCHANGED <<main, base, bare>>
    BY <1>6 DEF Archive
  <2>3. Later(tree[b], files) /\ Sound(files, bare) /\ Running(files, next)
    BY <1>1, <1>6, ArchivedRunning
  <2> HIDE DEF files, next
  <2>4. QED BY <1>1, <2>1, <2>2, <2>3, QuietStep
<1>7. CASE Write(b)
  <2> DEFINE files == Written(tree[b], run[b].content.record)
             next == [run[b] EXCEPT !.step = "publish"]
  <2>1. Leaves(b, files, next)
    BY <1>1, <1>7, WriteLeaves
  <2>2. UNCHANGED <<main, base>> /\ bare \subseteq bare'
    BY <1>7 DEF Write
  <2>3. Later(tree[b], files) /\ Sound(files, bare') /\ Running(files, next)
    BY <1>1, <1>7, WrittenRunning
  <2> HIDE DEF files, next
  <2>4. QED BY <1>1, <2>1, <2>2, <2>3, QuietStep
<1>8. CASE Publish(b)
  <2> DEFINE files == Marked(tree[b], run[b].content.record.id, "published")
             next == [run[b] EXCEPT !.step = "idle"]
  <2>1. Leaves(b, files, next) /\ run[b] \in EngineRun
    BY <1>1, <1>8, PublishLeaves
  <2>2. UNCHANGED <<main, base, bare>>
    BY <1>8 DEF Publish
  <2>3. Alike(tree[b], files)
    BY AlikeMarked
  <2>4. next.step = "idle"
    BY <2>1 DEF EngineRun
  <2> HIDE DEF files, next
  <2>5. Later(tree[b], files) /\ Sound(files, bare)
    BY <1>1, <2>3, AlikeIsLater, AlikeSound
  <2>6. Running(files, next)
    BY <2>4, IdleRunning
  <2>7. QED BY <1>1, <2>1, <2>2, <2>5, <2>6, QuietStep
<1>9. CASE Crash(b)
  <2> DEFINE next == [run[b] EXCEPT !.step = "idle"]
  <2>1. Leaves(b, tree[b], next) /\ run[b] \in EngineRun
    BY <1>1, <1>9, CrashLeaves
  <2>2. UNCHANGED <<main, base, bare>>
    BY <1>9 DEF Crash
  <2>3. next.step = "idle"
    BY <2>1 DEF EngineRun
  <2> HIDE DEF next
  <2>4. Running(tree[b], next)
    BY <2>3, IdleRunning
  <2>5. QED BY <1>1, <2>1, <2>2, <2>4, QuietStep
<1>10. ASSUME NEW r \in Works, NEW n \in Reserved, NEW proposed \in Proposals,
              Work(b, r, n, proposed)
       PROVE  Repository'
  <2> DEFINE files == WorkDone(b, r, n, proposed)
  <2>1. Leaves(b, files, Pushed)
    BY <1>1, <1>10, WorkLeaves
  <2>2. UNCHANGED <<main, base, bare>>
    BY <1>10, WorkStages
  <2>3. Later(tree[b], files) /\ Sound(files, bare)
    BY <1>1, <1>10, WorkKeeps
  <2>4. Running(files, Pushed)
    BY IdleRunning
  <2> HIDE DEF files
  <2>5. QED BY <1>1, <2>1, <2>2, <2>3, <2>4, QuietStep
<1>11. ASSUME run[b].step = "idle", UNCHANGED <<main, base>>, bare \subseteq bare', NEW files,
              Leaves(b, files, run[b]), Later(tree[b], files), Sound(files, bare')
       PROVE  Repository'
  <2>1. Running(files, run[b])
    BY <1>11, IdleRunning
  <2>2. QED BY <1>1, <1>11, <2>1, QuietStep
<1>12. ASSUME run[b].step = "idle", UNCHANGED <<main, base, bare>>, NEW files,
              Leaves(b, files, run[b]), Alike(tree[b], files)
       PROVE  Repository'
  <2>1. Later(tree[b], files) /\ Sound(files, bare)
    BY <1>1, <1>12, AlikeIsLater, AlikeSound
  <2>2. QED BY <1>11, <1>12, <2>1
<1>13. ASSUME NEW o \in Objects, Reserve(b, o) PROVE Repository'
  <2>1. Alike(tree[b], Filed(Ledger(o), "reserved", tree[b]))
    BY AlikeFiled, PathParts
  <2>2. run[b].step = "idle" /\ UNCHANGED <<main, base, bare>>
    BY <1>13 DEF Reserve
  <2>3. QED BY <1>1, <1>12, <1>13, <2>1, <2>2, ReserveLeaves
<1>14. ASSUME NEW o \in Objects, Withdraw(b, o) PROVE Repository'
  <2>1. Alike(tree[b], Marked(tree[b], o, "withdrawn"))
    BY AlikeMarked
  <2>2. run[b].step = "idle" /\ UNCHANGED <<main, base, bare>>
    BY <1>14 DEF Withdraw
  <2>3. QED BY <1>1, <1>12, <1>14, <2>1, <2>2, WithdrawLeaves
<1>15. ASSUME NEW files \in Edits, Edit(b, files) PROVE Repository'
  <2>1. Alike(tree[b], Over(files, tree[b]))
    <3>1. \A p \in DOMAIN files : p[1] \in {"sources", "governing", "reservations"}
      BY EngineAssumption
    <3>2. QED BY <3>1, AlikeOver
  <2>2. run[b].step = "idle" /\ UNCHANGED <<main, base, bare>>
    BY <1>15 DEF Edit
  <2>3. QED BY <1>1, <1>12, <1>15, <2>1, <2>2, EditLeaves
<1>16. ASSUME NEW k \in Numbers, Release(b, k) PROVE Repository'
  <2> DEFINE files == Filed(Manifest(k), NewManifest(tree[b]), tree[b])
  <2>1. Leaves(b, files, run[b])
    BY <1>1, <1>16, ReleaseLeaves
  <2>2. run[b].step = "idle" /\ UNCHANGED <<main, base, bare>> /\ k \notin Cut(tree[b])
    BY <1>16 DEF Release, Cut
  <2>3. Later(tree[b], files) /\ Sound(files, bare)
    BY <1>1, <2>2, ReleaseKeeps
  <2> HIDE DEF files
  <2>4. QED BY <1>11, <2>1, <2>2, <2>3
<1>17. ASSUME NEW o \in Objects, Preserve(b, o) PROVE Repository'
  <2> DEFINE files == Kept(tree[b], o)
  <2>1. Leaves(b, files, run[b])
    BY <1>1, <1>17, PreserveLeaves
  <2>2. run[b].step = "idle" /\ UNCHANGED <<main, base, bare>>
    BY <1>17 DEF Preserve
  <2>3. Later(tree[b], files) /\ Sound(files, bare)
    BY <1>1, <1>17, HandKeeps DEF Preserve
  <2> HIDE DEF files
  <2>4. QED BY <1>11, <2>1, <2>2, <2>3
<1>18. ASSUME NEW r \in Works, Add(b, r) \/ Revise(b, r) PROVE Repository'
  <2> DEFINE files == Written(tree[b], r)
             B == bare'
  <2>1. Leaves(b, files, run[b])
    BY <1>1, <1>18, AddLeaves
  <2>2. run[b].step = "idle" /\ UNCHANGED <<main, base>> /\ bare \subseteq B /\ r \in B
    BY <1>18 DEF Add, Revise
  <2>3. Safe(tree[b], r)
    BY <1>18 DEF Add, Revise, Safe
  <2> HIDE DEF B
  <2>4. Sound(tree[b], B)
    BY <1>1, <2>2, SoundGrows
  <2>5. Later(tree[b], files) /\ Sound(files, B)
    BY <1>1, <2>2, <2>3, <2>4, HandKeeps
  <2> HIDE DEF files
  <2>6. QED BY <1>11, <2>1, <2>2, <2>5 DEF B
<1>19. CASE Land(b)
  BY <1>19, Landed
<1>20. QED
  BY <1>2, <1>3, <1>4, <1>5, <1>6, <1>7, <1>8, <1>9, <1>10, <1>13, <1>14, <1>15, <1>16, <1>17,
     <1>18, <1>19 DEF Step

-----------------------------------------------------------------------------
(* The properties.                                                          *)
LEMMA RepositoryStutter ==
    ASSUME Repository, UNCHANGED vars
    PROVE  Repository'
<1>1. Typed'
  BY TypedStutter DEF Repository
<1>2. ASSUME NEW b \in Branches PROVE BranchStands(b)'
  BY DEF Repository, BranchStands, vars
<1>3. QED BY <1>1, <1>2 DEF Repository, vars

LEMMA FileOfMain ==
    ASSUME Repository, NEW p \in DOMAIN main, p[1] \in ReceiptDirs
    PROVE  /\ main[p] \in Contents /\ main[p].decision \in Decisions /\ WholeAt(main, p)
           /\ p[1] \in Decisions => main[p].decision = p[1]
<1>1. FileStands(p, main[p])
  BY DEF Repository, Typed, TreeStands
<1>2. main[p] \in Contents /\ (p[1] \in Decisions => main[p].decision = p[1])
  BY <1>1 DEF FileStands, ReceiptDirs
<1>3. WholeAt(main, p)
  BY DEF Repository, Sound, Whole
<1>4. QED BY <1>2, <1>3 DEF Contents

(* A file of a bundle in a decision's directory has the receipt's content;   *)
(* an execution manifest has every other's, so only a receipt in another    *)
(* directory can contradict it.                                             *)
LEMMA RepositoryOneRun == Repository => OneRunPerReceipt
<1> DEFINE OneOf(n, K) ==
               \A d \in Decisions, kind, other \in K \ {"execution"} :
                  {Member(n, d, kind), Member(n, d, other)} \subseteq DOMAIN main =>
                     main[Member(n, d, kind)] = main[Member(n, d, other)]
           WholeOf(n, K) ==
               <<"executions", n>> \in DOMAIN main =>
                  LET manifest == main[<<"executions", n>>]
                  IN  /\ \A kind \in K :
                            LET p == Member(n, manifest.decision, kind)
                            IN  p \in DOMAIN main /\ main[p] = manifest
                      /\ Discrepancy(main, n) =>
                            \E d \in Decisions \ {manifest.decision} :
                               Member(n, d, "json") \in DOMAIN main
<1> SUFFICES ASSUME Repository PROVE \A n \in Numbers : OneOf(n, Range(Bundle)) /\ WholeOf(n, Range(Bundle))
  BY DEF OneRunPerReceipt
<1> SUFFICES ASSUME NEW n \in Numbers PROVE OneOf(n, Kinds) /\ WholeOf(n, Kinds)
  <2> HIDE DEF OneOf, WholeOf
  <2> QED BY KindsOfBundle
<1>1. ASSUME NEW d \in Decisions, NEW kind \in Kinds \ {"execution"},
             Member(n, d, kind) \in DOMAIN main
      PROVE  main[Member(n, d, "json")] = main[Member(n, d, kind)]
  <2> DEFINE p == Member(n, d, kind)
  <2>1. p[1] = d /\ p[2] = n /\ d # "executions"
    BY MemberParts DEF Decisions
  <2>2. p[1] \in ReceiptDirs /\ p \in DOMAIN main
    BY <1>1, <2>1 DEF ReceiptDirs
  <2> HIDE DEF p
  <2>3. WholeAt(main, p) /\ main[p].decision = d
    BY <2>1, <2>2, FileOfMain
  <2>4. "json" \in Needed(p)
    BY <2>1 DEF Needed
  <2>5. main[Member(p[2], main[p].decision, "json")] = main[p]
    BY <2>3, <2>4 DEF WholeAt
  <2>6. QED BY <2>1, <2>3, <2>5 DEF p
<1>2. ASSUME <<"executions", n>> \in DOMAIN main
      PROVE  LET manifest == main[<<"executions", n>>]
             IN  /\ manifest.decision \in Decisions
                 /\ \A kind \in Kinds :
                       LET p == Member(n, manifest.decision, kind)
                       IN  p \in DOMAIN main /\ main[p] = manifest
  <2> DEFINE m == <<"executions", n>>
  <2>1. m[1] = "executions" /\ m[2] = n
    OBVIOUS
  <2>2. m[1] \in ReceiptDirs /\ m \in DOMAIN main
    BY <1>2 DEF ReceiptDirs
  <2> HIDE DEF m
  <2>3. WholeAt(main, m) /\ main[m].decision \in Decisions
    BY <2>2, FileOfMain
  <2>4. Needed(m) = Kinds
    BY <2>1 DEF Needed
  <2>5. \A kind \in Kinds : LET p == Member(n, main[m].decision, kind)
                           IN  p \in DOMAIN main /\ main[p] = main[m]
    BY <2>1, <2>3, <2>4 DEF WholeAt
  <2>6. QED BY <2>3, <2>5 DEF m
<1>3. ASSUME <<"executions", n>> \in DOMAIN main, Discrepancy(main, n)
      PROVE  \E d \in Decisions \ {main[<<"executions", n>>].decision} :
                Member(n, d, "json") \in DOMAIN main
  <2> DEFINE c == main[<<"executions", n>>]
  <2>1. PICK p \in DOMAIN main :
           /\ p = Member(n, main[p].decision, "execution")
           /\ LET snapshot == Member(n, main[p].decision, "submission")
              IN  \/ snapshot \notin DOMAIN main
                  \/ main[snapshot].record # main[p].record
                  \/ ReceiptOf(main, n) # main[p].decision
    BY <1>3 DEF Discrepancy
  <2>2. p = <<"executions", n>>
    BY <2>1 DEF Member
  <2>3. /\ c.decision \in Decisions
        /\ \A kind \in Kinds : /\ Member(n, c.decision, kind) \in DOMAIN main
                              /\ main[Member(n, c.decision, kind)] = c
    BY <1>2, <1>3
  <2>4. main[p] = c
    BY <2>2
  <2>5. "submission" \in Kinds /\ "json" \in Kinds
    BY DEF Kinds
  <2> HIDE DEF c
  <2>6. ReceiptOf(main, n) # c.decision
    BY <2>1, <2>3, <2>4, <2>5
  <2>7. Member(n, c.decision, "json") \in DOMAIN main
    BY <2>3, <2>5
  <2>8. ReceiptOf(main, n) \in Decisions /\ Member(n, ReceiptOf(main, n), "json") \in DOMAIN main
    BY <2>3, <2>7 DEF ReceiptOf, Decisions
  <2>9. QED BY <2>6, <2>8 DEF c
<1>4. OneOf(n, Kinds)
  BY <1>1
<1>5. WholeOf(n, Kinds)
  BY <1>2, <1>3
<1>6. QED BY <1>4, <1>5

LEMMA RepositoryAccepted == Repository => RegisteredIsAccepted
<1> SUFFICES ASSUME Repository, NEW o \in Under(main, "objects")
             PROVE  \/ Object(o) \in DOMAIN Seed /\ main[Object(o)] = Seed[Object(o)]
                    \/ main[Object(o)] \in bare
                    \/ \E n \in Numbers : \A kind \in Kinds :
                          LET p == Member(n, "ACCEPTED", kind)
                          IN  p \in DOMAIN main /\ main[p].record = main[Object(o)]
  BY KindsOfBundle DEF RegisteredIsAccepted
<1>1. PICK q \in DOMAIN main : q[1] = "objects" /\ o = q[2]
  BY DEF Under
<1>2. q = Object(o)
  BY <1>1 DEF Repository, Typed, TreeStands, FileStands
<1>3. Admitted(main, bare, q)
  BY <1>1 DEF Repository, Sound, Accepted
<1>4. QED BY <1>2, <1>3 DEF Admitted, HasBundle

LEMMA MainMovesByLanding ==
    ASSUME Repository, NEW b \in Branches, Step(b)
    PROVE  main' = main \/ Land(b)
BY WorkStages DEF Step, Checkout, Admit, Register, MoveMember, Archive, Write, Publish, Crash,
                  Reserve, Withdraw, Preserve, Add, Revise, Edit, Release

StatesKept ==
    /\ \A o \in Under(main, "objects") :
         \/ \E p \in {Object(o), History(o, main[Object(o)].version)} :
               p \in DOMAIN main' /\ main'[p] = main[Object(o)]
         \/ \E b \in Branches : Object(o) \in ChangedTwice(b) /\ main' = Merged(b)
    /\ \A p \in DOMAIN main : p[1] = "history" => p \in DOMAIN main' /\ main'[p] = main[p]

LEMMA StepKeepsStates ==
    ASSUME Repository, NEW b \in Branches, Step(b)
    PROVE  StatesKept
<1>1. /\ Keeps(main, main')
      /\ KeepsStates(main, main') \/ (main' = Merged(b) /\ Combines(b, main, main'))
  <2>1. CASE Land(b)
    BY <2>1, LandKeeps
  <2>2. CASE main' = main
    BY <2>2, LaterReflexive DEF Repository, Typed, Later
  <2>3. QED BY <2>1, <2>2, MainMovesByLanding
<1>2. ASSUME NEW o \in Under(main, "objects")
      PROVE  \/ \E p \in {Object(o), History(o, main[Object(o)].version)} :
                   p \in DOMAIN main' /\ main'[p] = main[Object(o)]
             \/ \E c \in Branches : Object(o) \in ChangedTwice(c) /\ main' = Merged(c)
  <2>1. PICK q \in DOMAIN main : q[1] = "objects" /\ o = q[2]
    BY DEF Under
  <2>2. q = Object(o)
    BY <2>1 DEF Repository, Typed, TreeStands, FileStands
  <2>3. HasState(main', o, main[q]) \/ (q \in ChangedTwice(b) /\ main' = Merged(b))
    BY <1>1, <2>1 DEF KeepsStates, Combines
  <2>4. CASE HasState(main', o, main[q])
    BY <2>2, <2>4 DEF HasState
  <2>5. CASE q \in ChangedTwice(b) /\ main' = Merged(b)
    BY <2>2, <2>5
  <2>6. QED BY <2>3, <2>4, <2>5
<1>3. ASSUME NEW p \in DOMAIN main, p[1] = "history" PROVE p \in DOMAIN main' /\ main'[p] = main[p]
  <2>1. p[1] \in FixedDirs
    BY <1>3 DEF FixedDirs
  <2>2. QED BY <1>1, <2>1 DEF Keeps
<1>4. QED BY <1>2, <1>3 DEF StatesKept

(* A registry that passes the checks holds what the manifests say.          *)
LEMMA CheckedIsReleased ==
    ASSUME NEW files, Validate(files) = {}, NEW g \in DOMAIN Released(files)
    PROVE  files[<<"governing", g>>].content = Released(files)[g]
<1>1. GoverningImmutability(Load(files), Released(files)) = {}
  BY DEF Validate, ValidateRegistry
<1>2. {h \in DOMAIN Released(files) : \/ h \notin DOMAIN Load(files).governing
                                      \/ Load(files).governing[h].content # Released(files)[h]} = {}
  BY <1>1 DEF GoverningImmutability, Issues
<1>3. /\ g \in DOMAIN Load(files).governing
      /\ Load(files).governing[g].content = Released(files)[g]
  BY <1>2
<1>4. Load(files).governing = Dir(files, "governing")
  BY DEF Load
<1>5. g \in Under(files, "governing") /\ Dir(files, "governing")[g] = files[<<"governing", g>>]
  BY <1>3, <1>4 DEF Dir
<1>6. QED BY <1>3, <1>4, <1>5

ReleasesKept ==
    \A g \in DOMAIN Released(main) :
        \/ main'[<<"governing", g>>].content = Released(main)[g]
        \/ \E j, k \in Under(main', "manifests") :
              LET one == main'[Manifest(j)]
                  other == main'[Manifest(k)]
              IN  /\ g \in DOMAIN one.hashes \cap DOMAIN other.hashes
                  /\ one.hashes[g] # other.hashes[g]
                  /\ j \notin other.after /\ k \notin one.after

LEMMA StepKeepsReleases ==
    ASSUME Repository, NEW b \in Branches, Step(b)
    PROVE  ReleasesKept
<1> SUFFICES ASSUME NEW g \in DOMAIN Released(main),
                    main'[<<"governing", g>>].content # Released(main)[g]
             PROVE  \E j, k \in Under(main', "manifests") :
                       LET one == main'[Manifest(j)]
                           other == main'[Manifest(k)]
                       IN  /\ g \in DOMAIN one.hashes \cap DOMAIN other.hashes
                           /\ one.hashes[g] # other.hashes[g]
                           /\ j \notin other.after /\ k \notin one.after
  BY DEF ReleasesKept
<1>1. TreeStands(main) /\ Validate(main) = {}
  BY DEF Repository, Typed
<1>2. CASE main' = main
  BY <1>1, <1>2, CheckedIsReleased
<1>3. CASE Land(b)
  <2> DEFINE new == main'
  <2>1. Validate(new) = {} /\ Sound(new, bare') /\ TreeStands(new) /\ Keeps(main, new)
    BY <1>3, LandKeeps
  <2>2. new[<<"governing", g>>].content # Released(main)[g]
    OBVIOUS
  <2> HIDE DEF new
  <2>3. g \in Governing
    BY <1>1, ReleasedHas
  <2>4. PICK m \in Cut(main) : /\ g \in DOMAIN Cutting(main, m).hashes
                               /\ Released(main)[g] = Cutting(main, m).hashes[g]
    BY <1>1, ReleasedHas
  <2>5. m \in Cut(new) /\ Cutting(new, m) = Cutting(main, m)
    <3>1. Manifest(m) \in DOMAIN main /\ Manifest(m)[1] \in FixedDirs /\ m \in Numbers
      BY PathParts DEF Cut, FixedDirs
    <3>2. QED BY <2>1, <3>1 DEF Keeps, Cut, Cutting
  <2>6. g \in DOMAIN Released(new)
    BY <2>1, <2>3, <2>4, <2>5, ReleasedReads
  <2>7. PICK l \in Cut(new) : /\ g \in DOMAIN Cutting(new, l).hashes
                              /\ Released(new)[g] = Cutting(new, l).hashes[g]
    BY <2>1, <2>6, ReleasedHas
  <2>8. new[<<"governing", g>>].content = Released(new)[g]
    BY <2>1, <2>6, CheckedIsReleased
  <2>9. Differ(new, m, l, g)
    BY <2>2, <2>4, <2>5, <2>7, <2>8 DEF Differ
  <2>10. PICK j, k \in Cut(new) : Differ(new, j, k, g) /\ Apart(new, j, k)
    BY <2>1, <2>3, <2>5, <2>9 DEF Sound, Agree, Disputed
  <2>11. j \in Under(new, "manifests") /\ k \in Under(new, "manifests")
    BY <2>1, CutIsUnder
  <2>12. QED BY <2>10, <2>11 DEF Differ, Apart, Cutting, new
<1>4. QED BY <1>2, <1>3, MainMovesByLanding

LEMMA RepositoryNext == Repository /\ [Next]_vars => Repository'
BY NextIsStep, RepositoryStep, RepositoryStutter

(* Whatever crashed runs left behind, whatever numbers two allocators gave   *)
(* out and whatever was merged, the files of one receipt are one run's, and *)
(* an execution manifest stands with the bundle it was made with.           *)
THEOREM ReceiptsAreWhole == Spec => []OneRunPerReceipt
BY RepositoryInit, RepositoryNext, RepositoryOneRun, PTL DEF Spec

(* No merge brings onto the default branch a state of an object without the  *)
(* whole bundle of an accepting run, but for states that never had one: by  *)
(* --register alone, by hand, or put together by git.                       *)
THEOREM RegistrationsAreAccepted == Spec => []RegisteredIsAccepted
BY RepositoryInit, RepositoryNext, RepositoryAccepted, PTL DEF Spec

(* No step takes a registered state from the default branch but into the     *)
(* history, unless git blends a second change into it, and none rewrites    *)
(* the history.                                                             *)
THEOREM RegisteredStatesStay == Spec => StatesAreKept
<1>1. Repository /\ [Next]_vars => [StatesKept]_vars
  BY NextIsStep, StepKeepsStates
<1>2. QED BY <1>1, RepositoryInit, RepositoryNext, PTL DEF Spec, StatesAreKept, StatesKept

(* A released governing record keeps its content, but for releases cut apart *)
(* that disagree on it.                                                     *)
THEOREM ReleasesStay == Spec => ReleasedIsKept
<1>1. Repository /\ [Next]_vars => [ReleasesKept]_vars
  BY NextIsStep, StepKeepsReleases
<1>2. QED BY <1>1, RepositoryInit, RepositoryNext, PTL DEF Spec, ReleasedIsKept, ReleasesKept

=============================================================================
