--------------------------- MODULE AuthorIdentity ---------------------------
(***************************************************************************)
(* How an account comes to its public AuthorID (portal/accounts/services.py,*)
(* views.py, forms.py and the bootstrap_admin command): the registration    *)
(* job reserves an id and queues a publication, whose end comes back to the *)
(* binding (registry_bridge/publication.py); or a claim of an existing id   *)
(* is verified by an administrator.  It composes with Projection, which a   *)
(* verified registration has refreshed.                                     *)
(*                                                                         *)
(* The publication is cut down to what comes back (Publication has its      *)
(* steps), the outbox to how a job ends (JobOutbox has its leases).  An     *)
(* AuthorID is its number.                                                  *)
(***************************************************************************)
EXTENDS Projection

CONSTANTS
    Accounts,
    Existing,  \* the AuthorIDs registered before
    Claimable, \* those of them accounts may claim
    MaxCommits \* bound: others commit below this many

ASSUME AccountsAssumption ==
    /\ Existing \subseteq Nat \ {0} /\ IsFiniteSet(Existing) /\ Existing # {}
    /\ Claimable \subseteq Existing
    /\ MaxCommits \in Nat

VARIABLES
    binding,     \* binding[a]: the AuthorBinding row
    claim,       \* claim[a][x]: the IdentityClaim of a on x last made
    claiming,    \* claiming[a]: the statement its request for a claim has come to
    registration,\* registration[a]: the outbox row of the registration job
    reservation, \* reservation[a]: the id reserved under the binding's operation key
    publication, \* publication[a]: the publication of that key
    granted      \* granted[a]: ids an administrator or operator has linked a to

identity == <<binding, claim, claiming, registration, reservation, publication, granted>>
projection == <<main, fetched, snapshot, refresh, reader, stamps, disordered, missed, failures>>
vars == <<identity, projection>>

NoId == 0

States == {"none", "pending", "claim_requested", "reserved", "registered", "linked"}

Binding == [state: States, id: Nat, publication: BOOLEAN]

NoBinding == [state |-> "none", id |-> NoId, publication |-> FALSE]

Stages == {"none", "queued", "open", "merged", "verified", "abandoned", "released", "over"}

TypeOK ==
    /\ ProjectionTypeOK
    /\ binding \in [Accounts -> Binding]
    /\ claim \in [Accounts -> [Claimable -> {"none", "requested", "verified", "denied"}]]
    /\ claiming \in [Accounts -> {"none", "created", "read"}]
    /\ registration \in [Accounts -> {"none", "queued", "succeeded", "dead"}]
    /\ reservation \in [Accounts -> Nat]
    /\ \A a \in Accounts : publication[a].stage \in Stages
    /\ \A a, b \in Accounts : binding[a].id = binding[b].id /\ binding[a].id # NoId => a = b

Init ==
    /\ ProjectionInit(Existing)
    /\ binding = [a \in Accounts |-> NoBinding]
    /\ claim = [a \in Accounts |-> [x \in Claimable |-> "none"]]
    /\ claiming = [a \in Accounts |-> "none"]
    /\ registration = [a \in Accounts |-> "none"]
    /\ reservation = [a \in Accounts |-> NoId]
    /\ publication = [a \in Accounts |-> [stage |-> "none", base |-> 0]]
    /\ granted = [a \in Accounts |-> {}]

-----------------------------------------------------------------------------
(* start_author_registration: the binding is made and its job enqueued,      *)
(* which revives a dead row and leaves a succeeded one alone.                *)
Enqueued(s) == IF s \in {"none", "dead"} THEN "queued" ELSE s

Started(b) == IF b.state = "none" THEN [b EXCEPT !.state = "pending"] ELSE b

Settled(b) == b.state \in {"registered", "linked"}

(* The link in the verification mail, or the profile's retry button.         *)
StartRegistration(a) ==
    /\ binding' = [binding EXCEPT ![a] = Started(@)]
    /\ registration' = [registration EXCEPT ![a] = IF Settled(binding[a]) THEN @ ELSE Enqueued(@)]
    /\ <<binding', registration'>> # <<binding, registration>>
    /\ UNCHANGED <<claim, claiming, reservation, publication, granted, projection>>

OpenClaim(a) == \E x \in Claimable : claim[a][x] = "requested"

(* The job may have to run again after it committed.                        *)
Ends(a, s) ==
    \/ registration' = [registration EXCEPT ![a] = s] /\ UNCHANGED failures
    \/ Fail /\ UNCHANGED registration

NextId == Max(main[fetched] \cup {reservation[a] : a \in Accounts}) + 1

Reserved_Fresh(a) == NextId

Reserved(a) == IF reservation[a] # NoId THEN reservation[a] ELSE NextId

(* register_author, when there is nothing to do, ...                        *)
RegisterNothing(a) ==
    /\ registration[a] = "queued"
    /\ Settled(binding[a]) \/ (~OpenClaim(a) /\ binding[a].publication /\ binding[a].state = "reserved")
    /\ Ends(a, "succeeded")
    /\ UNCHANGED <<binding, claim, claiming, reservation, publication, granted, registry, refresh, reader, projected>>

(* ... when a claim is open: what it wrote is rolled back with the failure, *)
RegisterWaits(a) ==
    /\ registration[a] = "queued"
    /\ ~Settled(binding[a]) /\ OpenClaim(a)
    /\ Ends(a, "dead")
    /\ UNCHANGED <<binding, claim, claiming, reservation, publication, granted, registry, refresh, reader, projected>>

(* ... when the account has no display name, ...                            *)
RegisterNameless(a) ==
    /\ registration[a] = "queued"
    /\ ~Settled(binding[a]) /\ ~OpenClaim(a)
    /\ ~(binding[a].publication /\ binding[a].state = "reserved")
    /\ registration' = [registration EXCEPT ![a] = "dead"] /\ Fail
    /\ UNCHANGED <<binding, claim, claiming, reservation, publication, granted, registry, refresh, reader, projected>>

(* ... and otherwise.  The publication's row is found by the operation key   *)
(* if there is one, whatever became of it.                                  *)
Register(a) ==
    /\ registration[a] = "queued"
    /\ ~Settled(binding[a]) /\ ~OpenClaim(a)
    /\ ~(binding[a].publication /\ binding[a].state = "reserved")
    /\ reservation' = [reservation EXCEPT ![a] = Reserved(a)]
    /\ publication' = [publication EXCEPT ![a].stage = IF @ = "none" THEN "queued" ELSE @]
    /\ binding' = [binding EXCEPT ![a] = [state |-> "reserved", id |-> Reserved(a),
                                          publication |-> TRUE]]
    /\ Ends(a, "succeeded")
    /\ UNCHANGED <<claim, claiming, granted, registry, refresh, reader, projected>>

-----------------------------------------------------------------------------
(* claim_identity and request_identity_claim: three statements, no lock.     *)
(* Bounds: an account claims an id once (after a denial it could again), and *)
(* makes one request at a time.                                             *)
Claim(a, x) ==
    /\ ~Settled(binding[a]) /\ claim[a][x] = "none" /\ claiming[a] = "none"
    /\ claim' = [claim EXCEPT ![a][x] = "requested"]
    /\ claiming' = [claiming EXCEPT ![a] = "created"]
    /\ UNCHANGED <<binding, registration, reservation, publication, granted, projection>>

ClaimReads(a) ==
    /\ claiming[a] = "created"
    /\ binding' = [binding EXCEPT ![a] = Started(@)]
    /\ claiming' = [claiming EXCEPT ![a] = IF binding'[a].state = "pending" THEN "read" ELSE "none"]
    /\ UNCHANGED <<claim, registration, reservation, publication, granted, projection>>

(* Whatever the binding's state is by now.                                  *)
ClaimMarks(a) ==
    /\ claiming[a] = "read"
    /\ binding' = [binding EXCEPT ![a].state = "claim_requested"]
    /\ claiming' = [claiming EXCEPT ![a] = "none"]
    /\ UNCHANGED <<claim, registration, reservation, publication, granted, projection>>

Others_None(a) == {}

Others(a) == {binding[b].id : b \in Accounts \ {a}}

(* decide_identity_claim: a denial sets the binding back whatever its state, *)
(* and starts the registration.                                             *)
Verify(a, x) ==
    /\ claim[a][x] = "requested" /\ x \notin Others(a)
    /\ claim' = [claim EXCEPT ![a][x] = "verified"]
    /\ binding' = [binding EXCEPT ![a].id = x, ![a].state = "linked"]
    /\ granted' = [granted EXCEPT ![a] = @ \cup {x}]
    /\ UNCHANGED <<claiming, registration, reservation, publication, projection>>

Deny(a, x) ==
    /\ claim[a][x] = "requested"
    /\ claim' = [claim EXCEPT ![a][x] = "denied"]
    /\ binding' = [binding EXCEPT ![a].state = "pending"]
    /\ registration' = [registration EXCEPT ![a] = Enqueued(@)]
    /\ UNCHANGED <<claiming, reservation, publication, granted, projection>>

(* bootstrap_admin --link-author.                                           *)
OperatorLinks(a, x) ==
    /\ x \notin Others(a) /\ x \notin granted[a]
    /\ binding' = [binding EXCEPT ![a].id = x, ![a].state = "linked"]
    /\ granted' = [granted EXCEPT ![a] = @ \cup {x}]
    /\ UNCHANGED <<claim, claiming, registration, reservation, publication, projection>>

-----------------------------------------------------------------------------
(* The publication of a registration.  Its base is the default branch's head *)
(* when it branches; it merges on that base only.                           *)
Stage(a, stage) == publication' = [publication EXCEPT ![a].stage = stage]

BranchOff(a) ==
    /\ publication[a].stage = "queued"
    /\ publication' = [publication EXCEPT ![a] = [stage |-> "open", base |-> Len(main)]]
    /\ UNCHANGED <<binding, claim, claiming, registration, reservation, granted, projection>>

Merge(a) ==
    /\ publication[a].stage = "open" /\ publication[a].base = Len(main)
    /\ Advance(main[Len(main)] \cup {reservation[a]}, "none")
    /\ Stage(a, "merged")
    /\ UNCHANGED <<binding, claim, claiming, registration, reservation, granted, fetched, reader, projected, failures>>

MergeCommit(a) == publication[a].base + 1

(* _verify and _after_verified, one transaction: the binding of this        *)
(* publication is registered, whatever it was, and its commit's refresh is  *)
(* queued.                                                                  *)
Confirm(a) ==
    /\ publication[a].stage = "merged"
    /\ Stage(a, "verified")
    /\ binding' = [binding EXCEPT ![a].state = IF binding[a].publication THEN "registered" ELSE @]
    /\ refresh' = [refresh EXCEPT ![MergeCommit(a)] = IF @ = "none" THEN "queued" ELSE @]
    /\ UNCHANGED <<claim, claiming, registration, reservation, granted, registry, reader, projected, failures>>

(* _base_moved: the publication is given up, the binding set back, and the   *)
(* registration started again, each committed by itself.                    *)
Abandon(a) ==
    /\ publication[a].stage = "open" /\ publication[a].base < Len(main)
    /\ Stage(a, "abandoned")
    /\ UNCHANGED <<binding, claim, claiming, registration, reservation, granted, projection>>

Release(a) ==
    /\ publication[a].stage = "abandoned"
    /\ Stage(a, IF binding[a].publication THEN "released" ELSE "over")
    /\ binding' = [binding EXCEPT ![a] = IF binding[a].publication
                                         THEN [@ EXCEPT !.state = "pending", !.publication = FALSE]
                                         ELSE @]
    /\ UNCHANGED <<claim, claiming, registration, reservation, granted, projection>>

Restart(a) ==
    /\ publication[a].stage = "released"
    /\ Stage(a, "over")
    /\ registration' = [registration EXCEPT ![a] = IF Settled(binding[a]) THEN @ ELSE Enqueued(@)]
    /\ UNCHANGED <<binding, claim, claiming, reservation, granted, projection>>

(* A crash between two of them: the next run finds it abandoned, and ends.   *)
PublisherDies(a) ==
    /\ publication[a].stage \in {"abandoned", "released"}
    /\ Fail
    /\ Stage(a, "over")
    /\ UNCHANGED <<binding, claim, claiming, registration, reservation, granted, registry, refresh, reader, projected>>

(* A contributor's commit, or an admission's.                                *)
OtherCommits ==
    /\ Len(main) < MaxCommits
    /\ Advance(main[Len(main)], "none")
    /\ UNCHANGED <<identity, fetched, reader, projected, failures>>

-----------------------------------------------------------------------------
Registers(a) == RegisterNothing(a) \/ RegisterWaits(a) \/ RegisterNameless(a) \/ Register(a)

Publishes(a) ==
    BranchOff(a) \/ Merge(a) \/ Confirm(a) \/ Abandon(a) \/ Release(a) \/ Restart(a)

Next ==
    \/ \E a \in Accounts :
        \/ StartRegistration(a) \/ Registers(a) \/ Publishes(a) \/ PublisherDies(a)
        \/ ClaimReads(a) \/ ClaimMarks(a)
        \/ \E x \in Claimable : Claim(a, x) \/ Verify(a, x) \/ Deny(a, x) \/ OperatorLinks(a, x)
    \/ OtherCommits
    \/ ProjectionNext /\ UNCHANGED identity

Spec == Init /\ [][Next]_vars

(* Fairness: the outbox runs a queued job (JobsSettle of JobOutbox), the     *)
(* publish job goes on (PublicationsSettle of Publication).                 *)
FairSpec == Spec /\ \A a \in Accounts : WF_vars(Registers(a)) /\ WF_vars(Publishes(a))

-----------------------------------------------------------------------------
(* "The same identity is returned" (accounts/services.py:7): an account that *)
(* has an AuthorID keeps it through retries, repeated jobs, moved bases and  *)
(* crashes.  Another one comes only by an administrator's grant; and a      *)
(* grant is lost, for the account's own reservation, by another claim's     *)
(* denial or a moved base.                                                  *)
IdentityIsKept ==
    [][\A a \in Accounts :
         binding[a].id # NoId /\ binding'[a].id # binding[a].id =>
             \/ binding'[a].id \in granted'[a]
             \/ granted[a] # {} /\ binding'[a].id = reservation[a]
             \/ granted[a] # {} /\ reservation[a] = NoId]_vars

(* Once the refresh of its own commit is done, the catalog shows the author  *)
(* of a registered binding, whatever other refreshes are in progress and     *)
(* miss each other's rows; unless an older commit was stamped after a newer  *)
(* one, or its transaction began after the newer one's had ended, or a fetch *)
(* failed unnoticed (catalog/projection.py:5).                              *)
RegisteredIsShown ==
    ~disordered /\ ~missed =>
      \A a \in Accounts :
        binding[a].state = "registered" /\ refresh[MergeCommit(a)] = "succeeded"
            => binding[a].id \in main[Shown]

(* "abandon this candidate and re-run the producing job on the new base"     *)
(* (registry_bridge/publication.py:143): a registration comes to its end.   *)
RegistrationSettles ==
    \A a \in Accounts : registration[a] # "none" ~> Settled(binding[a])

=============================================================================
