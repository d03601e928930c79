----------------------------- MODULE GateProofs -----------------------------
(***************************************************************************)
(* Proofs about the admission gates and the registry checks as operators:   *)
(* what an evaluation without details says of a record, that it stays       *)
(* without details in a registry that has more, and which issues a record   *)
(* with such an evaluation can bring into the registry.                     *)
(***************************************************************************)
EXTENDS RegistryChecks, TLAPS

(* Details are recorded for fields, under gates and causes.                 *)
LEMMA BlockTyped ==
    ASSUME NEW g \in Gates, NEW S \in SUBSET Fields, NEW c \in Causes
    PROVE  Block(g, S, c) \subseteq Detail /\ Fail(g, S, c) \subseteq Detail
BY DEF Block, Fail, Detail

LEMMA NoBlock ==
    ASSUME NEW g, NEW S, NEW c
    PROVE  /\ Block(g, S, c) = {} => S = {}
           /\ Fail(g, S, c) = {} => S = {}
BY DEF Block, Fail

LEMMA NothingToBlock ==
    ASSUME NEW g, NEW c
    PROVE  Block(g, {}, c) = {} /\ Fail(g, {}, c) = {}
BY DEF Block, Fail

(* The groups of fields the gates go through are fields.                    *)
LEMMA FieldsOfGates ==
    /\ Axes \subseteq Fields /\ Vocabularies \subseteq Fields /\ Texts \subseteq Fields
    /\ Patterned \subseteq Fields /\ Lists \subseteq Fields /\ References \subseteq Fields
    /\ Structured \subseteq Fields /\ "authority" \in Fields
    /\ Classified \subseteq Fields /\ DurabilityTexts \subseteq Fields
    /\ RequiredPresence \subseteq Fields
BY DEF Fields, Axes, Vocabularies, Texts, Patterned, Lists, References, Structured, Classified,
       DurabilityTexts, RequiredPresence

LEMMA EvaluationTyped ==
    ASSUME NEW r, NEW lib
    PROVE  Evaluation(r, lib) \subseteq Detail
<1> USE DEF Gates, Causes
<1>1. GateA(r, lib) \subseteq Detail
  <2>1. {"object_id", "title", "authors"} \subseteq Fields
    BY DEF Fields, Patterned, Texts, References
  <2>2. QED BY <2>1, BlockTyped DEF GateA
<1>2. GateB(r) \subseteq Detail
  BY FieldsOfGates, BlockTyped DEF GateB
<1>3. GateC(r, lib) \subseteq Detail
  <2>1. {"provenance", "source_boundary", "source_ids", "claim_layers"} \subseteq Fields
    BY DEF Fields, Vocabularies, Texts, References, Structured
  <2>2. QED BY <2>1, BlockTyped DEF GateC
<1>4. GateD(r) \subseteq Detail
  <2>1. Classified \cup {"main_question"} \subseteq Fields
    BY FieldsOfGates DEF Fields, Texts
  <2>2. QED BY <2>1, BlockTyped DEF GateD
<1>5. GateE(r) \subseteq Detail
  <2>1. {"authority_boundary", "scope", "missingness"} \subseteq Fields
    BY DEF Fields, Texts, Structured
  <2>2. QED BY <2>1, BlockTyped DEF GateE
<1>6. GateF(r, lib) \subseteq Detail
  <2>1. {"governing_refs", "relations"} \subseteq Fields
    BY DEF Fields, References
  <2>2. QED BY <2>1, BlockTyped DEF GateF
<1>7. GateG(r) \subseteq Detail
  <2>1. {"version", "date"} \cup DurabilityTexts \cup Lists \cup {"claim_layers"} \subseteq Fields
    BY FieldsOfGates DEF Fields, Patterned, Structured
  <2>2. QED BY <2>1, BlockTyped DEF GateG
<1>8. QED
  BY <1>1, <1>2, <1>3, <1>4, <1>5, <1>6, <1>7 DEF Evaluation

(* A record is accepted when the gates have nothing to say.                  *)
LEMMA AcceptedIsNothing ==
    ASSUME NEW details
    PROVE  Decision(details) = "ACCEPTED" <=> details = {}
BY DEF Decision, FailedGates

LEMMA SchemaErrors ==
    ASSUME NEW f, NEW way
    PROVE  SchemaError(f, way) \in
               {"none", "required", "minLength", "minItems", "pattern", "enum", "type"}
BY DEF SchemaError

-----------------------------------------------------------------------------
(* What the seven gates together leave of the ways to give a field.          *)
LEMMA NothingMissing ==
    ASSUME NEW r, NEW lib, Evaluation(r, lib) = {}
    PROVE  /\ \A f \in Fields : SchemaError(f, r.state[f]) = "none"
           /\ \A f \in RequiredPresence : ~Missing(r, f)
           /\ \A f \in Patterned : ~Missing(r, f) /\ r.state[f] # "alien"
           /\ \A f \in Axes \cup Vocabularies : r.state[f] \notin {"alien", "blank"}
           /\ r.state["missingness"] # "alien"
<1>1. GateA(r, lib) = {} /\ GateC(r, lib) = {} /\ GateD(r) = {} /\ GateE(r) = {} /\ GateG(r) = {}
  BY DEF Evaluation
<1>2. ASSUME NEW f \in Fields PROVE SchemaError(f, r.state[f]) = "none"
  <2> DEFINE e == SchemaError(f, r.state[f])
             d(verdict) == [gate |-> "G", verdict |-> verdict, field |-> f, cause |-> "schema"]
  <2>1. e \in {"required", "minLength", "minItems"} => d("block") \in GateG(r)
    BY DEF GateG, Block
  <2>2. e \in {"pattern", "enum", "type"} => d("fail") \in GateG(r)
    BY DEF GateG, Fail
  <2>3. QED BY <1>1, <2>1, <2>2, SchemaErrors
<1>3. \A f \in Classified \cup {"main_question"} : ~Missing(r, f)
  BY <1>1 DEF GateD, Block, Fail
<1>4. \A f \in Classified : r.state[f] # "alien"
  BY <1>1 DEF GateD, Block, Fail
<1>5. ~Missing(r, "provenance") /\ ~Missing(r, "source_boundary") /\ r.state["provenance"] # "alien"
  BY <1>1 DEF GateC, Block, Fail
<1>6. ~Missing(r, "authority_boundary") /\ r.state["missingness"] # "alien"
  BY <1>1 DEF GateE, Block, Fail
<1>7. /\ \A f \in {"version", "date"} \cup DurabilityTexts : ~Missing(r, f)
      /\ \A f \in {"version", "date"} : r.state[f] # "alien"
  BY <1>1 DEF GateG, Block, Fail
<1>8. ~Missing(r, "object_id") /\ r.state["object_id"] # "alien"
  BY <1>1 DEF GateA, Block, Fail
<1>9. \A f \in RequiredPresence : ~Missing(r, f)
  BY <1>3, <1>5, <1>6, <1>7 DEF RequiredPresence, Classified, Axes, DurabilityTexts
<1>10. \A f \in Axes \cup Vocabularies : r.state[f] \notin {"alien", "blank"}
  BY <1>3, <1>4, <1>5 DEF Missing, Classified, Vocabularies
<1>11. \A f \in Patterned : ~Missing(r, f) /\ r.state[f] # "alien"
  BY <1>7, <1>8 DEF Patterned
<1>12. QED
  BY <1>2, <1>6, <1>9, <1>10, <1>11

(* ... and of what it names.                                                *)
LEMMA NothingDangling ==
    ASSUME NEW r, NEW lib, Evaluation(r, lib) = {}
    PROVE  /\ \A f \in References : ~Dangling(r, lib, f)
           /\ \A x \in NamedRelations(r, lib) :
                 x.controlled /\ \A end \in x.ends : Resolves(r, lib, end)
<1>1. GateA(r, lib) = {} /\ GateC(r, lib) = {} /\ GateF(r, lib) = {}
  BY DEF Evaluation
<1>2. r.state["authors"] # "alien" /\ ~(r.state["authors"] = "stated" /\ Dangling(r, lib, "authors"))
  BY <1>1 DEF GateA, Fail, Block
<1>3. ~Dangling(r, lib, "authors")
  BY <1>2 DEF Dangling, Names
<1>4. ~Dangling(r, lib, "source_ids")
  BY <1>1 DEF GateC, Block
<1>5. Given(r, "relations")
  BY <1>1 DEF GateF, Block
<1>6. /\ Block("F", {f \in {"governing_refs", "relations"} : Dangling(r, lib, f)}, "unregistered") = {}
      /\ Fail("F", {f \in {"relations"} : \E x \in NamedRelations(r, lib) : ~x.controlled},
              "vocabulary") = {}
      /\ Block("F", {f \in {"relations"} :
                       \E x \in NamedRelations(r, lib) : \E end \in x.ends : ~Resolves(r, lib, end)},
               "endpoint") = {}
  BY <1>1, <1>5 DEF GateF
<1>7. /\ ~Dangling(r, lib, "relations") /\ ~Dangling(r, lib, "governing_refs")
      /\ \A x \in NamedRelations(r, lib) :
            x.controlled /\ \A end \in x.ends : Resolves(r, lib, end)
  BY <1>6, NoBlock
<1>8. QED
  BY <1>3, <1>4, <1>7 DEF References

(* A registry that has what another has, in which the relations the record  *)
(* names end somewhere, accepts what the other accepts.                     *)
LEMMA StillAccepted ==
    ASSUME NEW r, NEW lib, NEW more, Evaluation(r, lib) = {},
           \A f \in References : Registered(lib, f) \subseteq Registered(more, f),
           \A x \in DOMAIN lib.relations : more.relations[x] = lib.relations[x],
           \A x \in NamedRelations(r, lib) : \A end \in x.ends : Resolves(r, more, end)
    PROVE  Evaluation(r, more) = {}
<1>1. /\ GateA(r, lib) = {} /\ GateB(r) = {} /\ GateC(r, lib) = {} /\ GateD(r) = {}
      /\ GateE(r) = {} /\ GateF(r, lib) = {} /\ GateG(r) = {}
  BY DEF Evaluation
<1>2. \A f \in References : ~Dangling(r, lib, f)
  BY NothingDangling
<1>3. \A f \in References : ~Dangling(r, more, f)
  BY <1>2 DEF Dangling
<1>4. {"authors", "source_ids", "governing_refs", "relations"} \subseteq References
  BY DEF References
<1>5. GateA(r, more) = {}
  <2>1. ~Dangling(r, more, "authors")
    BY <1>3, <1>4
  <2>2. {f \in {"authors"} : r.state[f] = "stated" /\ Dangling(r, more, f)} = {}
    BY <2>1
  <2>3. QED BY <1>1, <2>2, NothingToBlock DEF GateA
<1>6. GateC(r, more) = {}
  <2>1. {f \in {"source_ids"} : Dangling(r, more, f)} = {}
    BY <1>3, <1>4
  <2>2. QED BY <1>1, <2>1, NothingToBlock DEF GateC
<1>7. GateF(r, more) = {}
  <2>1. Given(r, "relations")
    BY <1>1 DEF GateF, Block
  <2>2. NamedRelations(r, more) \subseteq NamedRelations(r, lib)
    <3>1. Names(r, "relations") \subseteq Registered(lib, "relations")
      BY <1>2, <1>4 DEF Dangling
    <3>2. Names(r, "relations") \subseteq DOMAIN lib.relations
      BY <3>1 DEF Registered
    <3>3. QED BY <3>2 DEF NamedRelations
  <2>3. \A x \in NamedRelations(r, more) : x.controlled /\ \A end \in x.ends : Resolves(r, more, end)
    BY <2>2, NothingDangling
  <2>4. {f \in {"governing_refs", "relations"} : Dangling(r, more, f)} = {}
    BY <1>3, <1>4
  <2>5. {f \in {"relations"} : \E x \in NamedRelations(r, more) : ~x.controlled} = {}
    BY <2>3
  <2>6. {f \in {"relations"} :
           \E x \in NamedRelations(r, more) : \E end \in x.ends : ~Resolves(r, more, end)} = {}
    BY <2>3
  <2>7. QED BY <2>1, <2>4, <2>5, <2>6, NothingToBlock DEF GateF
<1>8. QED
  BY <1>1, <1>5, <1>6, <1>7 DEF Evaluation

=============================================================================
