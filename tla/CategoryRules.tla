--------------------------- MODULE CategoryRules ---------------------------
(***************************************************************************)
(* How the movements of a user get their category, and how the rules that  *)
(* do it are learned.  A rule belongs to a normalised description; it is   *)
(* learned when the user gives a category, on creation or in a PATCH, and  *)
(* used when they give none.  A PATCH may also rewrite every movement of   *)
(* the same description.  It loads its row before its transaction, so a    *)
(* PATCH of another row may rewrite the row meanwhile.                     *)
(*                                                                         *)
(* A description is the pair of its two forms that the code compares:      *)
(* lowered, and lowered with its spaces collapsed.                         *)
(***************************************************************************)
EXTENDS Naturals, FiniteSets

CONSTANTS
  Movements,     \* the ids of movements
  Patches,       \* the PATCH requests in progress at once
  Descriptions,  \* records [lower, normal]; normal is Blank when nothing is left
  Categories,    \* the categories a request names: records [category, sub]
  SubsOf,        \* SubsOf[c]: the subcategories of category c
  CompanyDefault,\* the category of movements of the company of the user, or Unset
  MaxPatches,    \* how many PATCH requests arrive
  Blank, Unset

VARIABLES
  movement,  \* the rows: a function on the ids in use
  rule,      \* the rules: a function on the normalised descriptions in use
  patch,     \* patch[p]: the row request p has loaded, or Unset
  mixed,     \* history: some row or rule was given a category without the
             \* subcategory that goes with it
  patches    \* how many PATCH requests have arrived

rvars == <<movement, rule, patch, mixed, patches>>

\* A row: its description, category, subcategory, review status and company.
MovementRow ==
  [text: Descriptions, category: DOMAIN SubsOf \cup {Unset},
   sub: (UNION {SubsOf[c] : c \in DOMAIN SubsOf}) \cup {Unset},
   status: {"pending", "categorized"}, ours: BOOLEAN]

Put(f, x, y) == [z \in DOMAIN f \cup {x} |-> IF z = x THEN y ELSE f[z]]

OwnSub(pair) == pair.sub # Unset => pair.category # Unset /\ pair.sub \in SubsOf[pair.category]
-----------------------------------------------------------------------------
(* The category of one movement.                                            *)

Named(m, c) == [m EXCEPT !.category = c, !.status = "categorized"]

\* The description decides: the rule of it, or the movement waits for review.
ByRule(m, rules) ==
  IF m.text.normal \in DOMAIN rules
  THEN [Named(m, rules[m.text.normal].category)
          EXCEPT !.sub = rules[m.text.normal].sub]
  ELSE [m EXCEPT !.category = Unset, !.status = "pending"]

ApplyAutoCategory(m, c, rules) == IF c # Unset THEN Named(m, c) ELSE ByRule(m, rules)

\* A movement still without category takes the one of its company.
ByCompany(m) ==
  IF m.category = Unset /\ m.ours /\ CompanyDefault # Unset
  THEN Named(m, CompanyDefault) ELSE m

\* A batch that assigns no categories looks at what it was given only.
Unassigned(m) ==
  IF m.category = Unset THEN [m EXCEPT !.status = "pending"]
  ELSE [m EXCEPT !.status = "categorized"]

Learned(rules, text, c, s) ==
  IF c = Unset \/ text.normal = Blank THEN rules
  ELSE Put(rules, text.normal, [category |-> c, sub |-> s])
-----------------------------------------------------------------------------
(* The requests.                                                            *)

Fresh(d, choice, ours) ==
  [text |-> d, category |-> choice.category, sub |-> choice.sub,
   status |-> "pending", ours |-> ours]

Create(i, d, choice, ours) ==
  /\ i \notin DOMAIN movement
  /\ movement' = Put(movement, i,
       ByCompany(ApplyAutoCategory(Fresh(d, choice, ours), choice.category, rule)))
  /\ rule' = Learned(rule, d, choice.category, choice.sub)
  /\ mixed' = (mixed \/ ~OwnSub(choice))
  /\ UNCHANGED <<patch, patches>>

\* One movement of a batch; a batch learns nothing.
CreateInBatch(i, d, choice, ours, assign) ==
  LET given == Fresh(d, choice, ours)
      sorted == IF assign THEN ApplyAutoCategory(given, choice.category, rule)
                ELSE Unassigned(given)
  IN  /\ i \notin DOMAIN movement
      /\ movement' = Put(movement, i, ByCompany(sorted))
      /\ mixed' = (mixed \/ ~OwnSub(choice))
      /\ UNCHANGED <<rule, patch, patches>>

\* A PATCH loads its row.
LoadPatch(p, i) ==
  /\ patch[p] = Unset /\ i \in DOMAIN movement /\ patches < MaxPatches
  /\ patch' = [patch EXCEPT ![p] = [on |-> i, old |-> movement[i]]]
  /\ patches' = patches + 1
  /\ UNCHANGED <<movement, rule, mixed>>

Or(x, y) == IF x # Unset THEN x ELSE y

\* The loaded row with the fields of the request.
Merged(old, text, choice) ==
  [old EXCEPT !.text = Or(text, @),
              !.category = Or(choice.category, @), !.sub = Or(choice.sub, @)]

\* What a PATCH learns and spreads: what it names, or else what it loaded.
Meant(old, choice) ==
  [category |-> Or(choice.category, old.category), sub |-> Or(choice.sub, old.sub)]

\* The other movements of a description: those whose lowered form is its
\* normalised one.
Similar(i, text) ==
  {j \in DOMAIN movement \ {i} :
     text.normal # Blank /\ movement[j].text.lower = text.normal}

\* Mutant: the rewritten movements keep their own subcategory.
SpreadCategory(m, pair) == Named(m, pair.category)

Spread(m, pair) == [Named(m, pair.category) EXCEPT !.sub = pair.sub]

\* The rest of a PATCH, in one transaction; text, if not Unset, is the new
\* description.
CommitPatch(p, text, choice, similar) ==
  /\ patch[p] # Unset
  /\ LET i == patch[p].on
         pair == Meant(patch[p].old, choice)
         merged == Merged(patch[p].old, text, choice)
         rules == Learned(rule, merged.text, pair.category, pair.sub)
         chain == IF similar /\ pair.category # Unset THEN Similar(i, merged.text) ELSE {}
     IN  /\ rule' = rules
         /\ movement' = [j \in DOMAIN movement |->
              CASE j = i -> ByCompany(ApplyAutoCategory(merged, pair.category, rules))
                [] j \in chain -> Spread(movement[j], pair)
                [] OTHER -> movement[j]]
         /\ mixed' = (mixed \/ ~OwnSub(pair))
  /\ patch' = [patch EXCEPT ![p] = Unset]
  /\ UNCHANGED patches
-----------------------------------------------------------------------------
Init ==
  /\ movement = <<>> /\ rule = <<>>
  /\ patch = [p \in Patches |-> Unset]
  /\ mixed = FALSE /\ patches = 0

Next ==
  \/ \E i \in Movements, d \in Descriptions, c \in Categories, ours \in BOOLEAN :
       \/ Create(i, d, c, ours)
       \/ \E assign \in BOOLEAN : CreateInBatch(i, d, c, ours, assign)
  \/ \E p \in Patches, i \in Movements : LoadPatch(p, i)
  \/ \E p \in Patches, t \in Descriptions \cup {Unset}, c \in Categories, s \in BOOLEAN :
       CommitPatch(p, t, c, s)

Spec == Init /\ [][Next]_rvars
-----------------------------------------------------------------------------
(* Properties.                                                              *)

\* A movement is under review exactly while it has no category, whatever
\* way it was written: by a request, a batch, a rule, its company or the
\* rewriting of another movement (applyAutoCategory, createMany, update).
ReviewedWithCategory ==
  \A i \in DOMAIN movement :
    (movement[i].status = "categorized") <=> (movement[i].category # Unset)

\* Unless a request named a category and left out its subcategory, no
\* movement and no rule pairs a category with a subcategory of another: not
\* by learning, by a rule, by rewriting similar movements, or by a PATCH
\* whose row was rewritten after it was loaded.
PairsBelong ==
  mixed \/ /\ \A i \in DOMAIN movement : OwnSub(movement[i])
           /\ \A t \in DOMAIN rule : OwnSub(rule[t])

\* A movement that has a category loses it only to a PATCH that had loaded
\* it when it had none (update merges its fields into that copy).
NeverUncategorised ==
  \A i \in DOMAIN movement :
    (movement[i].category # Unset /\ movement'[i].category = Unset) =>
      \E p \in Patches : /\ patch[p] # Unset /\ patch'[p] = Unset
                         /\ patch[p].on = i /\ patch[p].old.category = Unset

\* The three together, of every step.
RulesFollow == [][ReviewedWithCategory' /\ PairsBelong' /\ NeverUncategorised]_rvars
=============================================================================
