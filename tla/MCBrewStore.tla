----------------------------- MODULE MCBrewStore -----------------------------
(* Small instances of BrewStore. *)
EXTENDS BrewStore, TLC

CONSTANTS b1, b2, i1, a1, a2, k1, s1, f1, f2, x1, q1, q2

MCKeys == {i1, a1, a2, k1, s1, f1, f2, x1}

\* Two additions free of any material, one of them linked to a step.
Plain == [ingredients |-> {i1}, cultures |-> {},
          additions |-> {[key |-> a1, ingredient |-> None], [key |-> a2, ingredient |-> None]},
          steps |-> {[key |-> s1, addition |-> a1, culture |-> None]}]

\* A culture of material i1.
Cultured == [ingredients |-> {i1}, cultures |-> {[key |-> k1, ingredient |-> i1]},
             additions |-> {}, steps |-> {}]

\* A culture of a material the recipe does not have.
Dangling == [Cultured EXCEPT !.ingredients = {x1}]

MCContents == {Plain, Cultured, Dangling}
OnePlain == {Plain}
Symmetry == Permutations(Clients) \cup Permutations(Brews) \cup Permutations(Recipes)

Call(b, type, crid, addition) ==
    [brew |-> b, type |-> type, crid |-> crid, addition |-> addition, complete |-> TRUE]

\* Recording and skipping one addition, a request id used twice, an incomplete
\* call, an unknown addition, a note without request id, and a second brew.
MCCalls ==
    {Call(b1, "scheduled_addition_recorded", q1, a1),
     Call(b1, "scheduled_addition_skipped", q2, a1),
     Call(b1, "scheduled_addition_skipped", q1, a2),
     Call(b1, "scheduled_addition_recorded", q2, k1),
     [Call(b1, "scheduled_addition_recorded", q2, a2) EXCEPT !.complete = FALSE],
     Call(b1, "note", None, None),
     Call(b2, "scheduled_addition_recorded", q1, a1)}
MCNoCalls == {}
=============================================================================
