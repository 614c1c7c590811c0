--------------------------- MODULE BrewStoreProofs ---------------------------
(***************************************************************************)
(* Proofs about BrewStore for any number of recipes, brews and clients.    *)
(*                                                                          *)
(* The invariant is the conjunction of the properties with three facts      *)
(* about what exists before what: RecipesVersioned ties a recipe's row to   *)
(* its history, BrewsExist says what a brew that has not begun cannot have, *)
(* and LatestExists gives Latest a row to choose.  The lemma Footprints     *)
(* says which actions write which part of the database; a property is then  *)
(* proved from the footprints of the parts it mentions.                     *)
(***************************************************************************)
EXTENDS BrewStore, SequenceTheorems, TLAPS

Created(r) ==
    /\ Len(versions[r]) = recipe[r].revision
    /\ versions[r][recipe[r].revision].content = recipe[r].content

RecipesVersioned ==
    \A r \in Recipes : IF Exists(r) THEN Created(r) ELSE versions[r] = <<>>

BrewsExist ==
    /\ \A b \in Brews : status[b] = "none" => events[b] = <<>> /\ bundle[b] = None
    /\ \A a \in answered : a.brew \in Brews /\ a.row \in DOMAIN events[a.brew]
    /\ \A x \in refused : x.brew \in Brews /\ status[x.brew] \in Terminal
    /\ \A l \in lineage : /\ l.child \in Recipes /\ l.recipe \in Recipes /\ l.brew \in Brews
                          /\ status[l.brew] \in Terminal

LatestExists ==
    \A b \in Brews : NotesOf(b) # {} =>
        \E i \in NotesOf(b) :
            \A n \in NotesOf(b) : annotations[n].revision <= annotations[i].revision

Inv ==
    /\ TypeOK
    /\ RecipesVersioned
    /\ BrewsExist
    /\ LatestExists

-----------------------------------------------------------------------------
\* Which actions write which part of the database.
LEMMA Footprints ==
    ASSUME [Next]_vars
    PROVE  /\ \/ UNCHANGED <<recipe, versions>>
              \/ \E r \in Recipes, g \in Contents : CreateRecipe(r, g)
              \/ \E c \in Clients, r \in Recipes, g \in Contents : UpdateRecipe(c, r, g)
              \/ \E child, r \in Recipes, revision \in 1 .. MaxRevision, b \in Brews :
                    ForkRecipe(child, r, revision, b)
           /\ \/ UNCHANGED <<status, device, source, snapshot>>
              \/ \E b \in Brews, d \in Devices, r \in Recipes : BeginBrew(b, d, r)
              \/ \E b \in Brews, outcome \in Terminal : StopBrew(b, outcome)
           /\ \/ UNCHANGED <<device, source, snapshot>>
              \/ \E b \in Brews, d \in Devices, r \in Recipes : BeginBrew(b, d, r)
           /\ \/ UNCHANGED events
              \/ \E b \in Brews, d \in Devices, r \in Recipes : BeginBrew(b, d, r)
              \/ \E call \in Calls : RecordEvent(call)
              \/ \E b \in Brews, outcome \in Terminal : StopBrew(b, outcome)
           /\ UNCHANGED bundle \/ \E b \in Brews : FreezeEvidence(b)
           /\ \/ UNCHANGED annotations
              \/ \E b \in Brews, parent \in 1 .. MaxAnnotations \cup {None} : Annotate(b, parent)
           /\ \/ UNCHANGED lineage
              \/ \E child, r \in Recipes, revision \in 1 .. MaxRevision, b \in Brews :
                    ForkRecipe(child, r, revision, b)
           /\ UNCHANGED answered \/ \E call \in Calls : ReplayEvent(call)
           /\ UNCHANGED refused \/ \E call \in Calls : RefuseEvent(call)
           /\ \/ UNCHANGED seen
              \/ \E c \in Clients, r \in Recipes : ReadRecipe(c, r)
              \/ \E c \in Clients, r \in Recipes, g \in Contents : UpdateRecipe(c, r, g)
<1>1. CASE UNCHANGED vars
  BY <1>1 DEF vars
<1>2. ASSUME NEW r \in Recipes, NEW g \in Contents, CreateRecipe(r, g)
      PROVE  UNCHANGED <<status, device, source, snapshot, events, bundle, annotations, lineage,
                         seen, answered, refused>>
  BY <1>2 DEF CreateRecipe
<1>3. ASSUME NEW c \in Clients, NEW r \in Recipes, ReadRecipe(c, r)
      PROVE  UNCHANGED <<recipe, status, device, source, snapshot, events, bundle, annotations,
                         lineage, versions, answered, refused>>
  BY <1>3 DEF ReadRecipe
<1>4. ASSUME NEW c \in Clients, NEW r \in Recipes, NEW g \in Contents, UpdateRecipe(c, r, g)
      PROVE  UNCHANGED <<status, device, source, snapshot, events, bundle, annotations, lineage,
                         answered, refused>>
  BY <1>4 DEF UpdateRecipe
<1>5. ASSUME NEW b \in Brews, NEW d \in Devices, NEW r \in Recipes, BeginBrew(b, d, r)
      PROVE  UNCHANGED <<recipe, bundle, annotations, lineage, seen, versions, answered, refused>>
  BY <1>5 DEF BeginBrew, Start
<1>6. ASSUME NEW call \in Calls, RecordEvent(call)
      PROVE  UNCHANGED <<recipe, status, device, source, snapshot, bundle, annotations, lineage,
                         seen, versions, answered, refused>>
  BY <1>6 DEF RecordEvent, EventFrame
<1>7. ASSUME NEW call \in Calls, ReplayEvent(call)
      PROVE  UNCHANGED <<recipe, status, device, source, snapshot, bundle, annotations, lineage,
                         seen, versions, events, refused>>
  BY <1>7 DEF ReplayEvent, EventFrame
<1>8. ASSUME NEW call \in Calls, RefuseEvent(call)
      PROVE  UNCHANGED <<recipe, status, device, source, snapshot, bundle, annotations, lineage,
                         seen, versions, events, answered>>
  BY <1>8 DEF RefuseEvent, EventFrame
<1>9. ASSUME NEW b \in Brews, NEW outcome \in Terminal, StopBrew(b, outcome)
      PROVE  UNCHANGED <<recipe, device, source, snapshot, bundle, annotations, lineage, seen,
                         versions, answered, refused>>
  BY <1>9 DEF StopBrew
<1>10. ASSUME NEW b \in Brews, FreezeEvidence(b)
       PROVE  UNCHANGED <<recipe, annotations, lineage, versions, status, device, source,
                          snapshot, events, seen, answered, refused>>
  BY <1>10 DEF FreezeEvidence, ArchiveFrame
<1>11. ASSUME NEW b \in Brews, NEW parent \in 1 .. MaxAnnotations \cup {None},
              Annotate(b, parent)
       PROVE  UNCHANGED <<recipe, bundle, lineage, versions, status, device, source,
                          snapshot, events, seen, answered, refused>>
  BY <1>11 DEF Annotate, ArchiveFrame
<1>12. ASSUME NEW child \in Recipes, NEW r \in Recipes, NEW revision \in 1 .. MaxRevision,
              NEW b \in Brews, ForkRecipe(child, r, revision, b)
       PROVE  UNCHANGED <<bundle, annotations, status, device, source, snapshot, events, seen,
                          answered, refused>>
  BY <1>12 DEF ForkRecipe, Fork, ArchiveFrame
<1>q. QED
  BY <1>1, <1>2, <1>3, <1>4, <1>5, <1>6, <1>7, <1>8, <1>9, <1>10, <1>11, <1>12 DEF Next

-----------------------------------------------------------------------------
(* Types.                                                                    *)

LEMMA EndEvent ==
    ASSUME NEW outcome
    PROVE  /\ Event(EndType(outcome), None, None) \in Entries
           /\ Event(EndType(outcome), None, None).type \notin Scheduled
           /\ Event(EndType(outcome), None, None).crid = None
  BY DEF Event, EndType, Entries, Scheduled

LEMMA CallEvent ==
    ASSUME NEW call \in Calls
    PROVE  Event(call.type, call.crid, call.addition) \in Entries
  BY DEF Entries

LEMMA ForkIsGraph ==
    ASSUME NEW g \in Graphs, NEW m \in Renamings(g)
    PROVE  ForkContent(g, m) \in Graphs
<1>1. m \in [g.ingredients -> Keys]
  BY DEF Renamings
<1>2. {m[k] : k \in g.ingredients} \in SUBSET Keys
  BY <1>1
<1> QED
  BY <1>2 DEF ForkContent, Graphs

\* The row a step writes when it creates or replaces a recipe.
LEMMA RecipeTypes ==
    ASSUME TypeOK, [Next]_vars
    PROVE  /\ recipe' \in [Recipes -> Snapshots \cup {[revision |-> 0, content |-> None]}]
           /\ versions' \in [Recipes -> Seq([content : Graphs, basis : Nat])]
           /\ seen' \in [Clients -> [Recipes -> 0 .. MaxRevision]]
<1> USE StoreAssumption
<1>1. ASSUME NEW r \in Recipes, NEW g \in Graphs, NewRecipe(r, g)
      PROVE  /\ recipe' \in [Recipes -> Snapshots \cup {[revision |-> 0, content |-> None]}]
             /\ versions' \in [Recipes -> Seq([content : Graphs, basis : Nat])]
  <2>1. [revision |-> 1, content |-> g] \in Snapshots
    BY DEF Snapshots
  <2>2. <<[content |-> g, basis |-> 0]>> \in Seq([content : Graphs, basis : Nat])
    OBVIOUS
  <2> QED
    BY <1>1, <2>1, <2>2 DEF NewRecipe, TypeOK
<1>2. ASSUME NEW c \in Clients, NEW r \in Recipes, NEW g \in Contents, UpdateRecipe(c, r, g)
      PROVE  /\ recipe' \in [Recipes -> Snapshots \cup {[revision |-> 0, content |-> None]}]
             /\ versions' \in [Recipes -> Seq([content : Graphs, basis : Nat])]
             /\ seen' \in [Clients -> [Recipes -> 0 .. MaxRevision]]
  <2>1. g \in Graphs /\ recipe[r].revision \in 1 .. MaxRevision
    BY <1>2 DEF UpdateRecipe, Exists, TypeOK, Snapshots
  <2>2. recipe[r].revision < MaxRevision /\ seen[c][r] \in Nat
    BY <1>2, <2>1 DEF UpdateRecipe, Replace
  <2>3. [revision |-> recipe[r].revision + 1, content |-> g] \in Snapshots
    BY <2>1, <2>2 DEF Snapshots
  <2>4. recipe' = [recipe EXCEPT ![r] = [revision |-> recipe[r].revision + 1, content |-> g]]
    BY <1>2 DEF UpdateRecipe, Replace
  <2>5. recipe' \in [Recipes -> Snapshots \cup {[revision |-> 0, content |-> None]}]
    BY <2>3, <2>4 DEF TypeOK
  <2>6. recipe'[r].revision \in 0 .. MaxRevision
    BY <2>1, <2>2, <2>4 DEF TypeOK
  <2>7. seen' \in [Clients -> [Recipes -> 0 .. MaxRevision]]
    <3>1. seen \in [Clients -> [Recipes -> 0 .. MaxRevision]]
      BY DEF TypeOK
    <3>2. seen' = seen \/ seen' = [seen EXCEPT ![c][r] = recipe'[r].revision]
      BY <1>2 DEF UpdateRecipe
    <3> QED
      BY <2>6, <3>1, <3>2
  <2>8. versions' = [versions EXCEPT ![r] = Append(versions[r], [content |-> g, basis |-> seen[c][r]])]
    BY <1>2 DEF UpdateRecipe, Replace
  <2>9. versions' \in [Recipes -> Seq([content : Graphs, basis : Nat])]
    <3>1. [content |-> g, basis |-> seen[c][r]] \in [content : Graphs, basis : Nat]
      BY <2>1, <2>2
    <3>2. Append(versions[r], [content |-> g, basis |-> seen[c][r]])
              \in Seq([content : Graphs, basis : Nat])
      BY <3>1, AppendProperties DEF TypeOK
    <3> QED
      BY <2>8, <3>2 DEF TypeOK
  <2> QED
    BY <2>5, <2>7, <2>9
<1>3. ASSUME NEW child \in Recipes, NEW r \in Recipes, NEW revision \in 1 .. MaxRevision,
             NEW b \in Brews, ForkRecipe(child, r, revision, b)
      PROVE  \E g \in Graphs : NewRecipe(child, g)
  <2>1. PICK m \in Renamings(snapshot[b].content) :
              NewRecipe(child, ForkContent(snapshot[b].content, m))
    BY <1>3 DEF ForkRecipe, Fork
  <2>2. snapshot[b].content \in Graphs
    BY <1>3 DEF ForkRecipe, Fork, TypeOK, Terminal, Snapshots
  <2> QED
    BY <2>1, <2>2, ForkIsGraph
<1>4. ASSUME NEW c \in Clients, NEW r \in Recipes, ReadRecipe(c, r)
      PROVE  seen' \in [Clients -> [Recipes -> 0 .. MaxRevision]]
  <2>1. recipe[r].revision \in 0 .. MaxRevision
    BY DEF TypeOK, Snapshots
  <2> QED
    BY <1>4, <2>1 DEF ReadRecipe, TypeOK
<1>5. /\ recipe' \in [Recipes -> Snapshots \cup {[revision |-> 0, content |-> None]}]
      /\ versions' \in [Recipes -> Seq([content : Graphs, basis : Nat])]
  BY <1>1, <1>2, <1>3, Footprints DEF TypeOK, CreateRecipe
<1>6. seen' \in [Clients -> [Recipes -> 0 .. MaxRevision]]
  BY <1>2, <1>4, Footprints DEF TypeOK
<1> QED
  BY <1>5, <1>6

LEMMA BrewTypes ==
    ASSUME TypeOK, [Next]_vars
    PROVE  /\ status' \in [Brews -> Statuses]
           /\ device' \in [Brews -> Devices \cup {None}]
           /\ source' \in [Brews -> Recipes \cup {None}]
           /\ snapshot' \in [Brews -> Snapshots \cup {None}]
           /\ events' \in [Brews -> Seq(Entries)]
           /\ bundle' \in [Brews -> Bundles \cup {None}]
           /\ \A b \in Brews : status'[b] # "none" =>
                 snapshot'[b] \in Snapshots /\ source'[b] \in Recipes /\ events'[b] # <<>>
<1> USE StoreAssumption
<1>1. ASSUME NEW b \in Brews, NEW d \in Devices, NEW r \in Recipes, BeginBrew(b, d, r)
      PROVE  /\ status' \in [Brews -> Statuses]
             /\ device' \in [Brews -> Devices \cup {None}]
             /\ source' \in [Brews -> Recipes \cup {None}]
             /\ snapshot' \in [Brews -> Snapshots \cup {None}]
             /\ events' \in [Brews -> Seq(Entries)]
             /\ \A q \in Brews : status'[q] # "none" =>
                   snapshot'[q] \in Snapshots /\ source'[q] \in Recipes /\ events'[q] # <<>>
  <2>1. recipe[r] \in Snapshots
    BY <1>1 DEF BeginBrew, Start, Exists, TypeOK
  <2>2. Event("brew_started", None, None) \in Entries
    BY DEF Event, Entries
  <2>3. <<Event("brew_started", None, None)>> \in Seq(Entries) \ {<<>>}
    BY <2>2
  <2>4. /\ status' \in [Brews -> Statuses]
        /\ device' \in [Brews -> Devices \cup {None}]
        /\ source' \in [Brews -> Recipes \cup {None}]
    BY <1>1 DEF BeginBrew, Start, TypeOK, Statuses
  <2>5. snapshot' \in [Brews -> Snapshots \cup {None}]
    BY <1>1, <2>1 DEF BeginBrew, Start, TypeOK
  <2>6. events' \in [Brews -> Seq(Entries)]
    BY <1>1, <2>3 DEF BeginBrew, Start, TypeOK
  <2>7. ASSUME NEW q \in Brews, status'[q] # "none"
        PROVE  snapshot'[q] \in Snapshots /\ source'[q] \in Recipes /\ events'[q] # <<>>
    BY <1>1, <2>1, <2>3, <2>7 DEF BeginBrew, Start, TypeOK
  <2> QED
    BY <2>4, <2>5, <2>6, <2>7
<1>2. ASSUME NEW b \in Brews, NEW outcome \in Terminal, StopBrew(b, outcome)
      PROVE  /\ status' \in [Brews -> Statuses]
             /\ events' \in [Brews -> Seq(Entries)]
             /\ \A q \in Brews : status'[q] # "none" => status[q] # "none" /\ events'[q] # <<>>
  <2>1. Append(events[b], Event(EndType(outcome), None, None)) \in Seq(Entries) \ {<<>>}
    <3>1. events[b] \in Seq(Entries)
      BY DEF TypeOK
    <3> QED
      BY <3>1, EndEvent, AppendProperties
  <2>2. status' \in [Brews -> Statuses]
    BY <1>2 DEF StopBrew, TypeOK, Statuses
  <2>3. events' \in [Brews -> Seq(Entries)]
    BY <1>2, <2>1 DEF StopBrew, TypeOK
  <2>4. ASSUME NEW q \in Brews, status'[q] # "none"
        PROVE  status[q] # "none" /\ events'[q] # <<>>
    BY <1>2, <2>1, <2>4 DEF StopBrew, TypeOK
  <2> QED
    BY <2>2, <2>3, <2>4
<1>3. ASSUME NEW call \in Calls, RecordEvent(call)
      PROVE  /\ events' \in [Brews -> Seq(Entries)]
             /\ \A q \in Brews : events[q] # <<>> => events'[q] # <<>>
  <2>1. /\ call.brew \in Brews
        /\ events' = [events EXCEPT ![call.brew] =
                         Append(events[call.brew], Event(call.type, call.crid, call.addition))]
    BY <1>3 DEF RecordEvent
  <2>2. Append(events[call.brew], Event(call.type, call.crid, call.addition))
            \in Seq(Entries) \ {<<>>}
    <3>1. events[call.brew] \in Seq(Entries)
      BY <2>1, StoreAssumption DEF TypeOK
    <3> QED
      BY <3>1, CallEvent, AppendProperties
  <2> QED
    BY <2>1, <2>2 DEF TypeOK
<1>4. ASSUME NEW b \in Brews, FreezeEvidence(b)
      PROVE  bundle' \in [Brews -> Bundles \cup {None}]
  <2>1. snapshot[b] \in Snapshots /\ events[b] \in Seq(Entries)
    BY <1>4 DEF FreezeEvidence, Terminal, TypeOK
  <2>2. Capture(b) \in Bundles
    BY <2>1 DEF Capture, Bundles
  <2> QED
    BY <1>4, <2>2 DEF FreezeEvidence, TypeOK
<1>5. bundle' \in [Brews -> Bundles \cup {None}]
  BY <1>4, Footprints DEF TypeOK
<1>6. events' \in [Brews -> Seq(Entries)]
  BY <1>1, <1>2, <1>3, Footprints DEF TypeOK
<1>7. status' \in [Brews -> Statuses]
  BY <1>1, <1>2, Footprints DEF TypeOK
<1>8. /\ device' \in [Brews -> Devices \cup {None}]
      /\ source' \in [Brews -> Recipes \cup {None}]
      /\ snapshot' \in [Brews -> Snapshots \cup {None}]
  BY <1>1, Footprints DEF TypeOK
<1>9. ASSUME NEW q \in Brews, status'[q] # "none"
      PROVE  snapshot'[q] \in Snapshots /\ source'[q] \in Recipes /\ events'[q] # <<>>
  <2>1. CASE \E b \in Brews, d \in Devices, r \in Recipes : BeginBrew(b, d, r)
    BY <1>1, <1>9, <2>1
  <2>2. CASE \E b \in Brews, outcome \in Terminal : StopBrew(b, outcome)
    BY <1>2, <1>9, <2>2 DEF StopBrew, TypeOK
  <2>3. CASE UNCHANGED <<status, device, source, snapshot>>
    <3>1. events[q] # <<>> /\ snapshot[q] \in Snapshots /\ source[q] \in Recipes
      BY <1>9, <2>3 DEF TypeOK
    <3>2. events'[q] # <<>>
      BY <1>1, <1>2, <1>3, <1>9, <3>1, Footprints
    <3> QED
      BY <2>3, <3>1, <3>2
  <2> QED
    BY <2>1, <2>2, <2>3, Footprints
<1> QED
  BY <1>5, <1>6, <1>7, <1>8, <1>9

-----------------------------------------------------------------------------
(* Annotations: their types need Latest to choose a row.                     *)

NoteRows == [brew : Brews, parent : Nat \cup {None}, revision : Nat]

\* What Annotate appends: the next revision of its brew.
LEMMA NewNote ==
    ASSUME TypeOK, LatestExists,
           NEW b \in Brews, NEW parent \in 1 .. MaxAnnotations \cup {None}, Annotate(b, parent)
    PROVE  /\ Note(b, parent) \in NoteRows
           /\ annotations' = Append(annotations, Note(b, parent))
           /\ Len(annotations) \in Nat /\ Len(annotations) < MaxAnnotations
           /\ DOMAIN annotations = 1 .. Len(annotations)
           /\ annotations' \in Seq(NoteRows)
           /\ DOMAIN annotations' = 1 .. (Len(annotations) + 1)
           /\ \A i \in 1 .. Len(annotations) : annotations'[i] = annotations[i]
           /\ annotations'[Len(annotations) + 1] = Note(b, parent)
           /\ Note(b, parent).brew = b /\ Note(b, parent).parent = parent
           /\ Note(b, parent).revision = NextRevision(b) /\ NextRevision(b) \in Nat
           /\ \A n \in NotesOf(b) :
                 annotations[n].revision \in Nat /\ annotations[n].revision < NextRevision(b)
           /\ NotesOf(b) # {} =>
                 /\ Latest(b) \in NotesOf(b)
                 /\ NextRevision(b) = annotations[Latest(b)].revision + 1
                 /\ \A n \in NotesOf(b) : annotations[n].revision <= annotations[Latest(b)].revision
           /\ NotesOf(b) = {} => parent = None /\ NextRevision(b) = 1
           /\ parent = Latest(b)
<1> USE StoreAssumption
<1>1. annotations \in Seq(NoteRows)
  BY DEF TypeOK, NoteRows
<1>2. /\ Len(annotations) \in Nat
      /\ DOMAIN annotations = 1 .. Len(annotations)
      /\ \A i \in DOMAIN annotations : annotations[i] \in NoteRows
  BY <1>1, LenProperties
<1>3. /\ annotations' = Append(annotations, Note(b, parent))
      /\ Len(annotations) < MaxAnnotations
      /\ parent = Latest(b)
  BY DEF Annotate
<1>4. ASSUME NotesOf(b) # {}
      PROVE  /\ Latest(b) \in NotesOf(b)
             /\ \A n \in NotesOf(b) : annotations[n].revision <= annotations[Latest(b)].revision
  <2>1. \E i \in NotesOf(b) :
            \A n \in NotesOf(b) : annotations[n].revision <= annotations[i].revision
    BY <1>4 DEF LatestExists
  <2> QED
    BY <1>4, <2>1 DEF Latest
<1>5. NotesOf(b) \subseteq 1 .. Len(annotations)
  BY <1>2 DEF NotesOf
<1>6. \A n \in NotesOf(b) : annotations[n].revision \in Nat
  BY <1>2, <1>5 DEF NoteRows
<1>7. NextRevision(b) \in Nat /\ \A n \in NotesOf(b) : annotations[n].revision < NextRevision(b)
  BY <1>4, <1>6 DEF NextRevision
<1>8. Note(b, parent) \in NoteRows
  BY <1>7 DEF Note, NoteRows
<1>9. /\ annotations' \in Seq(NoteRows)
      /\ Len(annotations') = Len(annotations) + 1
      /\ \A i \in 1 .. Len(annotations) : annotations'[i] = annotations[i]
      /\ annotations'[Len(annotations) + 1] = Note(b, parent)
  BY <1>1, <1>3, <1>8, AppendProperties
<1>10. DOMAIN annotations' = 1 .. (Len(annotations) + 1)
  BY <1>9, LenProperties
<1>11. NotesOf(b) # {} => NextRevision(b) = annotations[Latest(b)].revision + 1
  BY DEF NextRevision
<1>12. NotesOf(b) = {} => parent = None /\ NextRevision(b) = 1
  BY <1>3 DEF Latest, NextRevision
<1>13. /\ Note(b, parent).brew = b
       /\ Note(b, parent).parent = parent
       /\ Note(b, parent).revision = NextRevision(b)
  BY DEF Note
<1> QED
  BY <1>2, <1>3, <1>4, <1>6, <1>7, <1>8, <1>9, <1>10, <1>11, <1>12, <1>13

\* Annotating brew b adds the new row to b's annotations and to nobody else's.
LEMMA NotesAfter ==
    ASSUME TypeOK, LatestExists,
           NEW b \in Brews, NEW parent \in 1 .. MaxAnnotations \cup {None}, Annotate(b, parent)
    PROVE  /\ Len(annotations) + 1 \notin NotesOf(b)
           /\ NotesOf(b)' = NotesOf(b) \cup {Len(annotations) + 1}
           /\ \A q \in Brews \ {b} : NotesOf(q)' = NotesOf(q)
<1>1. annotations'[Len(annotations) + 1].brew = b
  BY NewNote
<1>2. /\ Len(annotations) \in Nat
      /\ DOMAIN annotations = 1 .. Len(annotations)
      /\ DOMAIN annotations' = 1 .. (Len(annotations) + 1)
      /\ \A i \in 1 .. Len(annotations) : annotations'[i] = annotations[i]
  BY NewNote
<1>3. Len(annotations) + 1 \notin NotesOf(b)
  BY <1>2 DEF NotesOf
<1>4. ASSUME NEW q \in Brews, NEW i
      PROVE  i \in NotesOf(q)' <=> i \in NotesOf(q) \/ (q = b /\ i = Len(annotations) + 1)
  <2>1. CASE i = Len(annotations) + 1
    BY <1>1, <1>2, <2>1 DEF NotesOf
  <2>2. CASE i # Len(annotations) + 1
    BY <1>2, <2>2 DEF NotesOf
  <2> QED
    BY <2>1, <2>2
<1> QED
  BY <1>3, <1>4

LEMMA LatestStep ==
    ASSUME TypeOK, LatestExists, [Next]_vars
    PROVE  /\ annotations' \in Seq(NoteRows)
           /\ LatestExists'
<1>1. CASE UNCHANGED annotations
  <2>1. annotations' \in Seq(NoteRows)
    BY <1>1 DEF TypeOK, NoteRows
  <2>2. LatestExists'
    BY <1>1 DEF LatestExists, NotesOf
  <2> QED
    BY <2>1, <2>2
<1>2. ASSUME NEW b \in Brews, NEW parent \in 1 .. MaxAnnotations \cup {None},
             Annotate(b, parent)
      PROVE  annotations' \in Seq(NoteRows) /\ LatestExists'
  <2> DEFINE new == Len(annotations) + 1
  <2>1. annotations' \in Seq(NoteRows)
    BY <1>2, NewNote
  <2>2. annotations'[new].revision = NextRevision(b)
    BY <1>2, NewNote
  <2>3. \A n \in 1 .. Len(annotations) : annotations'[n] = annotations[n]
    BY <1>2, NewNote
  <2>4. \A q \in Brews : NotesOf(q) \subseteq 1 .. Len(annotations)
    BY <1>2, NewNote DEF NotesOf
  <2>5. ASSUME NEW q \in Brews, NotesOf(q)' # {}
        PROVE  \E i \in NotesOf(q)' :
                  \A n \in NotesOf(q)' : annotations'[n].revision <= annotations'[i].revision
    <3>1. CASE q = b
      <4>1. new \in NotesOf(q)' /\ NotesOf(q)' = NotesOf(q) \cup {new}
        BY <1>2, <3>1, NotesAfter
      <4>2. \A n \in NotesOf(q) : /\ annotations'[n].revision \in Nat
                                  /\ annotations'[n].revision < NextRevision(b)
        BY <1>2, <3>1, <2>3, <2>4, NewNote
      <4>3. NextRevision(b) \in Nat
        BY <1>2, NewNote
      <4>4. \A n \in NotesOf(q)' : annotations'[n].revision <= annotations'[new].revision
        BY <2>2, <4>1, <4>2, <4>3
      <4> QED
        BY <4>1, <4>4
    <3>2. CASE q # b
      <4>1. NotesOf(q)' = NotesOf(q)
        BY <1>2, <3>2, NotesAfter
      <4> QED
        BY <2>3, <2>4, <2>5, <4>1 DEF LatestExists
    <3> QED
      BY <3>1, <3>2
  <2> QED
    BY <2>1, <2>5 DEF LatestExists
<1> QED
  BY <1>1, <1>2, Footprints

LEMMA TypeStep ==
    ASSUME TypeOK, LatestExists, [Next]_vars
    PROVE  TypeOK'
  BY RecipeTypes, BrewTypes, LatestStep DEF TypeOK, NoteRows

LEMMA InitTypes == Init => TypeOK /\ LatestExists
<1> SUFFICES ASSUME Init PROVE TypeOK /\ LatestExists
  OBVIOUS
<1> USE StoreAssumption
<1>1. LatestExists
  BY DEF Init, LatestExists, NotesOf
<1>2. annotations \in Seq([brew : Brews, parent : Nat \cup {None}, revision : Nat])
  BY DEF Init
<1>3. /\ events \in [Brews -> Seq(Entries)]
      /\ versions \in [Recipes -> Seq([content : Graphs, basis : Nat])]
  BY DEF Init
<1>4. /\ recipe \in [Recipes -> Snapshots \cup {[revision |-> 0, content |-> None]}]
      /\ status \in [Brews -> Statuses]
      /\ device \in [Brews -> Devices \cup {None}]
      /\ source \in [Brews -> Recipes \cup {None}]
      /\ snapshot \in [Brews -> Snapshots \cup {None}]
      /\ bundle \in [Brews -> Bundles \cup {None}]
      /\ \A b \in Brews : status[b] = "none"
  BY DEF Init, Statuses
<1>5. seen \in [Clients -> [Recipes -> 0 .. MaxRevision]]
  BY DEF Init
<1> QED
  BY <1>1, <1>2, <1>3, <1>4, <1>5 DEF TypeOK

\* Every column holds what its writers put there (all store methods).
THEOREM TypeCorrect == Spec => []TypeOK
<1>1. Init => TypeOK /\ LatestExists
  BY InitTypes
<1>2. TypeOK /\ LatestExists /\ [Next]_vars => (TypeOK /\ LatestExists)'
  BY TypeStep, LatestStep
<1> QED
  BY <1>1, <1>2, PTL DEF Spec

-----------------------------------------------------------------------------
(* Recipes and their histories.                                              *)

\* A recipe row is made with a first version, or replaced with a next one whose
\* author has read the one before it; the new content always resolves.
LEMMA RecipeWrites ==
    ASSUME TypeOK, RecipesVersioned, [Next]_vars
    PROVE  \/ UNCHANGED <<recipe, versions>>
           \/ \E r \in Recipes, g \in Graphs :
                 /\ ~Exists(r) /\ versions[r] = <<>> /\ Resolved(g)
                 /\ recipe' = [recipe EXCEPT ![r] = [revision |-> 1, content |-> g]]
                 /\ versions' = [versions EXCEPT ![r] = <<[content |-> g, basis |-> 0]>>]
           \/ \E r \in Recipes, g \in Graphs :
                 /\ Exists(r) /\ Len(versions[r]) = recipe[r].revision /\ Resolved(g)
                 /\ recipe' = [recipe EXCEPT ![r] = [revision |-> recipe[r].revision + 1,
                                                     content |-> g]]
                 /\ versions' = [versions EXCEPT ![r] =
                       Append(versions[r], [content |-> g, basis |-> recipe[r].revision])]
<1> USE StoreAssumption
<1>1. ASSUME NEW r \in Recipes, NEW g \in Graphs, NewRecipe(r, g)
      PROVE  /\ ~Exists(r) /\ versions[r] = <<>> /\ Resolved(g)
             /\ recipe' = [recipe EXCEPT ![r] = [revision |-> 1, content |-> g]]
             /\ versions' = [versions EXCEPT ![r] = <<[content |-> g, basis |-> 0]>>]
  BY <1>1 DEF NewRecipe, RecipesVersioned
<1>2. ASSUME NEW r \in Recipes, NEW g \in Contents, CreateRecipe(r, g)
      PROVE  g \in Graphs /\ NewRecipe(r, g)
  BY <1>2 DEF CreateRecipe
<1>3. ASSUME NEW child \in Recipes, NEW r \in Recipes, NEW revision \in 1 .. MaxRevision,
             NEW b \in Brews, ForkRecipe(child, r, revision, b)
      PROVE  \E g \in Graphs : NewRecipe(child, g)
  <2>1. PICK m \in Renamings(snapshot[b].content) :
              NewRecipe(child, ForkContent(snapshot[b].content, m))
    BY <1>3 DEF ForkRecipe, Fork
  <2>2. snapshot[b].content \in Graphs
    BY <1>3 DEF ForkRecipe, Fork, TypeOK, Terminal, Snapshots
  <2> QED
    BY <2>1, <2>2, ForkIsGraph
<1>4. ASSUME NEW c \in Clients, NEW r \in Recipes, NEW g \in Contents, UpdateRecipe(c, r, g)
      PROVE  /\ g \in Graphs
             /\ Exists(r) /\ Len(versions[r]) = recipe[r].revision /\ Resolved(g)
             /\ recipe' = [recipe EXCEPT ![r] = [revision |-> recipe[r].revision + 1,
                                                 content |-> g]]
             /\ versions' = [versions EXCEPT ![r] =
                   Append(versions[r], [content |-> g, basis |-> recipe[r].revision])]
  BY <1>4 DEF UpdateRecipe, Replace, RecipesVersioned, Created
<1> QED
  BY <1>1, <1>2, <1>3, <1>4, Footprints

\* What becomes of the histories when recipe r gets the history h.
LEMMA VersionTypes ==
    ASSUME TypeOK, NEW r \in Recipes
    PROVE  /\ versions[r] \in Seq([content : Graphs, basis : Nat])
           /\ Len(versions[r]) \in Nat
           /\ DOMAIN versions[r] = 1 .. Len(versions[r])
           /\ recipe[r].revision \in Nat
           /\ Exists(r) => recipe[r] \in Snapshots
<1>1. versions[r] \in Seq([content : Graphs, basis : Nat])
  BY DEF TypeOK
<1>2. Len(versions[r]) \in Nat /\ DOMAIN versions[r] = 1 .. Len(versions[r])
  BY <1>1, LenProperties
<1>3. recipe[r] \in Snapshots \cup {[revision |-> 0, content |-> None]}
  BY DEF TypeOK
<1> QED
  BY <1>1, <1>2, <1>3, StoreAssumption DEF Snapshots, Exists

LEMMA NextVersion ==
    ASSUME TypeOK, NEW r \in Recipes, NEW g \in Graphs, NEW n \in Nat
    PROVE  LET h == Append(versions[r], [content |-> g, basis |-> n]) IN
           /\ Len(h) = Len(versions[r]) + 1
           /\ DOMAIN h = 1 .. (Len(versions[r]) + 1)
           /\ \A i \in 1 .. Len(versions[r]) : h[i] = versions[r][i]
           /\ h[Len(versions[r]) + 1] = [content |-> g, basis |-> n]
<1> DEFINE e == [content |-> g, basis |-> n]
           h == Append(versions[r], e)
<1>1. e \in [content : Graphs, basis : Nat] /\ versions[r] \in Seq([content : Graphs, basis : Nat])
  BY VersionTypes
<1> HIDE DEF e
<1>2. /\ h \in Seq([content : Graphs, basis : Nat])
      /\ Len(h) = Len(versions[r]) + 1
      /\ \A i \in 1 .. Len(versions[r]) : h[i] = versions[r][i]
      /\ h[Len(versions[r]) + 1] = e
  BY <1>1, AppendProperties
<1>3. DOMAIN h = 1 .. (Len(versions[r]) + 1)
  BY <1>2, LenProperties
<1> QED
  BY <1>2, <1>3 DEF e

LEMMA VersionedStep ==
    ASSUME TypeOK, RecipesVersioned, NoLostUpdate, [Next]_vars
    PROVE  RecipesVersioned' /\ NoLostUpdate'
<1>1. CASE UNCHANGED <<recipe, versions>>
  BY <1>1 DEF RecipesVersioned, Created, NoLostUpdate, Exists
<1>2. ASSUME NEW r \in Recipes, NEW g \in Graphs,
             recipe' = [recipe EXCEPT ![r] = [revision |-> 1, content |-> g]],
             versions' = [versions EXCEPT ![r] = <<[content |-> g, basis |-> 0]>>]
      PROVE  RecipesVersioned' /\ NoLostUpdate'
  <2>1. recipe'[r] = [revision |-> 1, content |-> g]
    BY <1>2 DEF TypeOK
  <2>2. versions'[r] = <<[content |-> g, basis |-> 0]>>
    BY <1>2 DEF TypeOK
  <2>3. \A q \in Recipes \ {r} : recipe'[q] = recipe[q] /\ versions'[q] = versions[q]
    BY <1>2 DEF TypeOK
  <2>4. RecipesVersioned'
    <3>1. Len(versions'[r]) = 1 /\ versions'[r][1].content = g
      BY <2>2
    <3>2. recipe'[r].revision = 1 /\ recipe'[r].content = g
      BY <2>1
    <3>3. Exists(r)' /\ Created(r)'
      BY <3>1, <3>2 DEF Created, Exists
    <3>4. ASSUME NEW q \in Recipes \ {r}
          PROVE  IF Exists(q)' THEN Created(q)' ELSE versions'[q] = <<>>
      BY <2>3 DEF RecipesVersioned, Created, Exists
    <3> QED
      BY <3>3, <3>4 DEF RecipesVersioned
  <2>5. NoLostUpdate'
    BY <2>2, <2>3 DEF NoLostUpdate
  <2> QED
    BY <2>4, <2>5
<1>3. ASSUME NEW r \in Recipes, NEW g \in Graphs,
             Exists(r), Len(versions[r]) = recipe[r].revision,
             recipe' = [recipe EXCEPT ![r] = [revision |-> recipe[r].revision + 1,
                                              content |-> g]],
             versions' = [versions EXCEPT ![r] =
                   Append(versions[r], [content |-> g, basis |-> recipe[r].revision])]
      PROVE  RecipesVersioned' /\ NoLostUpdate'
  <2> DEFINE n == recipe[r].revision
  <2>1. recipe'[r] = [revision |-> n + 1, content |-> g]
    BY <1>3 DEF TypeOK
  <2>2. versions'[r] = Append(versions[r], [content |-> g, basis |-> n])
    BY <1>3 DEF TypeOK
  <2>3. \A q \in Recipes \ {r} : recipe'[q] = recipe[q] /\ versions'[q] = versions[q]
    BY <1>3 DEF TypeOK
  <2>4. n \in Nat
    BY VersionTypes
  <2>5. /\ Len(versions'[r]) = n + 1
        /\ DOMAIN versions'[r] = 1 .. (n + 1)
        /\ \A i \in 1 .. n : versions'[r][i] = versions[r][i]
        /\ versions'[r][n + 1] = [content |-> g, basis |-> n]
        /\ DOMAIN versions[r] = 1 .. n
    BY <1>3, <2>2, <2>4, NextVersion, VersionTypes
  <2>6. RecipesVersioned'
    BY <2>1, <2>3, <2>4, <2>5 DEF RecipesVersioned, Created, Exists
  <2>7. \A i \in DOMAIN versions'[r] : versions'[r][i].basis = i - 1
    BY <2>4, <2>5 DEF NoLostUpdate
  <2>8. NoLostUpdate'
    BY <2>3, <2>7 DEF NoLostUpdate
  <2> QED
    BY <2>6, <2>8
<1> QED
  BY <1>1, <1>2, <1>3, RecipeWrites

\* A history never loses or changes a version.
LEMMA VersionsGrow ==
    ASSUME TypeOK, RecipesVersioned, [Next]_vars, NEW r \in Recipes, NEW i \in DOMAIN versions[r]
    PROVE  i \in DOMAIN versions'[r] /\ versions'[r][i] = versions[r][i]
<1>1. CASE UNCHANGED <<recipe, versions>>
  BY <1>1
<1>2. ASSUME NEW q \in Recipes, NEW g \in Graphs, versions[q] = <<>>,
             versions' = [versions EXCEPT ![q] = <<[content |-> g, basis |-> 0]>>]
      PROVE  i \in DOMAIN versions'[r] /\ versions'[r][i] = versions[r][i]
  <2>1. q # r
    BY <1>2
  <2> QED
    BY <1>2, <2>1 DEF TypeOK
<1>3. ASSUME NEW q \in Recipes, NEW g \in Graphs,
             versions' = [versions EXCEPT ![q] =
                   Append(versions[q], [content |-> g, basis |-> recipe[q].revision])]
      PROVE  i \in DOMAIN versions'[r] /\ versions'[r][i] = versions[r][i]
  <2>1. CASE q = r
    <3>1. recipe[q].revision \in Nat
      BY VersionTypes
    <3>2. versions'[r] = Append(versions[r], [content |-> g, basis |-> recipe[q].revision])
      BY <1>3, <2>1 DEF TypeOK
    <3>3. /\ DOMAIN versions'[r] = 1 .. (Len(versions[r]) + 1)
          /\ \A k \in 1 .. Len(versions[r]) : versions'[r][k] = versions[r][k]
      BY <3>1, <3>2, NextVersion
    <3>4. DOMAIN versions[r] = 1 .. Len(versions[r]) /\ Len(versions[r]) \in Nat
      BY VersionTypes
    <3> QED
      BY <3>3, <3>4
  <2>2. CASE q # r
    BY <1>3, <2>2 DEF TypeOK
  <2> QED
    BY <2>1, <2>2
<1> QED
  BY <1>1, <1>2, <1>3, RecipeWrites

\* A snapshot is taken from the recipe's newest version, and is never changed.
LEMMA SnapshotStep ==
    ASSUME TypeOK, RecipesVersioned, SnapshotIsARevision, [Next]_vars
    PROVE  SnapshotIsARevision'
<1>1. ASSUME NEW b \in Brews, status[b] # "none",
             snapshot'[b] = snapshot[b], source'[b] = source[b]
      PROVE  /\ snapshot'[b].revision \in DOMAIN versions'[source'[b]]
             /\ snapshot'[b].content = versions'[source'[b]][snapshot'[b].revision].content
  <2>1. source[b] \in Recipes
    BY <1>1 DEF TypeOK
  <2>2. /\ snapshot[b].revision \in DOMAIN versions[source[b]]
        /\ snapshot[b].content = versions[source[b]][snapshot[b].revision].content
    BY <1>1 DEF SnapshotIsARevision
  <2> QED
    BY <1>1, <2>1, <2>2, VersionsGrow
<1>2. ASSUME NEW b \in Brews, NEW d \in Devices, NEW r \in Recipes, BeginBrew(b, d, r)
      PROVE  SnapshotIsARevision'
  <2>1. /\ status' = [status EXCEPT ![b] = "active"]
        /\ source' = [source EXCEPT ![b] = r]
        /\ snapshot' = [snapshot EXCEPT ![b] = recipe[r]]
        /\ Exists(r)
    BY <1>2 DEF BeginBrew, Start
  <2>2. /\ recipe[r].revision \in DOMAIN versions[r]
        /\ recipe[r].content = versions[r][recipe[r].revision].content
    BY <2>1, VersionTypes DEF RecipesVersioned, Created, Exists
  <2>3. source'[b] = r /\ snapshot'[b] = recipe[r]
    BY <2>1 DEF TypeOK
  <2>4. /\ snapshot'[b].revision \in DOMAIN versions'[source'[b]]
        /\ snapshot'[b].content = versions'[source'[b]][snapshot'[b].revision].content
    BY <2>2, <2>3, VersionsGrow
  <2>5. \A q \in Brews \ {b} : /\ status'[q] = status[q]
                               /\ source'[q] = source[q]
                               /\ snapshot'[q] = snapshot[q]
    BY <2>1 DEF TypeOK
  <2> QED
    BY <1>1, <2>4, <2>5 DEF SnapshotIsARevision
<1>3. CASE /\ UNCHANGED <<source, snapshot>>
           /\ \A b \in Brews : status'[b] # "none" => status[b] # "none"
  BY <1>1, <1>3 DEF SnapshotIsARevision
<1>4. ASSUME NEW b \in Brews, NEW outcome \in Terminal, StopBrew(b, outcome)
      PROVE  \A q \in Brews : status'[q] # "none" => status[q] # "none"
  BY <1>4 DEF StopBrew, TypeOK
<1> QED
  BY <1>2, <1>3, <1>4, Footprints

\* References resolve in a graph.
Whole(g) ==
    /\ {c.ingredient : c \in g.cultures} \subseteq g.ingredients
    /\ {a.ingredient : a \in g.additions} \subseteq g.ingredients \cup {None}
    /\ {s.addition : s \in g.steps} \subseteq KeysOf(g.additions) \cup {None}
    /\ {s.culture : s \in g.steps} \subseteq KeysOf(g.cultures) \cup {None}

\* What the writers' check leaves behind; the forks' reach follows from it.
GraphsResolve ==
    /\ \A r \in Recipes : Exists(r) => Whole(recipe[r].content)
    /\ \A b \in Brews : status[b] # "none" => Whole(snapshot[b].content)

LEMMA ResolvedIsWhole == ASSUME NEW g, Resolved(g) PROVE Whole(g)
  BY DEF Resolved, Whole

LEMMA GraphsStep ==
    ASSUME TypeOK, RecipesVersioned, GraphsResolve, [Next]_vars
    PROVE  GraphsResolve'
<1>1. /\ \A r \in Recipes : Exists(r) => Whole(recipe[r].content)
      /\ \A b \in Brews : status[b] # "none" => Whole(snapshot[b].content)
  BY DEF GraphsResolve
<1>2. ASSUME NEW r \in Recipes, Exists(r)'
      PROVE  Whole(recipe'[r].content)
  <2>1. CASE UNCHANGED <<recipe, versions>>
    BY <1>1, <1>2, <2>1 DEF Exists
  <2>2. ASSUME NEW q \in Recipes, NEW g \in Graphs, NEW n, Resolved(g),
               recipe' = [recipe EXCEPT ![q] = [revision |-> n, content |-> g]]
        PROVE  Whole(recipe'[r].content)
    <3>1. CASE q = r
      <4>1. recipe'[r].content = g
        BY <2>2, <3>1 DEF TypeOK
      <4> QED
        BY <2>2, <4>1, ResolvedIsWhole
    <3>2. CASE q # r
      BY <1>1, <1>2, <2>2, <3>2 DEF TypeOK, Exists
    <3> QED
      BY <3>1, <3>2
  <2> QED
    BY <2>1, <2>2, RecipeWrites
<1>3. ASSUME NEW b \in Brews, status'[b] # "none"
      PROVE  Whole(snapshot'[b].content)
  <2>1. CASE UNCHANGED <<status, device, source, snapshot>>
    BY <1>1, <1>3, <2>1
  <2>2. ASSUME NEW q \in Brews, NEW d \in Devices, NEW r \in Recipes, BeginBrew(q, d, r)
        PROVE  Whole(snapshot'[b].content)
    BY <1>1, <1>3, <2>2 DEF BeginBrew, Start, TypeOK
  <2>3. ASSUME NEW q \in Brews, NEW outcome \in Terminal, StopBrew(q, outcome)
        PROVE  Whole(snapshot'[b].content)
    BY <1>1, <1>3, <2>3 DEF StopBrew, TypeOK
  <2> QED
    BY <2>1, <2>2, <2>3, Footprints
<1> QED
  BY <1>2, <1>3 DEF GraphsResolve

-----------------------------------------------------------------------------
(* Brews and their events.                                                   *)

\* The status of a brew only goes from none to active to an outcome.
LEMMA StatusStep ==
    ASSUME TypeOK, [Next]_vars, NEW b \in Brews
    PROVE  /\ status'[b] = "none" => status[b] = "none"
           /\ status[b] \in Terminal => status'[b] = status[b]
<1>1. ASSUME NEW q \in Brews, NEW d \in Devices, NEW r \in Recipes, BeginBrew(q, d, r)
      PROVE  /\ status'[b] = "none" => status[b] = "none"
             /\ status[b] \in Terminal => status'[b] = status[b]
  BY <1>1 DEF BeginBrew, Start, TypeOK, Terminal
<1>2. ASSUME NEW q \in Brews, NEW outcome \in Terminal, StopBrew(q, outcome)
      PROVE  /\ status'[b] = "none" => status[b] = "none"
             /\ status[b] \in Terminal => status'[b] = status[b]
  BY <1>2 DEF StopBrew, TypeOK, Terminal
<1> QED
  BY <1>1, <1>2, Footprints

\* A brew's log is begun, appended to while the brew is active, or left alone.
LEMMA LogStep ==
    ASSUME TypeOK, [Next]_vars, NEW b \in Brews
    PROVE  \/ events'[b] = events[b] /\ status'[b] = status[b]
           \/ /\ status[b] = "none" /\ status'[b] = "active"
              /\ events'[b] = <<Event("brew_started", None, None)>>
           \/ \E call \in Calls :
                 /\ call.brew = b /\ status[b] = "active" /\ status'[b] = status[b]
                 /\ Recorded(b, call.crid) = {} /\ Admissible(call)
                 /\ events'[b] = Append(events[b], Event(call.type, call.crid, call.addition))
           \/ \E outcome \in Terminal :
                 /\ status[b] = "active" /\ status'[b] = outcome
                 /\ events'[b] = Append(events[b], Event(EndType(outcome), None, None))
<1>1. ASSUME NEW q \in Brews, NEW d \in Devices, NEW r \in Recipes, BeginBrew(q, d, r)
      PROVE  IF q = b
             THEN /\ status[b] = "none" /\ status'[b] = "active"
                  /\ events'[b] = <<Event("brew_started", None, None)>>
             ELSE events'[b] = events[b] /\ status'[b] = status[b]
  BY <1>1 DEF BeginBrew, Start, TypeOK
<1>2. ASSUME NEW q \in Brews, NEW outcome \in Terminal, StopBrew(q, outcome)
      PROVE  IF q = b
             THEN /\ status[b] = "active" /\ status'[b] = outcome
                  /\ events'[b] = Append(events[b], Event(EndType(outcome), None, None))
             ELSE events'[b] = events[b] /\ status'[b] = status[b]
  BY <1>2 DEF StopBrew, TypeOK
<1>3. ASSUME NEW call \in Calls, RecordEvent(call)
      PROVE  IF call.brew = b
             THEN /\ status[b] = "active" /\ status'[b] = status[b]
                  /\ Recorded(b, call.crid) = {} /\ Admissible(call)
                  /\ events'[b] = Append(events[b], Event(call.type, call.crid, call.addition))
             ELSE events'[b] = events[b] /\ status'[b] = status[b]
  BY <1>3 DEF RecordEvent, EventFrame, TypeOK
<1>4. CASE UNCHANGED events /\ UNCHANGED <<status, device, source, snapshot>>
  BY <1>4
<1>5. \/ UNCHANGED events /\ UNCHANGED <<status, device, source, snapshot>>
      \/ \E q \in Brews, d \in Devices, r \in Recipes : BeginBrew(q, d, r)
      \/ \E q \in Brews, outcome \in Terminal : StopBrew(q, outcome)
      \/ \E call \in Calls : RecordEvent(call)
  BY Footprints
<1> QED
  BY <1>1, <1>2, <1>3, <1>4, <1>5

LEMMA LogTypes ==
    ASSUME TypeOK, NEW b \in Brews
    PROVE  /\ events[b] \in Seq(Entries) /\ Len(events[b]) \in Nat
           /\ DOMAIN events[b] = 1 .. Len(events[b])
<1>1. events[b] \in Seq(Entries)
  BY DEF TypeOK
<1> QED
  BY <1>1, LenProperties

\* What appending an entry to a log does.
LEMMA Appended ==
    ASSUME TypeOK, NEW b \in Brews, NEW e \in Entries
    PROVE  LET h == Append(events[b], e) IN
           /\ Len(h) = Len(events[b]) + 1
           /\ DOMAIN h = 1 .. (Len(events[b]) + 1)
           /\ \A i \in 1 .. Len(events[b]) : h[i] = events[b][i]
           /\ h[Len(events[b]) + 1] = e
<1> DEFINE h == Append(events[b], e)
<1>1. events[b] \in Seq(Entries)
  BY LogTypes
<1>2. /\ h \in Seq(Entries)
      /\ Len(h) = Len(events[b]) + 1
      /\ \A i \in 1 .. Len(events[b]) : h[i] = events[b][i]
      /\ h[Len(events[b]) + 1] = e
  BY <1>1, AppendProperties
<1>3. DOMAIN h = 1 .. (Len(events[b]) + 1)
  BY <1>2, LenProperties
<1> QED
  BY <1>2, <1>3

\* A row of the log keeps its place and its contents.
LEMMA LogsGrow ==
    ASSUME TypeOK, BrewsExist, [Next]_vars, NEW b \in Brews, NEW i \in DOMAIN events[b]
    PROVE  i \in DOMAIN events'[b] /\ events'[b][i] = events[b][i]
<1>1. i \in 1 .. Len(events[b])
  BY LogTypes
<1>2. ASSUME NEW e \in Entries, events'[b] = Append(events[b], e)
      PROVE  i \in DOMAIN events'[b] /\ events'[b][i] = events[b][i]
  BY <1>1, <1>2, LogTypes, Appended
<1>3. CASE status[b] = "none"
  BY <1>3 DEF BrewsExist
<1> QED
  BY <1>2, <1>3, LogStep, CallEvent, EndEvent

LEMMA BrewsExistStep ==
    ASSUME TypeOK, BrewsExist, [Next]_vars
    PROVE  BrewsExist'
<1>1. ASSUME NEW b \in Brews, status'[b] = "none"
      PROVE  events'[b] = <<>> /\ bundle'[b] = None
  <2>1. status[b] = "none" /\ events[b] = <<>> /\ bundle[b] = None
    BY <1>1, StatusStep DEF BrewsExist
  <2>2. events'[b] = <<>>
    BY <1>1, <2>1, LogStep DEF Terminal
  <2>3. ASSUME NEW q \in Brews, FreezeEvidence(q)
        PROVE  bundle'[b] = None
    BY <2>1, <2>3 DEF FreezeEvidence, Terminal, TypeOK
  <2> QED
    BY <2>1, <2>2, <2>3, Footprints
<1>2. ASSUME NEW a \in answered'
      PROVE  a.brew \in Brews /\ a.row \in DOMAIN events'[a.brew]
  <2>1. CASE a \in answered
    BY <2>1, LogsGrow DEF BrewsExist
  <2>2. ASSUME NEW call \in Calls, ReplayEvent(call), a \notin answered
        PROVE  a.brew \in Brews /\ a.row \in DOMAIN events'[a.brew]
    <3>1. PICK i \in Recorded(call.brew, call.crid) :
              answered' = answered \cup {[brew |-> call.brew, crid |-> call.crid, row |-> i]}
      BY <2>2 DEF ReplayEvent
    <3>2. a = [brew |-> call.brew, crid |-> call.crid, row |-> i]
      BY <2>2, <3>1
    <3>3. i \in DOMAIN events[call.brew] /\ events' = events
      BY <2>2, <3>1 DEF Recorded, ReplayEvent
    <3> QED
      BY <3>2, <3>3, StoreAssumption
  <2> QED
    BY <1>2, <2>1, <2>2, Footprints
<1>3. ASSUME NEW x \in refused'
      PROVE  x.brew \in Brews /\ status'[x.brew] \in Terminal
  <2>1. CASE x \in refused
    BY <2>1, StatusStep DEF BrewsExist
  <2>2. ASSUME NEW call \in Calls, RefuseEvent(call), x \notin refused
        PROVE  x.brew \in Brews /\ status'[x.brew] \in Terminal
    BY <1>3, <2>2, StoreAssumption DEF RefuseEvent, EventFrame
  <2> QED
    BY <1>3, <2>1, <2>2, Footprints
<1>4. ASSUME NEW l \in lineage'
      PROVE  /\ l.child \in Recipes /\ l.recipe \in Recipes /\ l.brew \in Brews
             /\ status'[l.brew] \in Terminal
  <2>1. CASE l \in lineage
    BY <2>1, StatusStep DEF BrewsExist
  <2>2. ASSUME NEW child \in Recipes, NEW r \in Recipes, NEW revision \in 1 .. MaxRevision,
               NEW b \in Brews, ForkRecipe(child, r, revision, b), l \notin lineage
        PROVE  /\ l.child \in Recipes /\ l.recipe \in Recipes /\ l.brew \in Brews
               /\ status'[l.brew] \in Terminal
    <3>1. l = [child |-> child, recipe |-> r, revision |-> revision, brew |-> b]
      BY <1>4, <2>2 DEF ForkRecipe, Fork
    <3>2. status[b] \in Terminal
      BY <2>2 DEF ForkRecipe, Fork
    <3> QED
      BY <3>1, <3>2, StatusStep
  <2> QED
    BY <1>4, <2>1, <2>2, Footprints
<1> QED
  BY <1>1, <1>2, <1>3, <1>4 DEF BrewsExist

-----------------------------------------------------------------------------
(* One active brew per device, one outcome per addition, one row per call.   *)

LEMMA OneActiveStep ==
    ASSUME TypeOK, OneActiveBrew, [Next]_vars
    PROVE  OneActiveBrew'
<1>1. \A p, q \in Brews : status[p] = "active" /\ status[q] = "active" /\ device[p] = device[q]
                             /\ device[p] \in Devices => p = q
  BY DEF OneActiveBrew, ActiveOn
<1>2. ASSUME NEW p \in Brews, NEW q \in Brews, status'[p] = "active", status'[q] = "active",
             device'[p] = device'[q], device'[p] \in Devices
      PROVE  p = q
  <2>1. CASE UNCHANGED <<status, device, source, snapshot>>
    BY <1>1, <1>2, <2>1
  <2>2. ASSUME NEW b \in Brews, NEW d \in Devices, NEW r \in Recipes, BeginBrew(b, d, r)
        PROVE  p = q
    <3>1. /\ \A c \in Brews : ~ (status[c] = "active" /\ device[c] = d)
          /\ status' = [status EXCEPT ![b] = "active"] /\ device' = [device EXCEPT ![b] = d]
      BY <2>2 DEF BeginBrew, Start, ActiveOn
    <3> QED
      BY <1>1, <1>2, <3>1 DEF TypeOK
  <2>3. ASSUME NEW b \in Brews, NEW outcome \in Terminal, StopBrew(b, outcome)
        PROVE  p = q
    BY <1>1, <1>2, <2>3 DEF StopBrew, TypeOK, Terminal
  <2> QED
    BY <2>1, <2>2, <2>3, Footprints
<1> QED
  BY <1>2 DEF OneActiveBrew, ActiveOn

LEMMA EndsStep ==
    ASSUME TypeOK, BrewsExist, EndsOnce, [Next]_vars
    PROVE  EndsOnce'
<1>1. ASSUME NEW b \in Brews, status'[b] \in Terminal
      PROVE  events'[b][Len(events'[b])] = Event(EndType(status'[b]), None, None)
  <2>1. CASE events'[b] = events[b] /\ status'[b] = status[b]
    BY <1>1, <2>1 DEF EndsOnce
  <2>2. ASSUME NEW outcome \in Terminal, status'[b] = outcome,
               events'[b] = Append(events[b], Event(EndType(outcome), None, None))
        PROVE  events'[b][Len(events'[b])] = Event(EndType(status'[b]), None, None)
    BY <2>2, EndEvent, Appended
  <2> QED
    BY <1>1, <2>1, <2>2, LogStep DEF Terminal
<1> QED
  BY <1>1 DEF EndsOnce

LEMMA EvidenceStep ==
    ASSUME TypeOK, BrewsExist, EvidenceIsFinal, [Next]_vars
    PROVE  EvidenceIsFinal'
<1>1. ASSUME NEW b \in Brews, status[b] \in Terminal
      PROVE  /\ status'[b] \in Terminal
             /\ events'[b] = events[b]
             /\ snapshot'[b] = snapshot[b]
  <2>1. status'[b] = status[b] /\ status[b] # "none" /\ status[b] # "active"
    BY <1>1, StatusStep DEF Terminal
  <2>2. events'[b] = events[b]
    BY <2>1, LogStep
  <2>3. ASSUME NEW q \in Brews, NEW d \in Devices, NEW r \in Recipes, BeginBrew(q, d, r)
        PROVE  snapshot'[b] = snapshot[b]
    BY <2>1, <2>3 DEF BeginBrew, Start, TypeOK
  <2> QED
    BY <1>1, <2>1, <2>2, <2>3, Footprints
<1>2. ASSUME NEW b \in Brews, bundle'[b] # None
      PROVE  status'[b] \in Terminal /\ bundle'[b] = Capture(b)'
  <2>1. CASE bundle'[b] = bundle[b]
    BY <1>1, <1>2, <2>1 DEF EvidenceIsFinal, Capture
  <2>2. ASSUME NEW q \in Brews, FreezeEvidence(q), bundle'[b] # bundle[b]
        PROVE  status'[b] \in Terminal /\ bundle'[b] = Capture(b)'
    <3>1. q = b /\ bundle'[b] = Capture(b) /\ status[b] \in Terminal
      BY <2>2 DEF FreezeEvidence, TypeOK
    <3> QED
      BY <1>1, <3>1 DEF Capture
  <2> QED
    BY <2>1, <2>2, Footprints
<1> QED
  BY <1>2 DEF EvidenceIsFinal

LEMMA OutcomesStep ==
    ASSUME TypeOK, BrewsExist, OneOutcomePerAddition, [Next]_vars
    PROVE  OneOutcomePerAddition'
<1> USE DEF Event
<1>1. ASSUME NEW b \in Brews
      PROVE  \A i, n \in DOMAIN events'[b] :
                events'[b][i].type \in Scheduled =>
                    /\ events'[b][i].addition \in KeysOf(snapshot'[b].content.additions)
                    /\ events'[b][n].type \in Scheduled
                           /\ events'[b][n].addition = events'[b][i].addition => n = i
  <2> DEFINE keys == KeysOf(snapshot[b].content.additions)
             len == Len(events[b])
  <2>1. \A i, n \in DOMAIN events[b] :
           events[b][i].type \in Scheduled =>
               /\ events[b][i].addition \in keys
               /\ events[b][n].type \in Scheduled /\ events[b][n].addition = events[b][i].addition
                     => n = i
    BY DEF OneOutcomePerAddition
  <2>2. status[b] # "none" => snapshot'[b] = snapshot[b]
    <3>1. ASSUME NEW q \in Brews, NEW d \in Devices, NEW r \in Recipes, BeginBrew(q, d, r),
                 status[b] # "none"
          PROVE  snapshot'[b] = snapshot[b]
      BY <3>1 DEF BeginBrew, Start, TypeOK
    <3> QED
      BY <3>1, Footprints
  <2>3. CASE events'[b] = events[b]
    <3>1. CASE status[b] = "none"
      BY <2>3, <3>1 DEF BrewsExist
    <3> QED
      BY <2>1, <2>2, <2>3, <3>1
  <2>4. CASE events'[b] = <<Event("brew_started", None, None)>>
    BY <2>4 DEF Scheduled
  <2>5. ASSUME NEW e \in Entries, status[b] = "active", events'[b] = Append(events[b], e),
               e.type \in Scheduled => e.addition \in keys /\ e.addition \notin Settled(b)
        PROVE  \A i, n \in DOMAIN events'[b] :
                  events'[b][i].type \in Scheduled =>
                      /\ events'[b][i].addition \in KeysOf(snapshot'[b].content.additions)
                      /\ events'[b][n].type \in Scheduled
                             /\ events'[b][n].addition = events'[b][i].addition => n = i
    <3>1. /\ DOMAIN events'[b] = 1 .. (len + 1)
          /\ \A i \in 1 .. len : events'[b][i] = events[b][i]
          /\ events'[b][len + 1] = e
      BY <2>5, Appended
    <3>2. DOMAIN events[b] = 1 .. len /\ len \in Nat
      BY LogTypes
    <3>3. snapshot'[b] = snapshot[b]
      BY <2>2, <2>5
    <3>4. \A i \in 1 .. len : events[b][i].type \in Scheduled => events[b][i].addition \in Settled(b)
      BY <3>2 DEF Settled
    <3>5. \A i \in 1 .. (len + 1) : i \in 1 .. len \/ i = len + 1
      BY <3>2
    <3>6. \A i \in 1 .. (len + 1) : events'[b][i].type \in Scheduled
                                       => events'[b][i].addition \in keys
      BY <2>1, <2>5, <3>1, <3>2, <3>5
    <3>7. \A i, n \in 1 .. (len + 1) :
             /\ events'[b][i].type \in Scheduled
             /\ events'[b][n].type \in Scheduled
             /\ events'[b][n].addition = events'[b][i].addition
             => n = i
      BY <2>1, <2>5, <3>1, <3>2, <3>4, <3>5
    <3> QED
      BY <3>1, <3>3, <3>6, <3>7
  <2>6. ASSUME NEW call \in Calls, call.brew = b, status[b] = "active", Admissible(call),
               events'[b] = Append(events[b], Event(call.type, call.crid, call.addition))
        PROVE  \A i, n \in DOMAIN events'[b] :
                  events'[b][i].type \in Scheduled =>
                      /\ events'[b][i].addition \in KeysOf(snapshot'[b].content.additions)
                      /\ events'[b][n].type \in Scheduled
                             /\ events'[b][n].addition = events'[b][i].addition => n = i
    BY <2>5, <2>6, CallEvent DEF Admissible
  <2> QED
    BY <2>3, <2>4, <2>5, <2>6, LogStep, EndEvent
<1> QED
  BY <1>1 DEF OneOutcomePerAddition

LEMMA RetriesStep ==
    ASSUME TypeOK, BrewsExist, RetriesAgree, [Next]_vars
    PROVE  RetriesAgree'
<1> USE DEF Event
<1>1. ASSUME NEW b \in Brews
      PROVE  \A i, n \in DOMAIN events'[b] :
                events'[b][i].crid = events'[b][n].crid /\ events'[b][i].crid # None => i = n
  <2> DEFINE len == Len(events[b])
  <2>1. \A i, n \in DOMAIN events[b] :
           events[b][i].crid = events[b][n].crid /\ events[b][i].crid # None => i = n
    BY DEF RetriesAgree
  <2>2. ASSUME NEW e \in Entries, events'[b] = Append(events[b], e),
               e.crid # None => Recorded(b, e.crid) = {}
        PROVE  \A i, n \in DOMAIN events'[b] :
                  events'[b][i].crid = events'[b][n].crid /\ events'[b][i].crid # None => i = n
    <3>1. /\ DOMAIN events'[b] = 1 .. (len + 1)
          /\ \A i \in 1 .. len : events'[b][i] = events[b][i]
          /\ events'[b][len + 1] = e
      BY <2>2, Appended
    <3>2. DOMAIN events[b] = 1 .. len /\ len \in Nat
      BY LogTypes
    <3>3. e.crid # None => \A i \in 1 .. len : events[b][i].crid # e.crid
      BY <2>2, <3>2 DEF Recorded
    <3>4. \A i \in 1 .. (len + 1) : i \in 1 .. len \/ i = len + 1
      BY <3>2
    <3> QED
      BY <2>1, <3>1, <3>2, <3>3, <3>4
  <2>3. CASE events'[b] = <<Event("brew_started", None, None)>>
    BY <2>3
  <2>4. CASE events'[b] = events[b]
    BY <2>1, <2>4
  <2>5. ASSUME NEW call \in Calls, Recorded(b, call.crid) = {},
               events'[b] = Append(events[b], Event(call.type, call.crid, call.addition))
        PROVE  \A i, n \in DOMAIN events'[b] :
                  events'[b][i].crid = events'[b][n].crid /\ events'[b][i].crid # None => i = n
    BY <2>2, <2>5, CallEvent
  <2> QED
    BY <2>2, <2>3, <2>4, <2>5, LogStep, EndEvent
<1>2. ASSUME NEW a \in answered'
      PROVE  events'[a.brew][a.row].crid = a.crid
  <2>1. CASE a \in answered
    BY <2>1, LogsGrow DEF RetriesAgree, BrewsExist
  <2>2. ASSUME NEW call \in Calls, ReplayEvent(call), a \notin answered
        PROVE  events'[a.brew][a.row].crid = a.crid
    <3>1. PICK i \in Recorded(call.brew, call.crid) :
              answered' = answered \cup {[brew |-> call.brew, crid |-> call.crid, row |-> i]}
      BY <2>2 DEF ReplayEvent
    <3>2. a = [brew |-> call.brew, crid |-> call.crid, row |-> i]
      BY <1>2, <2>2, <3>1
    <3>3. events[call.brew][i].crid = call.crid /\ events' = events
      BY <2>2, <3>1 DEF Recorded, ReplayEvent
    <3> QED
      BY <3>2, <3>3
  <2> QED
    BY <1>2, <2>1, <2>2, Footprints
<1>3. ASSUME NEW x \in refused'
      PROVE  Recorded(x.brew, x.crid)' = {}
  <2>1. CASE x \in refused
    <3>1. x.brew \in Brews /\ status[x.brew] \in Terminal /\ Recorded(x.brew, x.crid) = {}
      BY <2>1 DEF BrewsExist, RetriesAgree
    <3>2. events'[x.brew] = events[x.brew]
      BY <3>1, LogStep DEF Terminal
    <3> QED
      BY <3>1, <3>2 DEF Recorded
  <2>2. ASSUME NEW call \in Calls, RefuseEvent(call), x \notin refused
        PROVE  Recorded(x.brew, x.crid)' = {}
    <3>1. x = [brew |-> call.brew, crid |-> call.crid]
      BY <1>3, <2>2 DEF RefuseEvent
    <3>2. Recorded(call.brew, call.crid) = {} /\ events' = events
      BY <2>2 DEF RefuseEvent
    <3> QED
      BY <3>1, <3>2 DEF Recorded
  <2> QED
    BY <1>3, <2>1, <2>2, Footprints
<1> QED
  BY <1>1, <1>2, <1>3 DEF RetriesAgree

-----------------------------------------------------------------------------
(* Annotations and forks.                                                    *)

\* Annotation i, one of brew q's, continues the chain.
Chained(i, q) ==
    /\ bundle[q] # None
    /\ annotations[i].revision = 1 <=> annotations[i].parent = None
    /\ annotations[i].parent # None =>
          /\ annotations[i].parent \in NotesOf(q) /\ annotations[i].parent < i
          /\ annotations[annotations[i].parent].revision = annotations[i].revision - 1

LEMMA AnnotationsStep ==
    ASSUME TypeOK, LatestExists, AnnotationsLinear, BrewsExist, [Next]_vars
    PROVE  AnnotationsLinear'
<1> USE StoreAssumption
<1>0. \A b \in Brews : bundle[b] # None => bundle'[b] # None
  <2>1. ASSUME NEW b \in Brews, NEW q \in Brews, FreezeEvidence(q), bundle[b] # None
        PROVE  bundle'[b] # None
    BY <2>1 DEF FreezeEvidence, TypeOK
  <2> QED
    BY <2>1, Footprints
<1>1. /\ annotations \in Seq(NoteRows)
      /\ DOMAIN annotations = 1 .. Len(annotations) /\ Len(annotations) \in Nat
      /\ \A i \in DOMAIN annotations : annotations[i] \in NoteRows
  <2>1. annotations \in Seq(NoteRows)
    BY DEF TypeOK, NoteRows
  <2> QED
    BY <2>1, LenProperties
<1>2. CASE UNCHANGED annotations
  <2>1. \A q : NotesOf(q)' = NotesOf(q)
    BY <1>2 DEF NotesOf
  <2> QED
    BY <1>0, <1>1, <1>2, <2>1 DEF AnnotationsLinear, NoteRows
<1>3. ASSUME NEW b \in Brews, NEW parent \in 1 .. MaxAnnotations \cup {None},
             Annotate(b, parent)
      PROVE  AnnotationsLinear'
  <2> DEFINE len == Len(annotations)
             row == annotations'[len + 1]
  <2>1. /\ DOMAIN annotations' = 1 .. (len + 1)
        /\ \A i \in 1 .. len : annotations'[i] = annotations[i]
        /\ row.brew = b /\ row.parent = parent /\ row.revision = NextRevision(b)
        /\ \A n \in NotesOf(b) : annotations[n].revision \in Nat
                                 /\ annotations[n].revision < NextRevision(b)
        /\ NextRevision(b) \in Nat /\ bundle[b] # None
    BY <1>3, NewNote DEF Annotate
  <2>2. /\ NotesOf(b)' = NotesOf(b) \cup {len + 1}
        /\ \A q \in Brews \ {b} : NotesOf(q)' = NotesOf(q)
    BY <1>3, NotesAfter
  <2>3. \A i \in 1 .. (len + 1) : i \in 1 .. len \/ i = len + 1
    BY <1>1
  <2>4. NotesOf(b) \subseteq 1 .. len
    BY <1>1 DEF NotesOf
  <2>5. ASSUME NEW i \in 1 .. len, NEW q, annotations'[i].brew = q
        PROVE  Chained(i, q)'
    <3>1. annotations'[i] = annotations[i] /\ annotations[i] \in NoteRows /\ q \in Brews
      BY <1>1, <2>1, <2>5 DEF NoteRows
    <3>2. Chained(i, q)
      BY <1>1, <2>1, <2>5 DEF AnnotationsLinear, Chained
    <3>3. NotesOf(q) \subseteq 1 .. len /\ NotesOf(q) \subseteq NotesOf(q)'
      <4>1. NotesOf(q) \subseteq NotesOf(q)'
        BY <2>2, <3>1
      <4> QED
        BY <1>1, <4>1 DEF NotesOf
    <3>4. annotations[i].parent # None =>
             /\ annotations'[i].parent \in NotesOf(q)'
             /\ annotations'[annotations'[i].parent].revision = annotations'[i].revision - 1
      BY <2>1, <3>1, <3>2, <3>3 DEF Chained
    <3> QED
      BY <1>0, <3>1, <3>2, <3>4 DEF Chained
  <2>6. CASE NotesOf(b) = {}
    <3>1. parent = None /\ NextRevision(b) = 1
      BY <1>3, <2>6, NewNote
    <3>2. \A i \in 1 .. len : annotations[i].brew # b
      BY <1>1, <2>6 DEF NotesOf
    <3>3. ASSUME NEW i \in 1 .. (len + 1), NEW q, annotations'[i].brew = q
          PROVE  Chained(i, q)'
      <4>1. CASE i = len + 1
        BY <1>0, <2>1, <3>1, <3>3, <4>1 DEF Chained
      <4>2. CASE i \in 1 .. len
        BY <2>5, <3>3, <4>2
      <4> QED
        BY <2>3, <4>1, <4>2
    <3>4. \A i, n \in 1 .. (len + 1) :
             annotations'[i].brew = annotations'[n].brew
                 /\ (annotations'[i].revision = annotations'[n].revision
                        \/ annotations'[i].parent = annotations'[n].parent)
                 => i = n
      BY <1>1, <2>1, <2>3, <3>2 DEF AnnotationsLinear
    <3> QED
      BY <2>1, <3>3, <3>4 DEF AnnotationsLinear, Chained
  <2>7. CASE NotesOf(b) # {}
    <3>1. /\ parent \in NotesOf(b)
          /\ NextRevision(b) = annotations[parent].revision + 1
          /\ annotations[parent].revision \in Nat
          /\ \A n \in NotesOf(b) : annotations[n].revision <= annotations[parent].revision
      <4>1. parent = Latest(b)
        BY <1>3, NewNote
      <4>2. /\ Latest(b) \in NotesOf(b)
            /\ NextRevision(b) = annotations[Latest(b)].revision + 1
            /\ \A n \in NotesOf(b) : annotations[n].revision <= annotations[Latest(b)].revision
        BY <1>3, <2>7, NewNote
      <4> QED
        BY <2>1, <4>1, <4>2
    <3>2. parent \in 1 .. len /\ annotations[parent].brew = b /\ parent # None
      BY <2>4, <3>1 DEF NotesOf
    <3>3. annotations[parent].revision >= 1
      <4>1. annotations[parent].parent = None => annotations[parent].revision = 1
        BY <1>1, <3>2 DEF AnnotationsLinear
      <4>2. annotations[parent].parent # None =>
                /\ annotations[parent].parent \in NotesOf(b)
                /\ annotations[annotations[parent].parent].revision
                      = annotations[parent].revision - 1
        BY <1>1, <3>2 DEF AnnotationsLinear
      <4> QED
        BY <2>1, <3>1, <4>1, <4>2
    <3>4. \A n \in 1 .. len : annotations[n].brew = b => annotations[n].parent # parent
      <4>1. ASSUME NEW n \in 1 .. len, annotations[n].brew = b, annotations[n].parent = parent
            PROVE  FALSE
        <5>1. n \in NotesOf(b)
          BY <1>1, <4>1 DEF NotesOf
        <5>2. annotations[parent].revision = annotations[n].revision - 1
          BY <1>1, <3>2, <4>1 DEF AnnotationsLinear
        <5> QED
          BY <2>1, <3>1, <5>1, <5>2
      <4> QED
        BY <4>1
    <3>5. \A n \in 1 .. len : annotations[n].brew = b => annotations[n].revision # row.revision
      BY <1>1, <2>1 DEF NotesOf
    <3>6. ASSUME NEW i \in 1 .. (len + 1), NEW q, annotations'[i].brew = q
          PROVE  Chained(i, q)'
      <4>1. CASE i = len + 1
        <5>1. q = b /\ bundle'[b] # None /\ parent < i
          BY <1>0, <1>1, <2>1, <3>2, <3>6, <4>1
        <5>2. annotations'[i].parent = parent /\ parent \in NotesOf(b)'
          BY <2>1, <2>2, <3>1, <4>1
        <5>3. annotations'[parent].revision = annotations'[i].revision - 1
          <6>1. annotations'[parent] = annotations[parent]
            BY <2>1, <3>2
          <6>2. annotations'[i].revision = NextRevision(b)
            BY <2>1, <4>1
          <6> QED
            BY <3>1, <6>1, <6>2
        <5>4. annotations'[i].revision # 1
          BY <2>1, <3>1, <3>3, <4>1
        <5> QED
          BY <3>2, <5>1, <5>2, <5>3, <5>4 DEF Chained
      <4>2. CASE i \in 1 .. len
        BY <2>5, <3>6, <4>2
      <4> QED
        BY <2>3, <4>1, <4>2
    <3>7. \A i, n \in 1 .. (len + 1) :
             annotations'[i].brew = annotations'[n].brew
                 /\ (annotations'[i].revision = annotations'[n].revision
                        \/ annotations'[i].parent = annotations'[n].parent)
                 => i = n
      BY <1>1, <2>1, <2>3, <3>4, <3>5 DEF AnnotationsLinear
    <3> QED
      BY <2>1, <3>6, <3>7 DEF AnnotationsLinear, Chained
  <2> QED
    BY <2>6, <2>7
<1> QED
  BY <1>2, <1>3, Footprints

LEMMA ForkedStep ==
    ASSUME TypeOK, RecipesVersioned, BrewsExist, SnapshotIsARevision, ForkedOnce, [Next]_vars
    PROVE  ForkedOnce'
<1>1. ASSUME NEW b \in Brews, status[b] \in Terminal
      PROVE  source'[b] = source[b] /\ snapshot'[b] = snapshot[b]
  <2>1. ASSUME NEW q \in Brews, NEW d \in Devices, NEW r \in Recipes, BeginBrew(q, d, r)
        PROVE  source'[b] = source[b] /\ snapshot'[b] = snapshot[b]
    BY <1>1, <2>1 DEF BeginBrew, Start, TypeOK, Terminal
  <2> QED
    BY <2>1, Footprints
<1>2. ASSUME NEW r \in Recipes, Exists(r)
      PROVE  Exists(r)'
  <2>1. ASSUME NEW q \in Recipes, NEW row, row.revision > 0,
               recipe' = [recipe EXCEPT ![q] = row]
        PROVE  Exists(r)'
    BY <1>2, <2>1 DEF Exists, TypeOK
  <2>2. CASE UNCHANGED <<recipe, versions>>
    BY <1>2, <2>2 DEF Exists
  <2>3. CASE \E q \in Recipes, g \in Graphs :
                recipe' = [recipe EXCEPT ![q] = [revision |-> 1, content |-> g]]
    <3>1. \A g : [revision |-> 1, content |-> g].revision > 0
      OBVIOUS
    <3> QED
      BY <2>1, <2>3, <3>1
  <2>4. CASE \E q \in Recipes, g \in Graphs :
                recipe' = [recipe EXCEPT ![q] = [revision |-> recipe[q].revision + 1,
                                                 content |-> g]]
    <3>1. \A q \in Recipes : recipe[q].revision + 1 > 0
      BY VersionTypes
    <3> QED
      BY <2>1, <2>4, <3>1
  <2> QED
    BY <2>2, <2>3, <2>4, RecipeWrites
<1>3. ASSUME NEW l \in lineage
      PROVE  /\ l.child # l.recipe /\ Exists(l.child)'
             /\ source'[l.brew] = l.recipe
             /\ snapshot'[l.brew].revision = l.revision
  BY <1>1, <1>2 DEF ForkedOnce, BrewsExist
<1>4. ASSUME NEW child \in Recipes, NEW r \in Recipes, NEW revision \in 1 .. MaxRevision,
             NEW b \in Brews, ForkRecipe(child, r, revision, b)
      PROVE  ForkedOnce'
  <2> DEFINE new == [child |-> child, recipe |-> r, revision |-> revision, brew |-> b]
  <2>1. /\ lineage' = lineage \cup {new}
        /\ status[b] \in Terminal /\ source[b] = r /\ snapshot[b].revision = revision
        /\ \A l \in lineage : ~ (l.recipe = r /\ l.brew = b)
    BY <1>4 DEF ForkRecipe, Fork
  <2>2. PICK g : NewRecipe(child, g)
    BY <1>4 DEF ForkRecipe, Fork
  <2>3. ~Exists(child) /\ Exists(child)'
    BY <2>2 DEF NewRecipe, Exists, TypeOK
  <2>4. Exists(r)
    <3>1. snapshot[b].revision \in DOMAIN versions[r]
      BY <2>1 DEF Terminal, SnapshotIsARevision
    <3> QED
      BY <3>1 DEF RecipesVersioned
  <2>5. \A l \in lineage : l.brew # b /\ l.child # child
    BY <2>1, <2>3 DEF ForkedOnce
  <2>6. /\ new.child # new.recipe /\ Exists(new.child)'
        /\ source'[new.brew] = new.recipe /\ snapshot'[new.brew].revision = new.revision
    BY <1>1, <2>1, <2>3, <2>4
  <2>7. \A l, m \in lineage' : l.brew = m.brew \/ l.child = m.child => l = m
    BY <2>1, <2>5 DEF ForkedOnce
  <2> QED
    BY <1>3, <2>1, <2>6, <2>7 DEF ForkedOnce
<1>5. CASE UNCHANGED lineage
  BY <1>3, <1>5 DEF ForkedOnce
<1> QED
  BY <1>4, <1>5, Footprints

-----------------------------------------------------------------------------
(* The properties.                                                           *)

Properties ==
    /\ NoLostUpdate
    /\ SnapshotIsARevision
    /\ GraphsResolve
    /\ OneActiveBrew
    /\ EndsOnce
    /\ EvidenceIsFinal
    /\ OneOutcomePerAddition
    /\ RetriesAgree
    /\ AnnotationsLinear
    /\ ForkedOnce

LEMMA InitInv == Init => Inv /\ Properties
<1> SUFFICES ASSUME Init PROVE Inv /\ Properties
  OBVIOUS
<1>1. /\ \A r \in Recipes : ~Exists(r) /\ versions[r] = <<>>
      /\ \A b \in Brews : status[b] = "none" /\ events[b] = <<>> /\ bundle[b] = None
      /\ annotations = <<>> /\ lineage = {} /\ answered = {} /\ refused = {}
  BY DEF Init, Exists
<1>2. TypeOK /\ LatestExists
  BY InitTypes
<1>3. RecipesVersioned /\ BrewsExist
  BY <1>1 DEF RecipesVersioned, BrewsExist
<1>4. NoLostUpdate /\ SnapshotIsARevision /\ GraphsResolve
  BY <1>1 DEF NoLostUpdate, SnapshotIsARevision, GraphsResolve
<1>5. OneActiveBrew /\ EndsOnce /\ EvidenceIsFinal
  BY <1>1 DEF OneActiveBrew, ActiveOn, EndsOnce, EvidenceIsFinal, Terminal
<1>6. OneOutcomePerAddition /\ RetriesAgree
  BY <1>1 DEF OneOutcomePerAddition, RetriesAgree
<1>7. AnnotationsLinear /\ ForkedOnce
  BY <1>1 DEF AnnotationsLinear, ForkedOnce
<1> QED
  BY <1>2, <1>3, <1>4, <1>5, <1>6, <1>7 DEF Inv, Properties

LEMMA InvStep == Inv /\ Properties /\ [Next]_vars => (Inv /\ Properties)'
<1> SUFFICES ASSUME Inv, Properties, [Next]_vars PROVE Inv' /\ Properties'
  OBVIOUS
<1> USE DEF Inv, Properties
<1>1. TypeOK' /\ LatestExists'
  BY TypeStep, LatestStep
<1>2. RecipesVersioned' /\ NoLostUpdate'
  BY VersionedStep
<1>3. BrewsExist'
  BY BrewsExistStep
<1>4. SnapshotIsARevision' /\ GraphsResolve'
  BY SnapshotStep, GraphsStep
<1>5. OneActiveBrew' /\ EndsOnce' /\ EvidenceIsFinal'
  BY OneActiveStep, EndsStep, EvidenceStep
<1>6. OneOutcomePerAddition' /\ RetriesAgree'
  BY OutcomesStep, RetriesStep
<1>7. AnnotationsLinear' /\ ForkedOnce'
  BY AnnotationsStep, ForkedStep
<1> QED
  BY <1>1, <1>2, <1>3, <1>4, <1>5, <1>6, <1>7

LEMMA Invariance == Spec => [](Inv /\ Properties)
  BY InitInv, InvStep, PTL DEF Spec

\* update_recipe: nobody replaces a revision they have not read, with any
\* number of clients.
THEOREM UpdatesAreNotLost == Spec => []NoLostUpdate
<1>1. Inv /\ Properties => NoLostUpdate
  BY DEF Properties
<1> QED
  BY <1>1, Invariance, PTL

\* begin_brew: the snapshot is, for good, the revision of the recipe it names.
THEOREM SnapshotsAreRevisions == Spec => []SnapshotIsARevision
<1>1. Inv /\ Properties => SnapshotIsARevision
  BY DEF Properties
<1> QED
  BY <1>1, Invariance, PTL

\* begin_brew: one active brew per device.
THEOREM OneActivePerDevice == Spec => []OneActiveBrew
<1>1. Inv /\ Properties => OneActiveBrew
  BY DEF Properties
<1> QED
  BY <1>1, Invariance, PTL

\* add_event: one outcome per scheduled addition.
THEOREM AdditionsSettleOnce == Spec => []OneOutcomePerAddition
<1>1. Inv /\ Properties => OneOutcomePerAddition
  BY DEF Properties
<1> QED
  BY <1>1, Invariance, PTL

\* add_event: a retry gets the row it made, before and after the brew's end.
THEOREM RetriesAreAnsweredAlike == Spec => []RetriesAgree
<1>1. Inv /\ Properties => RetriesAgree
  BY DEF Properties
<1> QED
  BY <1>1, Invariance, PTL

\* stop_brew and freeze_archive_evidence: the end is the last event, and what is
\* frozen is the whole record.
THEOREM EvidenceIsTheRecord == Spec => [](EndsOnce /\ EvidenceIsFinal)
<1>1. Inv /\ Properties => EndsOnce /\ EvidenceIsFinal
  BY DEF Properties
<1> QED
  BY <1>1, Invariance, PTL

\* create_archive_annotation: the annotations of a brew are one chain.
THEOREM AnnotationsAreChains == Spec => []AnnotationsLinear
<1>1. Inv /\ Properties => AnnotationsLinear
  BY DEF Properties
<1> QED
  BY <1>1, Invariance, PTL

\* fork_recipe_from_archive: one fork per brew, of the revision brewed.
THEOREM BrewsForkOnce == Spec => []ForkedOnce
<1>1. Inv /\ Properties => ForkedOnce
  BY DEF Properties
<1> QED
  BY <1>1, Invariance, PTL

\* A graph in which nothing refers to a material.
FreeOfMaterials(g) ==
    g.cultures = {} /\ \A a \in g.additions : a.ingredient = None

\* A terminal brew can be forked if and only if nothing in its recipe refers to a material;
\* otherwise whichever keys the fork draws, what it would store does not resolve.
ForksNeedNoMaterials ==
    \A b \in Brews : status[b] \in Terminal =>
        \A m \in Renamings(snapshot[b].content) :
            Resolved(ForkContent(snapshot[b].content, m)) <=> FreeOfMaterials(snapshot[b].content)

LEMMA ForkParts ==
    ASSUME NEW g \in Graphs, NEW m
    PROVE  /\ ForkContent(g, m).ingredients = {m[k] : k \in g.ingredients}
           /\ ForkContent(g, m).cultures = g.cultures
           /\ ForkContent(g, m).additions = g.additions
           /\ ForkContent(g, m).steps = g.steps
  BY DEF ForkContent, Graphs

LEMMA ForkResolves ==
    ASSUME NEW g \in Graphs, Whole(g), AllKeys(g) \subseteq UsedKeys, NEW m \in Renamings(g)
    PROVE  Resolved(ForkContent(g, m)) <=> FreeOfMaterials(g)
<1>1. ASSUME NEW k \in g.ingredients
      PROVE  k \notin ForkContent(g, m).ingredients /\ k # None
  <2>1. k \in UsedKeys /\ k \in Keys
    BY DEF AllKeys, Graphs
  <2>2. \A j \in g.ingredients : m[j] \notin UsedKeys
    BY DEF Renamings
  <2> QED
    BY <2>1, <2>2, ForkParts, StoreAssumption
<1>2. ASSUME Resolved(ForkContent(g, m)) PROVE FreeOfMaterials(g)
  <2>1. g.cultures = {}
    BY <1>1, <1>2, ForkParts DEF Resolved, Whole
  <2>2. \A a \in g.additions : a.ingredient = None
    BY <1>1, <1>2, ForkParts DEF Resolved, Whole
  <2> QED
    BY <2>1, <2>2 DEF FreeOfMaterials
<1>3. ASSUME FreeOfMaterials(g) PROVE Resolved(ForkContent(g, m))
  BY <1>3, ForkParts DEF Resolved, Whole, FreeOfMaterials
<1> QED
  BY <1>2, <1>3

\* fork_recipe_from_archive refuses exactly the brews whose recipe has a culture, or an
\* addition of one of its ingredients.
THEOREM ForksRefuseMaterials == Spec => []ForksNeedNoMaterials
<1>1. Inv /\ Properties => ForksNeedNoMaterials
  <2> SUFFICES ASSUME Inv, Properties, NEW b \in Brews, status[b] \in Terminal,
                      NEW m \in Renamings(snapshot[b].content)
               PROVE  Resolved(ForkContent(snapshot[b].content, m))
                          <=> FreeOfMaterials(snapshot[b].content)
    BY DEF ForksNeedNoMaterials
  <2>1. status[b] # "none" /\ snapshot[b].content \in Graphs
    BY DEF Inv, TypeOK, Terminal, Snapshots
  <2>2. Whole(snapshot[b].content)
    <3>1. \A q \in Brews : status[q] # "none" => Whole(snapshot[q].content)
      BY DEF Properties, GraphsResolve
    <3> QED
      BY <2>1, <3>1
  <2>3. AllKeys(snapshot[b].content) \subseteq UsedKeys
    <3> DEFINE Rows == {AllKeys(snapshot[q].content) : q \in {p \in Brews : status[p] # "none"}}
    <3>1. AllKeys(snapshot[b].content) \in Rows
      BY <2>1
    <3>2. UNION Rows \subseteq UsedKeys
      BY DEF UsedKeys
    <3> HIDE DEF Rows
    <3> QED
      BY <3>1, <3>2
  <2> QED
    BY <2>1, <2>2, <2>3, ForkResolves
<1> QED
  BY <1>1, Invariance, PTL

\* Nothing stored refers to a material.
PlainGraphs ==
    /\ \A r \in Recipes : Exists(r) => FreeOfMaterials(recipe[r].content)
    /\ \A b \in Brews : status[b] # "none" => FreeOfMaterials(snapshot[b].content)

LEMMA PlainStep ==
    ASSUME \A g \in Contents : FreeOfMaterials(g), TypeOK, PlainGraphs, [Next]_vars
    PROVE  PlainGraphs'
<1>1. ASSUME NEW r \in Recipes, Exists(r)' PROVE FreeOfMaterials(recipe'[r].content)
  <2>1. ASSUME NEW q \in Recipes, NEW g, NEW n, FreeOfMaterials(g),
               recipe' = [recipe EXCEPT ![q] = [revision |-> n, content |-> g]]
        PROVE  FreeOfMaterials(recipe'[r].content)
    <3>1. CASE q = r
      BY <2>1, <3>1 DEF TypeOK
    <3>2. CASE q # r
      BY <1>1, <2>1, <3>2 DEF TypeOK, PlainGraphs, Exists
    <3> QED
      BY <3>1, <3>2
  <2>2. CASE UNCHANGED recipe
    BY <1>1, <2>2 DEF PlainGraphs, Exists
  <2>3. ASSUME NEW q \in Recipes, NEW g \in Contents, CreateRecipe(q, g)
        PROVE  FreeOfMaterials(recipe'[r].content)
    BY <2>1, <2>3 DEF CreateRecipe, NewRecipe
  <2>4. ASSUME NEW c \in Clients, NEW q \in Recipes, NEW g \in Contents, UpdateRecipe(c, q, g)
        PROVE  FreeOfMaterials(recipe'[r].content)
    BY <2>1, <2>4 DEF UpdateRecipe, Replace
  <2>5. ASSUME NEW child \in Recipes, NEW q \in Recipes, NEW revision \in 1 .. MaxRevision,
               NEW b \in Brews, ForkRecipe(child, q, revision, b)
        PROVE  FreeOfMaterials(recipe'[r].content)
    <3>1. PICK m \in Renamings(snapshot[b].content) :
                NewRecipe(child, ForkContent(snapshot[b].content, m))
      BY <2>5 DEF ForkRecipe, Fork
    <3>2. snapshot[b].content \in Graphs /\ FreeOfMaterials(snapshot[b].content)
      BY <2>5 DEF ForkRecipe, Fork, TypeOK, Terminal, Snapshots, PlainGraphs
    <3>3. FreeOfMaterials(ForkContent(snapshot[b].content, m))
      BY <3>2, ForkParts DEF FreeOfMaterials
    <3> QED
      BY <2>1, <3>1, <3>3 DEF NewRecipe
  <2> QED
    BY <2>2, <2>3, <2>4, <2>5, Footprints
<1>2. ASSUME NEW b \in Brews, status'[b] # "none" PROVE FreeOfMaterials(snapshot'[b].content)
  <2>1. CASE UNCHANGED <<status, device, source, snapshot>>
    BY <1>2, <2>1 DEF PlainGraphs
  <2>2. ASSUME NEW q \in Brews, NEW d \in Devices, NEW r \in Recipes, BeginBrew(q, d, r)
        PROVE  FreeOfMaterials(snapshot'[b].content)
    BY <1>2, <2>2 DEF BeginBrew, Start, TypeOK, PlainGraphs
  <2>3. ASSUME NEW q \in Brews, NEW outcome \in Terminal, StopBrew(q, outcome)
        PROVE  FreeOfMaterials(snapshot'[b].content)
    BY <1>2, <2>3 DEF StopBrew, TypeOK, PlainGraphs
  <2> QED
    BY <2>1, <2>2, <2>3, Footprints
<1> QED
  BY <1>1, <1>2 DEF PlainGraphs

\* As long as clients submit no recipe that refers to its materials, every terminal brew can
\* be forked, and the forks can be brewed and forked in turn.
THEOREM PlainBrewsFork ==
    ASSUME \A g \in Contents : FreeOfMaterials(g) PROVE Spec => []TerminalBrewsFork
<1>1. Init => PlainGraphs
  BY DEF Init, PlainGraphs, Exists
<1>2. Inv /\ PlainGraphs /\ [Next]_vars => PlainGraphs'
  BY PlainStep DEF Inv
<1>3. ForksNeedNoMaterials /\ PlainGraphs => TerminalBrewsFork
  BY DEF ForksNeedNoMaterials, PlainGraphs, TerminalBrewsFork, Terminal
<1> QED
  BY <1>1, <1>2, <1>3, Invariance, ForksRefuseMaterials, PTL DEF Spec

-----------------------------------------------------------------------------
(* The store implements BrewLedger.                                          *)

LEMMA LedgerInit == Init => Ledger!Init
<1> SUFFICES ASSUME Init PROVE Ledger!Init
  OBVIOUS
<1>1. {b \in Brews : status[b] \in Terminal} = {}
  BY DEF Init, Terminal
<1>2. [b \in Brews |-> IF bundle[b] = None THEN None ELSE bundle[b].events] = [b \in Brews |-> None]
  BY DEF Init
<1>3. [b \in Brews |-> NotesOf(b)] = [b \in Brews |-> {}]
  BY DEF Init, NotesOf
<1> QED
  BY <1>1, <1>2, <1>3 DEF Init, Ledger!Init

LEMMA LedgerStep == Inv /\ Properties /\ [Next]_vars => [Ledger!Next]_Ledger!vars
<1> SUFFICES ASSUME Inv, Properties, [Next]_vars PROVE [Ledger!Next]_Ledger!vars
  OBVIOUS
<1> USE StoreAssumption
<1> DEFINE ended == {b \in Brews : status[b] \in Terminal}
           archive == [b \in Brews |-> IF bundle[b] = None THEN None ELSE bundle[b].events]
           notes == [b \in Brews |-> NotesOf(b)]
<1>1. TypeOK /\ BrewsExist /\ LatestExists /\ EvidenceIsFinal
  BY DEF Inv, Properties
<1>2. events \in [Brews -> Seq(Entries)] /\ events' \in [Brews -> Seq(Entries)]
  BY <1>1, BrewTypes DEF TypeOK
<1>3. \A b \in Brews : status[b] # "none" <=> events[b] # <<>>
  BY <1>1 DEF TypeOK, BrewsExist
<1>4. UNCHANGED annotations => UNCHANGED notes
  BY DEF NotesOf
<1>5. UNCHANGED bundle => UNCHANGED archive
  OBVIOUS
<1>6. UNCHANGED status => UNCHANGED ended
  OBVIOUS
<1>7. ASSUME NEW b \in Brews, NEW d \in Devices, NEW r \in Recipes, BeginBrew(b, d, r)
      PROVE  Ledger!Begin(b)
  <2>1. /\ status[b] = "none" /\ status' = [status EXCEPT ![b] = "active"]
        /\ events' = [events EXCEPT ![b] = <<Event("brew_started", None, None)>>]
        /\ UNCHANGED <<bundle, annotations>>
    BY <1>7 DEF BeginBrew, Start
  <2>2. ended' = ended
    BY <1>1, <2>1 DEF TypeOK, Terminal
  <2>3. Event("brew_started", None, None) \in Entries
    BY DEF Event, Entries
  <2> QED
    BY <1>3, <1>4, <1>5, <2>1, <2>2, <2>3 DEF Ledger!Begin
<1>8. ASSUME NEW call \in Calls, RecordEvent(call)
      PROVE  Ledger!Record(call.brew)
  <2>1. /\ status[call.brew] = "active" /\ UNCHANGED <<status, bundle, annotations>>
        /\ events' = [events EXCEPT ![call.brew] =
                         Append(events[call.brew], Event(call.type, call.crid, call.addition))]
    BY <1>8 DEF RecordEvent, EventFrame
  <2>2. events[call.brew] # <<>> /\ call.brew \notin ended
    BY <1>3, <2>1 DEF Terminal
  <2> QED
    BY <1>4, <1>5, <1>6, <2>1, <2>2, CallEvent DEF Ledger!Record
<1>9. ASSUME NEW b \in Brews, NEW outcome \in Terminal, StopBrew(b, outcome)
      PROVE  Ledger!End(b)
  <2>1. /\ status[b] = "active" /\ status' = [status EXCEPT ![b] = outcome]
        /\ events' = [events EXCEPT ![b] =
                         Append(events[b], Event(EndType(outcome), None, None))]
        /\ UNCHANGED <<bundle, annotations>>
    BY <1>9 DEF StopBrew
  <2>2. events[b] # <<>> /\ b \notin ended
    BY <1>3, <2>1 DEF Terminal
  <2>3. ended' = ended \cup {b}
    BY <1>1, <2>1 DEF TypeOK
  <2> QED
    BY <1>4, <1>5, <2>1, <2>2, <2>3, EndEvent DEF Ledger!End
<1>10. ASSUME NEW b \in Brews, FreezeEvidence(b)
       PROVE  Ledger!Freeze(b)
  <2>1. /\ status[b] \in Terminal /\ bundle[b] = None
        /\ bundle' = [bundle EXCEPT ![b] = Capture(b)]
        /\ UNCHANGED <<status, events, annotations>>
    BY <1>10 DEF FreezeEvidence, ArchiveFrame
  <2>2. Capture(b) \in Bundles /\ Capture(b).events = events[b]
    BY <1>1, <1>2, <2>1 DEF Capture, Bundles, TypeOK, Terminal
  <2>3. Capture(b) # None
    BY <2>2, NoneAssumption
  <2>4. archive' = [archive EXCEPT ![b] = events[b]]
    BY <1>1, <2>1, <2>2, <2>3 DEF TypeOK
  <2> QED
    BY <1>4, <1>6, <2>1, <2>4 DEF Ledger!Freeze
<1>11. ASSUME NEW b \in Brews, NEW parent \in 1 .. MaxAnnotations \cup {None},
              Annotate(b, parent)
       PROVE  Ledger!Annotate(b)
  <2> DEFINE new == Len(annotations) + 1
  <2>1. bundle[b] # None /\ UNCHANGED <<status, events, bundle>>
    BY <1>11 DEF Annotate, ArchiveFrame
  <2>2. bundle[b].events # None
    <3>1. bundle[b] \in Bundles /\ bundle[b].events = events[b]
      BY <1>1, <2>1 DEF TypeOK, EvidenceIsFinal, Capture, Bundles
    <3> QED
      BY <1>2, <3>1, NoneAssumption
  <2>3. new \in 1 .. MaxAnnotations
    BY <1>1, <1>11, NewNote
  <2>4. new \notin NotesOf(b)
    BY <1>1, <1>11, NotesAfter
  <2>5. notes' = [notes EXCEPT ![b] = NotesOf(b) \cup {new}]
    BY <1>1, <1>11, NotesAfter
  <2> QED
    BY <1>5, <1>6, <2>1, <2>2, <2>3, <2>4, <2>5 DEF Ledger!Annotate
<1>12. ASSUME UNCHANGED <<status, events, bundle, annotations>>
       PROVE  UNCHANGED Ledger!vars
  BY <1>4, <1>5, <1>6, <1>12 DEF Ledger!vars
<1>13. \/ \E b \in Brews, d \in Devices, r \in Recipes : BeginBrew(b, d, r)
       \/ \E call \in Calls : RecordEvent(call)
       \/ \E b \in Brews, outcome \in Terminal : StopBrew(b, outcome)
       \/ \E b \in Brews : FreezeEvidence(b)
       \/ \E b \in Brews, parent \in 1 .. MaxAnnotations \cup {None} : Annotate(b, parent)
       \/ UNCHANGED <<status, events, bundle, annotations>>
  BY Footprints
<1> QED
  BY <1>7, <1>8, <1>9, <1>10, <1>11, <1>12, <1>13 DEF Ledger!Next

\* The store, with all its operations, implements the promise of BrewLedger.
THEOREM StoreImplementsLedger == Spec => ImplementsLedger
<1>1. Init => Ledger!Init
  BY LedgerInit
<1>2. Inv /\ Properties /\ [Next]_vars => [Ledger!Next]_Ledger!vars
  BY LedgerStep
<1> QED
  BY <1>1, <1>2, Invariance, PTL DEF Spec, ImplementsLedger, Ledger!Spec
=============================================================================
