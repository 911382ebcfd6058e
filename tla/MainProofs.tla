----------------------------- MODULE MainProofs -----------------------------
(***************************************************************************)
(* Proofs about Main, for all grid files, machines, replies and sizes of   *)
(* estates, and any number of kills and full disks.  `study`: the          *)
(* instances of a cell come from different seeds, the script's success     *)
(* means that every grid is covered, and the summaries tell the files.     *)
(* `solve` and `baselines`: claims of optimality are true, and the exit    *)
(* code tells what became of the output file.  `gen`: one sweep propagates *)
(* the starts.                                                             *)
(***************************************************************************)
EXTENDS Main, TLAPS

\* A step of a session is one of its subcommand, the others rest.
LEMMA StepOfOne ==
  ASSUME [MainNext]_<<vars, solveVars, genVars>>
  PROVE  /\ [Next]_vars
         /\ [Solve!Next]_(Solve!vars)
         /\ [Gen!Next]_(Gen!vars)
<1>1. CASE StudyStep
  BY <1>1 DEF StudyStep, solveVars, genVars, Solve!vars, Solve!history, Gen!vars
<1>2. CASE SolveStep
  BY <1>2 DEF SolveStep, genVars, Gen!vars
<1>3. CASE GenStep
  BY <1>3 DEF GenStep, solveVars, Solve!vars, Solve!history
<1>4. CASE UNCHANGED <<vars, solveVars, genVars>>
  BY <1>4 DEF solveVars, genVars, Solve!vars, Solve!history, Gen!vars
<1> QED
  BY <1>1, <1>2, <1>3, <1>4 DEF MainNext

\* Without a study nothing of it ever moves.
LEMMA NoStudyStays == NoStudy /\ [Next]_vars => NoStudy'
BY DEF NoStudy, Next, Launch, Works, Malformed, OpenGrid, WriteHeader, Item,
       GridDone, Summarize, SummarizeRaises, Complete, DiskFloor, Kill,
       Running, Terminated, vars, files

LEMMA NoStudyNoNames == NoStudy => ToSet(entries) = {} /\ Names = {}
BY DEF NoStudy, ToSet, Names

-----------------------------------------------------------------------------
(* `study` *)

AllItems == UNION {UNION {ToSet(e[x].items) : x \in DOMAIN e} : e \in GridFiles}

Rec == {Row(item, k, o) : item \in AllItems, k \in Resamples, o \in Outcomes}

FilesOK ==
  /\ entries \in GridFiles
  /\ rows \in [Names -> Seq(Rec)]
  /\ header \in [Names -> {"none", "lost", "there"}]
  /\ \A n \in Names : header[n] = "none" => rows[n] = <<>>

PlaceOK ==
  /\ pc \in {"idle", "study", "header", "grid", "summarize", "killed", "raised", "exited"}
  /\ pc \in {"study", "header", "grid", "summarize"} => i \in Nat \ {0}
  /\ pc \in {"header", "grid", "summarize"} => i \in 1 .. Len(entries)
  /\ pc = "header" => rows[Name] = <<>> /\ header[Name] = "lost" /\ skip = {}
  /\ pc \in {"header", "grid"} => pos \in Nat \ {0}
  /\ pc = "header" => pos = 1
  /\ pc = "grid" => header[Name] # "none"

\* no item twice, and every row is of an item skipped or already passed
ItemsOnce ==
  /\ \A n \in Names : header[n] = "there" =>
       \A x, y \in 1 .. Len(rows[n]) : rows[n][x].item = rows[n][y].item => x = y
  /\ pc = "grid" /\ header[Name] = "there" =>
       \A x \in 1 .. Len(rows[Name]) :
         \/ rows[Name][x].item \in skip
         \/ \E m \in 1 .. Len(Entry.items) : m < pos /\ Entry.items[m] = rows[Name][x].item

IInv == FilesOK /\ PlaceOK /\ ItemsOnce

-----------------------------------------------------------------------------
(* The strides of the seeds *)

\* 7919 divides no multiple of 104729 up to the twelfth.
LEMMA StridesDiffer ==
  ASSUME NEW d \in Int, NEW k \in 0 .. 12, NEW j \in 0 .. 12,
         d * 7919 = (j - k) * 104729
  PROVE  d = 0
<1>1. \A e \in 1 .. 12 : d * 7919 # e * 104729
  OBVIOUS
<1>2. \A e \in 1 .. 12 : d * 7919 # -(e * 104729)
  OBVIOUS
<1>3. j - k = 0
  <2>1. j - k \in 1 .. 12 \/ j - k = 0 \/ k - j \in 1 .. 12
    OBVIOUS
  <2>2. (j - k) * 104729 = -((k - j) * 104729)
    OBVIOUS
  <2> QED
    BY <1>1, <1>2, <2>1, <2>2
<1> QED
  BY <1>3

LEMMA SeedsDiffer ==
  ASSUME NEW a \in Nat, NEW b \in Nat, NEW k \in Resamples, NEW j \in Resamples,
         Seed(a, k) = Seed(b, j)
  PROVE  a = b
<1>1. k \in 0 .. 12 /\ j \in 0 .. 12 /\ BaseSeed \in Nat
  BY SeedAssumption
<1>2. (a - b) * 7919 = (j - k) * 104729
  BY <1>1 DEF Seed
<1>3. a - b = 0
  BY <1>1, <1>2, StridesDiffer
<1> QED
  BY <1>3

-----------------------------------------------------------------------------
LEMMA EntryFacts ==
  ASSUME FilesOK, i \in 1 .. Len(entries)
  PROVE  /\ Name \in Names /\ Len(Entry.items) \in Nat
         /\ \A m \in 1 .. Len(Entry.items) : Entry.items[m] \in AllItems
         /\ \A m, n \in 1 .. Len(Entry.items) : Entry.items[m] = Entry.items[n] => m = n
<1>1. entries \in GridFiles /\ entries \in Seq(ToSet(entries))
  BY ItemAssumption DEF FilesOK
<1>2. DOMAIN entries = 1 .. Len(entries) /\ i \in DOMAIN entries
  BY <1>1
<1>3. Entry.items \in Seq(ToSet(Entry.items))
  BY <1>1, <1>2, ItemAssumption DEF Entry
<1>4. DOMAIN Entry.items = 1 .. Len(Entry.items) /\ Len(Entry.items) \in Nat
  BY <1>3
<1>5. Entry \in ToSet(entries)
  BY <1>2 DEF Entry, ToSet
<1>6. \A m \in 1 .. Len(Entry.items) : Entry.items[m] \in AllItems
  BY <1>1, <1>2, <1>4 DEF Entry, AllItems, ToSet
<1>7. \A m, n \in 1 .. Len(Entry.items) : Entry.items[m] = Entry.items[n] => m = n
  BY <1>1, <1>2, <1>4, ItemAssumption DEF Entry
<1> QED
  BY <1>4, <1>5, <1>6, <1>7 DEF Name, Names

LEMMA ItemIsPair ==
  ASSUME NEW item \in AllItems
  PROVE  item = <<item[1], item[2]>> /\ item[2] \in Nat
<1>1. PICK e \in GridFiles : \E x \in DOMAIN e : item \in ToSet(e[x].items)
  BY DEF AllItems
<1>2. PICK x \in DOMAIN e : item \in ToSet(e[x].items)
  BY <1>1
<1>3. PICK m \in DOMAIN e[x].items : item = e[x].items[m]
  BY <1>2 DEF ToSet
<1> QED
  BY <1>3, ItemAssumption

LEMMA RowFacts ==
  ASSUME NEW r \in Rec
  PROVE  \E k \in Resamples : /\ r.seed = Seed(r.item[2], k)
                              /\ r.item \in AllItems
<1>1. PICK item \in AllItems, k \in Resamples, o \in Outcomes : r = Row(item, k, o)
  BY DEF Rec
<1>2. r.item = item /\ r.seed = Seed(item[2], k)
  BY <1>1 DEF Row
<1> QED
  BY <1>2

LEMMA InitEstablishes == Init => IInv
<1> SUFFICES ASSUME Init PROVE IInv
  OBVIOUS
<1>1. FilesOK
  BY DEF Init, FilesOK, Names
<1>2. PlaceOK
  BY DEF Init, PlaceOK
<1>3. ItemsOnce
  BY DEF Init, ItemsOnce, Names
<1> QED
  BY <1>1, <1>2, <1>3 DEF IInv

\* A new row for the pending item.
LEMMA ItemKeeps ==
  ASSUME IInv, pc = "grid", Pending, Entry.items[pos] \notin skip,
         NEW o \in Outcomes, NEW k \in Resamples,
         rows' = [rows EXCEPT ![Name] = Append(@, Row(Entry.items[pos], k, o))],
         pos' = pos + 1,
         UNCHANGED <<entries, header, i, pc, skip>>
  PROVE  IInv'
<1> DEFINE new == Row(Entry.items[pos], k, o)
<1>1. /\ FilesOK /\ i \in 1 .. Len(entries) /\ pos \in Nat \ {0}
      /\ pos \in 1 .. Len(Entry.items) /\ Name \in Names
      /\ Entry.items[pos] \in AllItems /\ Len(Entry.items) \in Nat
  <2>1. FilesOK /\ i \in 1 .. Len(entries) /\ pos \in Nat \ {0}
    BY DEF IInv, PlaceOK
  <2>2. pos <= Len(Entry.items) /\ Len(Entry.items) \in Nat
    BY <2>1, EntryFacts DEF Pending
  <2> QED
    BY <2>1, <2>2, EntryFacts
<1>2. new \in Rec /\ new.item = Entry.items[pos]
  BY <1>1 DEF Rec, Row
<1> HIDE DEF new
<1>3. Names' = Names /\ Name' = Name /\ Entry' = Entry
  BY DEF Names, Name, Entry
<1>4. rows \in [Names -> Seq(Rec)] /\ rows[Name] \in Seq(Rec)
  BY <1>1 DEF FilesOK
<1>5. /\ rows' \in [Names -> Seq(Rec)]
      /\ rows'[Name] = Append(rows[Name], new)
      /\ \A n \in Names : n # Name => rows'[n] = rows[n]
  BY <1>1, <1>2, <1>4 DEF new
<1>6. /\ Len(rows[Name]) \in Nat /\ Len(rows'[Name]) = Len(rows[Name]) + 1
      /\ rows'[Name][Len(rows[Name]) + 1] = new
      /\ \A x \in 1 .. Len(rows[Name]) : rows'[Name][x] = rows[Name][x]
  BY <1>2, <1>4, <1>5
<1>7. header[Name] # "none"
  BY <1>1 DEF IInv, PlaceOK, FilesOK
<1>8. FilesOK'
  BY <1>1, <1>3, <1>5, <1>7 DEF FilesOK
<1>9. PlaceOK'
  BY <1>1, <1>3 DEF IInv, PlaceOK
<1>10. ASSUME header[Name] = "there", NEW x \in 1 .. Len(rows[Name])
       PROVE  rows[Name][x].item # new.item
  <2>1. CASE rows[Name][x].item \in skip
    BY <1>2, <2>1
  <2>2. CASE \E m \in 1 .. Len(Entry.items) : m < pos /\ Entry.items[m] = rows[Name][x].item
    <3>1. PICK m \in 1 .. Len(Entry.items) : m < pos /\ Entry.items[m] = rows[Name][x].item
      BY <2>2
    <3>2. m # pos
      BY <1>1, <3>1
    <3> QED
      BY <1>1, <1>2, <3>1, <3>2, EntryFacts
  <2> QED
    BY <1>10, <2>1, <2>2 DEF IInv, ItemsOnce
<1>11. ASSUME NEW n \in Names, header[n] = "there",
              NEW x \in 1 .. Len(rows'[n]), NEW y \in 1 .. Len(rows'[n]),
              rows'[n][x].item = rows'[n][y].item
       PROVE  x = y
  <2>1. CASE n # Name
    BY <1>5, <1>11, <2>1 DEF IInv, ItemsOnce
  <2>2. CASE n = Name
    <3>1. \A z \in 1 .. Len(rows'[Name]) :
            z = Len(rows[Name]) + 1 \/ z \in 1 .. Len(rows[Name])
      BY <1>6
    <3>2. CASE x \in 1 .. Len(rows[Name]) /\ y \in 1 .. Len(rows[Name])
      BY <1>6, <1>11, <2>2, <3>2 DEF IInv, ItemsOnce
    <3>3. CASE x = Len(rows[Name]) + 1 /\ y \in 1 .. Len(rows[Name])
      BY <1>6, <1>10, <1>11, <2>2, <3>3
    <3>4. CASE y = Len(rows[Name]) + 1 /\ x \in 1 .. Len(rows[Name])
      BY <1>6, <1>10, <1>11, <2>2, <3>4
    <3> QED
      BY <1>11, <2>2, <3>1, <3>2, <3>3, <3>4
  <2> QED
    BY <2>1, <2>2
<1>12. ASSUME header[Name] = "there", NEW x \in 1 .. Len(rows'[Name])
       PROVE  \/ rows'[Name][x].item \in skip
              \/ \E m \in 1 .. Len(Entry.items) : m < pos + 1
                                               /\ Entry.items[m] = rows'[Name][x].item
  <2>1. CASE x = Len(rows[Name]) + 1
    BY <1>1, <1>2, <1>6, <2>1
  <2>2. CASE x \in 1 .. Len(rows[Name])
    <3>1. \A m \in 1 .. Len(Entry.items) : m < pos => m < pos + 1
      BY <1>1
    <3> QED
      BY <1>6, <1>12, <2>2, <3>1 DEF IInv, ItemsOnce
  <2> QED
    BY <1>6, <2>1, <2>2
<1>13. ItemsOnce'
  BY <1>3, <1>11, <1>12 DEF ItemsOnce
<1> QED
  BY <1>8, <1>9, <1>13 DEF IInv

\* Steps that leave the files and the place in the grid alone.
LEMMA QuietKeeps ==
  ASSUME IInv, UNCHANGED files,
         pc' \in {"study", "summarize", "killed", "raised", "exited"},
         pc' = "study" => i' \in Nat \ {0},
         pc' = "summarize" => i' \in 1 .. Len(entries)
  PROVE  IInv'
BY DEF IInv, FilesOK, PlaceOK, ItemsOnce, files, Names

LEMMA NextPreserves == IInv /\ [Next]_vars => IInv'
<1> SUFFICES ASSUME IInv, [Next]_vars PROVE IInv'
  OBVIOUS
<1>a. \A n \in Nat \ {0} : n <= Len(entries) => n \in 1 .. Len(entries)
  <2>1. entries \in Seq(ToSet(entries))
    BY ItemAssumption DEF IInv, FilesOK
  <2> QED
    BY <2>1
<1>1. CASE Launch
  BY <1>1, QuietKeeps DEF Launch
<1>2. CASE Malformed
  BY <1>2, QuietKeeps DEF Malformed, Exit
<1>3. CASE OpenGrid
  <2>1. /\ pc = "study" /\ i \in 1 .. Len(entries) /\ pos' = 1
        /\ pc' \in {"header", "grid"}
        /\ pc' = "header" => header[Name] = "none"
        /\ pc' = "grid" => header[Name] # "none"
        /\ header' = [header EXCEPT ![Name] = IF @ = "none" THEN "lost" ELSE @]
        /\ skip' = IF header[Name] = "there" THEN {r.item : r \in ToSet(rows[Name])} ELSE {}
        /\ UNCHANGED <<entries, rows, i>>
    BY <1>3, <1>a DEF OpenGrid, LoadDone, IInv, PlaceOK
  <2>2. Name \in Names /\ Name' = Name /\ Names' = Names /\ Entry' = Entry
    BY <2>1, EntryFacts DEF IInv, Name, Names, Entry
  <2>3. FilesOK'
    BY <2>1, <2>2 DEF IInv, FilesOK
  <2>4. /\ \A n \in Names : header'[n] = "there" <=> header[n] = "there"
        /\ header[Name] = "none" => header'[Name] = "lost" /\ rows[Name] = <<>>
    BY <2>1, <2>2 DEF IInv, FilesOK
  <2>5. PlaceOK'
    BY <2>1, <2>2, <2>4 DEF IInv, PlaceOK
  <2>6. ASSUME header[Name] = "there", NEW x \in 1 .. Len(rows[Name])
        PROVE  rows[Name][x].item \in skip'
    <3>1. rows[Name] \in Seq(Rec)
      BY <2>2 DEF IInv, FilesOK
    <3>2. rows[Name][x] \in ToSet(rows[Name])
      BY <2>6, <3>1 DEF ToSet
    <3> QED
      BY <2>1, <2>6, <3>2
  <2>7. ItemsOnce'
    BY <2>1, <2>2, <2>4, <2>6 DEF IInv, ItemsOnce
  <2> QED
    BY <2>3, <2>5, <2>7 DEF IInv
<1>4. CASE WriteHeader
  <2>1. /\ pc = "header" /\ pc' = "grid" /\ header' = [header EXCEPT ![Name] = "there"]
        /\ rows[Name] = <<>> /\ pos = 1 /\ i \in 1 .. Len(entries)
        /\ UNCHANGED <<entries, rows, i, pos, skip>>
    BY <1>4 DEF WriteHeader, IInv, PlaceOK
  <2>2. Name \in Names /\ Name' = Name /\ Names' = Names /\ Entry' = Entry
    BY <2>1, EntryFacts DEF IInv, Name, Names, Entry
  <2>3. FilesOK'
    BY <2>1, <2>2 DEF IInv, FilesOK
  <2>4. PlaceOK'
    BY <2>1, <2>2 DEF IInv, PlaceOK
  <2>5. \A n \in Names : n # Name => header'[n] = header[n]
    BY <2>1, <2>2 DEF IInv, FilesOK
  <2>6. Len(rows[Name]) = 0
    BY <2>1
  <2>7. ItemsOnce'
    BY <2>1, <2>2, <2>5, <2>6 DEF IInv, ItemsOnce
  <2> QED
    BY <2>3, <2>4, <2>7 DEF IInv
<1>5. CASE Item
  <2>1. pc = "grid" /\ Pending /\ pos' = pos + 1 /\ UNCHANGED <<entries, header, i, pc, skip>>
    BY <1>5 DEF Item
  <2>2. CASE UNCHANGED rows
    <3>1. Name' = Name /\ Names' = Names /\ Entry' = Entry /\ pos \in Nat \ {0}
      BY <2>1 DEF IInv, PlaceOK, Name, Names, Entry
    <3>2. FilesOK' /\ PlaceOK'
      BY <2>1, <2>2, <3>1 DEF IInv, FilesOK, PlaceOK
    <3>3. \A m \in 1 .. Len(Entry.items) : m < pos => m < pos + 1
      BY <3>1
    <3>4. ItemsOnce'
      BY <2>1, <2>2, <3>1, <3>3 DEF IInv, ItemsOnce
    <3> QED
      BY <3>2, <3>4 DEF IInv
  <2>3. CASE /\ Entry.items[pos] \notin skip
             /\ \E o \in Outcomes, k \in Resamples :
                  rows' = [rows EXCEPT ![Name] = Append(@, Row(Entry.items[pos], k, o))]
    BY <2>1, <2>3, ItemKeeps
  <2> QED
    BY <1>5, <2>2, <2>3 DEF Item
<1>6. CASE DiskFloor
  BY <1>6, QuietKeeps DEF DiskFloor, IInv, PlaceOK
<1>7. CASE GridDone
  BY <1>7, QuietKeeps DEF GridDone, IInv, PlaceOK
<1>8. CASE Summarize
  <2>1. /\ UNCHANGED <<entries, header, rows>> /\ i \in 1 .. Len(entries)
        /\ pc' \in {"exited", "study"} /\ (pc' = "study" => i' \in Nat \ {0})
    BY <1>8 DEF Summarize, Exit, IInv, PlaceOK
  <2> QED
    BY <2>1 DEF IInv, FilesOK, PlaceOK, ItemsOnce, Names
<1>9. CASE SummarizeRaises
  BY <1>9, QuietKeeps DEF SummarizeRaises
<1>10. CASE Complete
  BY <1>10, QuietKeeps DEF Complete, Exit
<1>11. CASE Kill
  BY <1>11, QuietKeeps DEF Kill
<1>12. CASE Terminated \/ UNCHANGED vars
  BY <1>12 DEF Terminated, vars, files, IInv, FilesOK, PlaceOK, ItemsOnce, Names, Name, Entry
<1> QED
  BY <1>1, <1>2, <1>3, <1>4, <1>5, <1>6, <1>7, <1>8, <1>9, <1>10, <1>11, <1>12 DEF Next, Works

LEMMA Invariance == MainSpec => [](IInv \/ NoStudy)
<1>1. MainInit => IInv \/ NoStudy
  BY InitEstablishes DEF MainInit
<1>2. (IInv \/ NoStudy) /\ [MainNext]_<<vars, solveVars, genVars>>
        => (IInv \/ NoStudy)'
  BY NextPreserves, NoStudyStays, StepOfOne
<1> QED
  BY <1>1, <1>2, PTL DEF MainSpec

(***************************************************************************)
(* Two rows of a cell never come from the same seed, however many          *)
(* infeasible ones each went through, up to twelve.                        *)
(***************************************************************************)
THEOREM SeedsAreDistinct == MainSpec => []InstancesDistinct
<1>1. IInv => InstancesDistinct
  <2> SUFFICES ASSUME IInv, NEW n \in Names, header[n] = "there",
                      NEW x \in DOMAIN rows[n], NEW y \in DOMAIN rows[n],
                      x # y, rows[n][x].item[1] = rows[n][y].item[1],
                      rows[n][x].seed = rows[n][y].seed
               PROVE  FALSE
    BY DEF InstancesDistinct
  <2>1. rows[n] \in Seq(Rec) /\ DOMAIN rows[n] = 1 .. Len(rows[n])
    BY DEF IInv, FilesOK
  <2>2. rows[n][x] \in Rec /\ rows[n][y] \in Rec
    BY <2>1
  <2>3. PICK k \in Resamples : /\ rows[n][x].seed = Seed(rows[n][x].item[2], k)
                               /\ rows[n][x].item \in AllItems
    BY <2>2, RowFacts
  <2>4. PICK j \in Resamples : /\ rows[n][y].seed = Seed(rows[n][y].item[2], j)
                               /\ rows[n][y].item \in AllItems
    BY <2>2, RowFacts
  <2>5. rows[n][x].item[2] = rows[n][y].item[2]
    BY <2>3, <2>4, ItemIsPair, SeedsDiffer
  <2>6. rows[n][x].item = rows[n][y].item
    BY <2>3, <2>4, <2>5, ItemIsPair
  <2> QED
    BY <2>1, <2>6 DEF IInv, ItemsOnce
<1>2. NoStudy => InstancesDistinct
  BY NoStudyNoNames DEF InstancesDistinct
<1> QED
  BY <1>1, <1>2, Invariance, PTL

-----------------------------------------------------------------------------
(* Coverage *)

Has(item, e) ==
  item \in barren \/ \E r \in ToSet(rows[e.name]) : r.item = item

Whole(e) == \A item \in ToSet(e.items) : Has(item, e)

Cover ==
  /\ pc \in {"study", "header", "grid", "summarize"} =>
       \A x \in 1 .. Len(entries) : x < i => entries[x].name \in short \/ Whole(entries[x])
  /\ pc \in {"header", "grid"} =>
       \A item \in skip : \E r \in ToSet(rows[Name]) : r.item = item
  /\ pc = "grid" =>
       \A m \in 1 .. Len(Entry.items) : m < pos => Has(Entry.items[m], Entry)
  /\ pc = "summarize" => Name \in short \/ Whole(Entry)
  /\ front = "script" /\ pc \in {"study", "header", "grid"} => short = {}
  /\ front = "script" /\ pc = "summarize" => short \subseteq {Name}
  /\ pc # "exited" => code # 0
  /\ code = 0 /\ front = "script" => GridsCovered

\* Rows and barren items only accumulate while a process runs.
LEMMA GrowthKeepsCover ==
  ASSUME IInv, barren \subseteq barren', entries' = entries,
         \A n \in Names : ToSet(rows[n]) \subseteq ToSet(rows'[n])
  PROVE  /\ \A x \in 1 .. Len(entries) : Whole(entries[x]) => Whole(entries[x])'
         /\ i \in 1 .. Len(entries) /\ i' = i =>
              \A m \in 1 .. Len(Entry.items) :
                Has(Entry.items[m], Entry) => Has(Entry.items[m], Entry)'
<1>1. entries \in Seq(ToSet(entries))
  BY ItemAssumption DEF IInv, FilesOK
<1>2. \A x \in 1 .. Len(entries) : entries[x].name \in Names
  <2> SUFFICES ASSUME NEW x \in 1 .. Len(entries) PROVE entries[x].name \in Names
    OBVIOUS
  <2>1. entries[x] \in ToSet(entries)
    BY <1>1 DEF ToSet
  <2> QED
    BY <2>1 DEF Names
<1>3. ASSUME NEW x \in 1 .. Len(entries), NEW item, Has(item, entries[x])
      PROVE  Has(item, entries[x])'
  BY <1>2, <1>3 DEF Has
<1>4. \A x \in 1 .. Len(entries) : Whole(entries[x]) => Whole(entries[x])'
  BY <1>3 DEF Whole
<1>5. ASSUME i \in 1 .. Len(entries), i' = i, NEW m \in 1 .. Len(Entry.items),
             Has(Entry.items[m], Entry)
      PROVE  Has(Entry.items[m], Entry)'
  BY <1>3, <1>5 DEF Entry
<1> QED
  BY <1>4, <1>5

\* A process that stops, other than with success, or goes on to the next study.
LEMMA CoverStep == IInv /\ Cover /\ [Next]_vars => Cover'
<1> SUFFICES ASSUME IInv, Cover, [Next]_vars PROVE Cover'
  OBVIOUS
<1>1. CASE Launch
  <2>1. /\ pc' = "study" /\ i' = 1 /\ code' = None /\ short' = {} /\ entries' = entries
    BY <1>1 DEF Launch, files
  <2> QED
    BY <2>1, NoneAssumption DEF Cover
<1>2. CASE Malformed
  <2>1. pc' \in {"exited", "raised"} /\ code' \in {1, 2}
    BY <1>2 DEF Malformed, Exit
  <2> QED
    BY <2>1 DEF Cover
<1>3. CASE OpenGrid
  <2>1. /\ pc = "study" /\ pc' \in {"header", "grid"} /\ pos' = 1
        /\ skip' = IF header[Name] = "there" THEN {r.item : r \in ToSet(rows[Name])} ELSE {}
        /\ UNCHANGED <<entries, rows, barren, short, front, i, code>>
    BY <1>3 DEF OpenGrid, LoadDone
  <2>2. \A item \in skip' : \E r \in ToSet(rows[Name]) : r.item = item
    BY <2>1
  <2> QED
    BY <2>1, <2>2 DEF Cover, Whole, Has, Name, Entry
<1>4. CASE WriteHeader
  <2>1. /\ pc = "header" /\ pc' = "grid" /\ pos = 1
        /\ UNCHANGED <<entries, rows, barren, short, front, i, code, pos, skip>>
    BY <1>4 DEF WriteHeader, IInv, PlaceOK
  <2> QED
    BY <2>1 DEF Cover, Whole, Has, Name, Entry
<1>5. CASE Item
  <2>1. /\ pc = "grid" /\ pc' = pc /\ pos \in 1 .. Len(Entry.items) /\ pos' = pos + 1
        /\ i \in 1 .. Len(entries) /\ pos \in Nat /\ Len(Entry.items) \in Nat
        /\ Entry' = Entry
        /\ UNCHANGED <<entries, short, front, i, code, skip>>
    <3>1. Len(Entry.items) \in Nat
      BY <1>5, EntryFacts DEF Item, IInv, PlaceOK
    <3> QED
      BY <1>5, <3>1 DEF Item, Pending, IInv, PlaceOK, Entry
  <2>2. Name \in Names /\ rows \in [Names -> Seq(Rec)] /\ Name = Entry.name
    BY <2>1, EntryFacts DEF IInv, FilesOK, Name
  <2>0. PICK it : it = Entry.items[pos]
    OBVIOUS
  <2>3. /\ barren \subseteq barren'
        /\ \A n \in Names : ToSet(rows[n]) \subseteq ToSet(rows'[n])
        /\ Has(it, Entry)'
    <3>1. CASE Entry.items[pos] \in skip /\ UNCHANGED <<rows, barren>>
      BY <2>0, <2>1, <2>2, <3>1 DEF Cover, Has
    <3>2. CASE UNCHANGED rows /\ barren' = barren \cup {Entry.items[pos]}
      BY <2>0, <2>1, <3>2 DEF Has
    <3>3. CASE /\ \E o \in Outcomes, k \in Resamples :
                    rows' = [rows EXCEPT ![Name] = Append(@, Row(Entry.items[pos], k, o))]
               /\ UNCHANGED barren
      <4>1. PICK o \in Outcomes, k \in Resamples :
              rows' = [rows EXCEPT ![Name] = Append(@, Row(Entry.items[pos], k, o))]
        BY <3>3
      <4> DEFINE new == Row(Entry.items[pos], k, o)
      <4>2. new.item = Entry.items[pos] /\ new \in Rec
        <5>1. Entry.items[pos] \in AllItems
          BY <2>1, EntryFacts DEF IInv
        <5> QED
          BY <5>1 DEF Row, Rec
      <4>3. rows'[Name] = Append(rows[Name], new)
            /\ \A n \in Names : n # Name => rows'[n] = rows[n]
        BY <2>2, <4>1
      <4> HIDE DEF new
      <4>4. ToSet(rows'[Name]) = ToSet(rows[Name]) \cup {new}
        <5>1. rows[Name] \in Seq(Rec)
          BY <2>2
        <5> QED
          BY <4>2, <4>3, <5>1 DEF ToSet
      <4>5. new \in ToSet(rows'[Entry'.name])
        BY <2>1, <2>2, <4>4
      <4> QED
        BY <2>0, <2>1, <3>3, <4>2, <4>3, <4>4, <4>5 DEF Has
    <3> QED
      BY <1>5, <3>1, <3>2, <3>3 DEF Item
  <2>4. /\ \A x \in 1 .. Len(entries) : Whole(entries[x]) => Whole(entries[x])'
        /\ \A m \in 1 .. Len(Entry.items) :
             Has(Entry.items[m], Entry) => Has(Entry.items[m], Entry)'
    BY <2>1, <2>3, GrowthKeepsCover
  <2>5. ASSUME NEW m \in 1 .. Len(Entry.items), m < pos + 1
        PROVE  Has(Entry.items[m], Entry)'
    <3>1. m < pos \/ m = pos
      <4>1. m \in Int /\ pos \in Int
        BY <2>1
      <4> QED
        BY <2>5, <4>1
    <3>2. CASE m = pos
      <4>1. it = Entry'.items[m]
        BY <2>0, <2>1, <3>2
      <4> QED
        BY <2>3, <4>1
    <3>3. CASE m < pos
      BY <2>1, <2>4, <3>3 DEF Cover
    <3> QED
      BY <3>1, <3>2, <3>3
  <2>6. \A item \in skip' : \E r \in ToSet(rows'[Name']) : r.item = item
    BY <2>1, <2>2, <2>3 DEF Cover, Name, Entry
  <2>7. \A x \in 1 .. Len(entries') : x < i' =>
          entries'[x].name \in short' \/ Whole(entries[x])'
    BY <2>1, <2>4 DEF Cover
  <2>8. \A m \in 1 .. Len(Entry'.items) : m < pos' => Has(Entry.items[m], Entry)'
    BY <2>1, <2>5 DEF Entry
  <2> QED
    BY <2>1, <2>6, <2>7, <2>8 DEF Cover
<1>6. CASE DiskFloor
  <2>1. /\ pc = "grid" /\ pc' = "summarize" /\ short' = short \cup {Name}
        /\ UNCHANGED <<entries, rows, barren, front, i, code>>
    BY <1>6 DEF DiskFloor, files
  <2> QED
    BY <2>1 DEF Cover, Whole, Has, Name, Entry
<1>7. CASE GridDone
  <2>1. /\ pc = "grid" /\ pc' = "summarize" /\ ~Pending /\ i \in 1 .. Len(entries)
        /\ pos \in Nat
        /\ UNCHANGED <<entries, rows, barren, front, i, code, short>>
    BY <1>7 DEF GridDone, files, IInv, PlaceOK
  <2>2. Whole(Entry)
    <3> SUFFICES ASSUME NEW item \in ToSet(Entry.items) PROVE Has(item, Entry)
      BY DEF Whole
    <3>1. PICK m \in DOMAIN Entry.items : item = Entry.items[m]
      BY DEF ToSet
    <3>2. m \in 1 .. Len(Entry.items) /\ Len(Entry.items) \in Nat
      <4>1. entries \in GridFiles /\ i \in DOMAIN entries
        BY <2>1, ItemAssumption DEF IInv, FilesOK
      <4>2. Entry.items \in Seq(ToSet(Entry.items))
        BY <4>1, ItemAssumption DEF Entry
      <4> QED
        BY <4>2
    <3>3. m < pos
      BY <2>1, <3>2 DEF Pending
    <3> QED
      BY <2>1, <3>1, <3>2, <3>3 DEF Cover
  <2> QED
    BY <2>1, <2>2 DEF Cover, Whole, Has, Name, Entry
<1>8. CASE Summarize
  <2>1. /\ pc = "summarize" /\ i \in 1 .. Len(entries)
        /\ UNCHANGED <<entries, rows, barren, front, short>>
    BY <1>8 DEF Summarize, IInv, PlaceOK
  <2>2. CASE front = "script" /\ Name \in short
    <3>1. pc' = "exited" /\ code' = 2
      BY <1>8, <2>2 DEF Summarize, Exit
    <3> QED
      BY <3>1 DEF Cover
  <2>3. CASE ~(front = "script" /\ Name \in short)
    <3>1. pc' = "study" /\ i' = i + 1 /\ code' = code
      BY <1>8, <2>3 DEF Summarize
    <3>2. \A x \in 1 .. Len(entries) : x < i + 1 =>
            entries[x].name \in short \/ Whole(entries[x])
      <4> SUFFICES ASSUME NEW x \in 1 .. Len(entries), x < i + 1
                   PROVE  entries[x].name \in short \/ Whole(entries[x])
        OBVIOUS
      <4>1. x < i \/ x = i
        BY <2>1
      <4> QED
        BY <2>1, <4>1 DEF Cover, Name, Entry
    <3>3. front = "script" => short = {}
      BY <2>1, <2>3 DEF Cover
    <3> QED
      BY <2>1, <3>1, <3>2, <3>3 DEF Cover, Whole, Has
  <2> QED
    BY <2>2, <2>3
<1>9. CASE SummarizeRaises
  <2>1. pc' = "raised" /\ code' = 1
    BY <1>9 DEF SummarizeRaises
  <2> QED
    BY <2>1 DEF Cover
<1>10. CASE Complete
  <2>1. /\ pc = "study" /\ i > Len(entries) /\ pc' = "exited"
        /\ UNCHANGED <<entries, rows, barren, front, short>>
    BY <1>10 DEF Complete, Exit, files
  <2>2. ASSUME front = "script" PROVE GridsCovered
    <3> SUFFICES ASSUME NEW e \in ToSet(entries) PROVE Whole(e)
      BY DEF GridsCovered, Whole, Has
    <3>1. entries \in Seq(ToSet(entries)) /\ i \in Nat
      BY <2>1, ItemAssumption DEF IInv, FilesOK, PlaceOK
    <3>2. PICK x \in 1 .. Len(entries) : e = entries[x]
      BY <3>1 DEF ToSet
    <3>3. x < i
      BY <2>1, <3>1
    <3> QED
      BY <2>1, <2>2, <3>2, <3>3 DEF Cover
  <2>3. front' = "script" => GridsCovered'
    BY <2>1, <2>2 DEF GridsCovered
  <2> QED
    BY <2>1, <2>3 DEF Cover
<1>11. CASE Kill
  <2>1. pc # "exited" /\ pc' = "killed" /\ code' = code
    BY <1>11 DEF Kill, Running
  <2> QED
    BY <2>1 DEF Cover
<1>12. CASE Terminated \/ UNCHANGED vars
  BY <1>12 DEF Terminated, vars, files, Cover, Whole, Has, Name, Entry, GridsCovered
<1> QED
  BY <1>1, <1>2, <1>3, <1>4, <1>5, <1>6, <1>7, <1>8, <1>9, <1>10, <1>11, <1>12 DEF Next, Works

(***************************************************************************)
(* When the script reports success every item of every study has a row or  *)
(* was found barren, however many processes were killed on the way.        *)
(***************************************************************************)
THEOREM ScriptSuccessIsComplete == MainSpec => []ScriptSuccessMeansComplete
<1>1. MainInit => (IInv /\ Cover) \/ NoStudy
  BY InitEstablishes, NoneAssumption DEF MainInit, Init, Cover
<1>2. ((IInv /\ Cover) \/ NoStudy) /\ [MainNext]_<<vars, solveVars, genVars>>
        => ((IInv /\ Cover) \/ NoStudy)'
  BY NextPreserves, CoverStep, NoStudyStays, StepOfOne
<1>3. Cover \/ NoStudy => ScriptSuccessMeansComplete
  BY NoStudyNoNames DEF Cover, GridsCovered, ScriptSuccessMeansComplete
<1> QED
  BY <1>1, <1>2, <1>3, PTL DEF MainSpec

-----------------------------------------------------------------------------
(* Summaries *)

UpToDate(n) == header[n] = "there" /\ rows[n] # <<>> => summary[n] = Summary(rows[n])

Fresh ==
  /\ DOMAIN summary = Names
  /\ pc \in {"study", "header", "grid", "summarize"} =>
       \A x \in 1 .. Len(entries) : x < i => UpToDate(entries[x].name)
  /\ pc # "exited" => code # 0
  /\ code = 0 => \A n \in Names : UpToDate(n)

LEMMA NamesFacts ==
  ASSUME IInv
  PROVE  /\ Len(entries) \in Nat
         /\ \A x \in 1 .. Len(entries) : entries[x].name \in Names
         /\ \A x, y \in 1 .. Len(entries) : x # y => entries[x].name # entries[y].name
         /\ \A n \in Names : \E x \in 1 .. Len(entries) : n = entries[x].name
<1>1. entries \in Seq(ToSet(entries)) /\ entries \in GridFiles
  BY ItemAssumption DEF IInv, FilesOK
<1>2. Len(entries) \in Nat /\ DOMAIN entries = 1 .. Len(entries)
  BY <1>1
<1>3. ToSet(entries) = {entries[x] : x \in 1 .. Len(entries)}
  BY <1>2 DEF ToSet
<1> QED
  BY <1>1, <1>2, <1>3, NameAssumption DEF Names

\* Only the current study's file changes while a process runs.
LEMMA FreshWhileRunning ==
  ASSUME IInv, Fresh, i \in 1 .. Len(entries), i' = i,
         pc \in {"study", "header", "grid"},
         pc' \in {"header", "grid", "summarize"},
         \A n \in Names : n # Name => rows'[n] = rows[n] /\ header'[n] = header[n],
         UNCHANGED <<entries, summary, code>>
  PROVE  Fresh'
<1>1. ASSUME NEW x \in 1 .. Len(entries), x < i
      PROVE  UpToDate(entries[x].name)'
  <2>1. entries[x].name # Name /\ entries[x].name \in Names
    BY <1>1, NamesFacts DEF Name, Entry
  <2>2. UpToDate(entries[x].name)
    BY <1>1 DEF Fresh
  <2> QED
    BY <2>1, <2>2 DEF UpToDate
<1>2. Names' = Names
  BY DEF Names
<1> QED
  BY <1>1, <1>2 DEF Fresh

LEMMA FreshStep == IInv /\ Fresh /\ [Next]_vars => Fresh'
<1> SUFFICES ASSUME IInv, Fresh, [Next]_vars PROVE Fresh'
  OBVIOUS
<1>1. CASE Launch
  <2>1. pc' = "study" /\ i' = 1 /\ code' = None /\ UNCHANGED <<entries, summary>>
    BY <1>1 DEF Launch, files
  <2> QED
    BY <2>1, NoneAssumption DEF Fresh, Names
<1>2. CASE Malformed \/ SummarizeRaises
  <2>1. /\ pc' \in {"exited", "raised"} /\ code' \in {1, 2} /\ UNCHANGED <<entries, summary>>
    BY <1>2 DEF Malformed, SummarizeRaises, Exit, files
  <2> QED
    BY <2>1 DEF Fresh, Names
<1>3. CASE OpenGrid \/ WriteHeader
  <2>1. /\ i' = i /\ pc \in {"study", "header"} /\ pc' \in {"header", "grid"}
        /\ i \in 1 .. Len(entries)
        /\ UNCHANGED <<entries, summary, code, rows>>
    BY <1>3, NamesFacts DEF OpenGrid, LoadDone, WriteHeader, IInv, PlaceOK
  <2>2. \A n \in Names : n # Name => header'[n] = header[n]
    BY <1>3 DEF OpenGrid, LoadDone, WriteHeader, IInv, FilesOK
  <2> QED
    BY <2>1, <2>2, FreshWhileRunning
<1>4. CASE Item
  <2>1. /\ i' = i /\ pc = "grid" /\ pc' = "grid" /\ i \in 1 .. Len(entries)
        /\ UNCHANGED <<entries, summary, code, header>>
    BY <1>4 DEF Item, IInv, PlaceOK
  <2>2. rows \in [Names -> Seq(Rec)]
    BY DEF IInv, FilesOK
  <2>3. \A n \in Names : n # Name => rows'[n] = rows[n]
    BY <1>4, <2>2 DEF Item
  <2> QED
    BY <2>1, <2>3, FreshWhileRunning
<1>5. CASE DiskFloor \/ GridDone
  <2>1. /\ i' = i /\ pc = "grid" /\ pc' = "summarize" /\ i \in 1 .. Len(entries)
        /\ UNCHANGED <<entries, summary, code, header, rows>>
    BY <1>5 DEF DiskFloor, GridDone, files, IInv, PlaceOK
  <2> QED
    BY <2>1, FreshWhileRunning
<1>6. CASE Summarize
  <2>1. /\ pc = "summarize" /\ i \in 1 .. Len(entries) /\ Name \in Names
        /\ header[Name] = "there" \/ Read(Name) = <<>>
        /\ summary' = IF Read(Name) = <<>> THEN summary
                      ELSE [summary EXCEPT ![Name] = Summary(Read(Name))]
        /\ UNCHANGED <<entries, header, rows>>
    BY <1>6, EntryFacts DEF Summarize, IInv, PlaceOK
  <2>2. Names' = Names /\ DOMAIN summary' = Names
    BY <2>1 DEF Fresh, Names
  <2>3. \A n \in Names : n # Name => summary'[n] = summary[n]
    BY <2>1 DEF Fresh
  <2>4. header[Name] = "there" /\ rows[Name] # <<>> => summary'[Name] = Summary(rows[Name])
    <3> SUFFICES ASSUME header[Name] = "there", rows[Name] # <<>>
                 PROVE  summary'[Name] = Summary(rows[Name])
      OBVIOUS
    <3>1. Read(Name) = rows[Name]
      BY DEF Read
    <3> QED
      BY <2>1, <3>1 DEF Fresh
  <2>5. CASE pc' = "exited"
    <3>1. code' = 2
      BY <1>6, <2>5 DEF Summarize, Exit
    <3> QED
      BY <2>2, <2>5, <3>1 DEF Fresh
  <2>6. CASE pc' # "exited"
    <3>1. pc' = "study" /\ i' = i + 1 /\ code' = code
      BY <1>6, <2>6 DEF Summarize, Exit
    <3>2. ASSUME NEW x \in 1 .. Len(entries), x < i + 1
          PROVE  UpToDate(entries[x].name)'
      <4>0. Len(entries) \in Nat /\ x \in Int /\ i \in Int
        BY <2>1, NamesFacts
      <4>1. CASE x < i
        <5>1. entries[x].name # Name /\ entries[x].name \in Names /\ UpToDate(entries[x].name)
          BY <2>1, <4>0, <4>1, NamesFacts DEF Fresh, Name, Entry
        <5> QED
          BY <2>1, <2>3, <5>1 DEF UpToDate
      <4>2. CASE x = i
        BY <2>1, <2>4, <4>2 DEF UpToDate, Name, Entry
      <4> QED
        BY <3>2, <4>0, <4>1, <4>2
    <3> QED
      BY <2>1, <2>2, <3>1, <3>2 DEF Fresh
  <2> QED
    BY <2>5, <2>6
<1>7. CASE Complete
  <2>1. /\ pc = "study" /\ i > Len(entries) /\ pc' = "exited"
        /\ UNCHANGED <<entries, header, rows, summary>>
    BY <1>7 DEF Complete, Exit, files
  <2>2. ASSUME NEW n \in Names PROVE UpToDate(n)
    <3>1. PICK x \in 1 .. Len(entries) : n = entries[x].name
      BY NamesFacts
    <3>2. x < i
      BY <2>1, NamesFacts DEF IInv, PlaceOK
    <3> QED
      BY <2>1, <3>1, <3>2 DEF Fresh
  <2>3. Names' = Names /\ \A n \in Names : UpToDate(n)'
    BY <2>1, <2>2 DEF UpToDate, Names
  <2> QED
    BY <2>1, <2>3 DEF Fresh
<1>8. CASE Kill
  <2>1. pc # "exited" /\ pc' = "killed" /\ code' = code /\ UNCHANGED <<entries, summary>>
    BY <1>8 DEF Kill, Running, files
  <2> QED
    BY <2>1 DEF Fresh, Names
<1>9. CASE Terminated \/ UNCHANGED vars
  BY <1>9 DEF Terminated, vars, files, Fresh, UpToDate, Names
<1> QED
  BY <1>1, <1>2, <1>3, <1>4, <1>5, <1>6, <1>7, <1>8, <1>9 DEF Next, Works

(***************************************************************************)
(* A process that reports success leaves summaries of exactly the rows on  *)
(* disk, whatever earlier processes left behind.                           *)
(***************************************************************************)
THEOREM SummariesAreFresh == MainSpec => []SummaryTellsTheFile
<1>1. MainInit => (IInv /\ Fresh) \/ NoStudy
  BY InitEstablishes, NoneAssumption DEF MainInit, Init, Fresh
<1>2. ((IInv /\ Fresh) \/ NoStudy) /\ [MainNext]_<<vars, solveVars, genVars>>
        => ((IInv /\ Fresh) \/ NoStudy)'
  BY NextPreserves, FreshStep, NoStudyStays, StepOfOne
<1>3. Fresh \/ NoStudy => SummaryTellsTheFile
  BY NoStudyNoNames DEF Fresh, UpToDate, SummaryTellsTheFile
<1> QED
  BY <1>1, <1>2, <1>3, PTL DEF MainSpec

-----------------------------------------------------------------------------
(* `solve` and `baselines` *)

\* A claimed optimum is one, and a bound without the claim stands beside a
\* schedule and not above its value.
HonestReply(r) ==
  /\ r.status = "OPTIMAL" =>
       /\ r.bound = r.objective /\ r.objective \in Int
       /\ \A g \in UNION GreedyRisks : g >= r.objective
  /\ r.status # "OPTIMAL" /\ r.bound # None =>
       r.objective # None /\ r.bound <= r.objective

Replied ==
  /\ result # None \/ solvePc = "compare" => HonestReply(result)
  /\ table # None => \A g \in table.gaps : g >= 0

LEMMA CpsatIsHonest == ASSUME NEW r \in CpsatReplies PROVE HonestReply(r)
BY ReplyAssumption DEF HonestReply

LEMMA MilpIsHonest ==
  ASSUME NEW o \in PulpOutcomes PROVE HonestReply(Solve!MilpReply(o))
<1>1. /\ o.sol \in {"optimal", "integer feasible", "infeasible", "none", "error"}
      /\ o.sol = "optimal" =>
           o.value \in Int /\ \A g \in UNION GreedyRisks : g >= o.value
  BY ReplyAssumption
<1>2. Solve!Normalize(o) = "OPTIMAL" => o.sol = "optimal"
  BY <1>1 DEF Solve!Normalize
<1> QED
  BY <1>1, <1>2 DEF Solve!MilpReply, HonestReply

\* A gap in the table is one: a feasible greedy's distance from an optimum.
LEMMA GapsAreGaps ==
  ASSUME HonestReply(result), NEW gs \in GreedyRisks,
         NEW x \in {Solve!Gap(g) : g \in gs} \ {None}
  PROVE  x >= 0
<1>1. PICK g \in gs : x = Solve!Gap(g) /\ x # None
  OBVIOUS
<1>2. g \in Int /\ g \in UNION GreedyRisks
  BY ReplyAssumption
<1>3. result.status = "OPTIMAL" /\ x = g - result.objective
  BY <1>1 DEF Solve!Gap
<1>4. result.objective \in Int /\ g >= result.objective
  BY <1>2, <1>3 DEF HonestReply
<1> QED
  BY <1>2, <1>3, <1>4

LEMMA RepliedStep == Replied /\ [Solve!Next]_(Solve!vars) => Replied'
<1> SUFFICES ASSUME Replied, [Solve!Next]_(Solve!vars) PROVE Replied'
  OBVIOUS
<1>1. CASE Solve!Invoke
  BY <1>1 DEF Solve!Invoke, Replied
<1>2. CASE Solve!SolveCpsat
  <2>1. result' \in CpsatReplies /\ table' = table
    BY <1>2 DEF Solve!SolveCpsat
  <2>2. HonestReply(result')
    BY <2>1, CpsatIsHonest
  <2> QED
    BY <2>1, <2>2 DEF Replied, HonestReply
<1>3. CASE Solve!SolveMilp
  <2>1. CASE Solve!Dispatchable(machine, request.solver)
    <3>1. PICK o \in PulpOutcomes : result' = Solve!MilpReply(o) /\ table' = table
      BY <1>3, <2>1 DEF Solve!SolveMilp
    <3>2. HonestReply(result')
      BY <3>1, MilpIsHonest
    <3> QED
      BY <3>1, <3>2 DEF Replied, HonestReply
  <2>2. CASE ~Solve!Dispatchable(machine, request.solver)
    <3>1. solvePc' = "raised" /\ UNCHANGED <<result, table>>
      BY <1>3, <2>2 DEF Solve!SolveMilp, Solve!Raise
    <3> QED
      BY <3>1 DEF Replied, HonestReply
  <2> QED
    BY <2>1, <2>2
<1>4. CASE Solve!Compare
  <2>1. PICK gs \in GreedyRisks :
          table'.gaps = {Solve!Gap(g) : g \in gs} \ {None}
    BY <1>4 DEF Solve!Compare
  <2>2. HonestReply(result) /\ result' = result
    BY <1>4 DEF Solve!Compare, Replied
  <2>3. \A x \in table'.gaps : x >= 0
    BY <2>1, <2>2, GapsAreGaps
  <2> QED
    BY <2>2, <2>3 DEF Replied, HonestReply
<1>5. CASE /\ UNCHANGED <<result, table>>
           /\ solvePc' = "compare" => solvePc = "compare"
  BY <1>5 DEF Replied, HonestReply
<1>6. ASSUME \/ Solve!Load \/ Solve!PickBackend \/ Solve!Trace \/ Solve!OpenFile
             \/ Solve!Dump \/ Solve!End \/ Solve!Kill \/ Solve!Terminated
             \/ UNCHANGED Solve!vars
      PROVE  /\ UNCHANGED <<result, table>>
             /\ solvePc' = "compare" => solvePc = "compare"
  BY <1>6
  DEF Solve!Load, Solve!PickBackend, Solve!Trace, Solve!OpenFile, Solve!Dump,
      Solve!End, Solve!Kill, Solve!Terminated, Solve!vars, Solve!outcome,
      Solve!Raise, Solve!Exit, Solve!Goto
<1> QED
  BY <1>1, <1>2, <1>3, <1>4, <1>5, <1>6 DEF Solve!Next

(***************************************************************************)
(* Whatever backend is asked for and however it terminates, a reply that   *)
(* claims the optimum has it, and every gap `baselines` prints is one.     *)
(***************************************************************************)
THEOREM ClaimsAreHonest == MainSpec => []ProofsAreProofs
<1>1. MainInit => Replied
  BY DEF MainInit, Solve!Init, NoSolve, Replied
<1>2. Replied /\ [MainNext]_<<vars, solveVars, genVars>> => Replied'
  BY StepOfOne, RepliedStep
<1>3. Replied => ProofsAreProofs
  BY DEF Replied, HonestReply, ProofsAreProofs, Solve!ProofsAreProofs, Solve!Usable
<1> QED
  BY <1>1, <1>2, <1>3, PTL DEF MainSpec

\* Up to the opening of the file nothing was touched; only a `solve` that was
\* given an output file gets there, and only one that was not ends without it.
FileInv ==
  /\ solvePc \in {"load", "backend", "solve", "compare", "pareto", "save", "end"} =>
       file = found /\ ~cutShort
  /\ solvePc = "dump" => file = Cut /\ ~cutShort
  /\ solvePc \in {"pareto", "save", "dump"} => request.cmd = "solve"
  /\ solvePc \in {"save", "dump"} => request.out
  /\ solvePc = "compare" => request.cmd # "solve"
  /\ solvePc = "end" => ~request.out
  /\ ExitCodeTellsTheFile

LEMMA FileInvStep == FileInv /\ [Solve!Next]_(Solve!vars) => FileInv'
<1> SUFFICES ASSUME FileInv, [Solve!Next]_(Solve!vars) PROVE FileInv'
  OBVIOUS
<1> USE DEF FileInv, ExitCodeTellsTheFile, Solve!ExitCodeTellsTheFile,
            Solve!Written, Solve!history, Solve!outcome, Solve!Exit,
            Solve!Goto, Solve!Raise
<1>1. CASE Solve!Invoke
  BY <1>1 DEF Solve!Invoke
<1>2. CASE Solve!Load
  BY <1>2 DEF Solve!Load
<1>3. CASE Solve!PickBackend
  BY <1>3 DEF Solve!PickBackend
<1>4. CASE Solve!SolveCpsat
  BY <1>4 DEF Solve!SolveCpsat, Solve!Solved
<1>5. CASE Solve!SolveMilp
  BY <1>5 DEF Solve!SolveMilp, Solve!Solved
<1>6. CASE Solve!Compare
  BY <1>6 DEF Solve!Compare
<1>7. CASE Solve!Trace
  BY <1>7 DEF Solve!Trace
<1>8. CASE Solve!OpenFile
  BY <1>8 DEF Solve!OpenFile
<1>9. CASE Solve!Dump
  <2>1. Solve!Roadmap' = Solve!Roadmap
    BY <1>9 DEF Solve!Dump, Solve!Roadmap, Solve!Usable
  <2> QED
    BY <1>9, <2>1 DEF Solve!Dump
<1>10. CASE Solve!End
  BY <1>10 DEF Solve!End
<1>11. CASE Solve!Kill
  BY <1>11 DEF Solve!Kill
<1>12. CASE Solve!Terminated \/ UNCHANGED Solve!vars
  <2>1. UNCHANGED Solve!vars
    BY <1>12 DEF Solve!Terminated
  <2>2. Solve!Roadmap' = Solve!Roadmap
    BY <2>1 DEF Solve!vars, Solve!Roadmap, Solve!Usable
  <2> QED
    BY <2>1, <2>2 DEF Solve!vars
<1> QED
  BY <1>1, <1>2, <1>3, <1>4, <1>5, <1>6, <1>7, <1>8, <1>9, <1>10, <1>11, <1>12
  DEF Solve!Next

(***************************************************************************)
(* cli.py:268-345: after exit code 0 the output file holds the roadmap of  *)
(* this very invocation, after 2 it is as it was found, and a traceback or *)
(* a kill spoils it only between the opening and the end of the write, for *)
(* any machine, any arguments and any replies of the solvers.              *)
(***************************************************************************)
THEOREM ExitCodesTellTheFile == MainSpec => []ExitCodeTellsTheFile
<1>1. MainInit => FileInv
  BY DEF MainInit, Solve!Init, NoSolve, FileInv, ExitCodeTellsTheFile,
         Solve!ExitCodeTellsTheFile
<1>2. FileInv /\ [MainNext]_<<vars, solveVars, genVars>> => FileInv'
  BY StepOfOne, FileInvStep
<1>3. FileInv => ExitCodeTellsTheFile
  BY DEF FileInv
<1> QED
  BY <1>1, <1>2, <1>3, PTL DEF MainSpec

-----------------------------------------------------------------------------
(* `gen` *)

\* During the sweep, the successors of the assets passed start no earlier.
Swept ==
  /\ genPc = "propagate" =>
       /\ order \in [1 .. N -> 1 .. N] /\ Gen!IsInjective(order)
       /\ deps \subseteq Gen!Forward(order)
       /\ earliest \in [1 .. N -> Int]
       /\ genPos \in Nat \ {0}
       /\ \A x, y \in 1 .. N : x < genPos /\ <<order[x], order[y]>> \in deps =>
            earliest[order[x]] <= earliest[order[y]]
  /\ Gen!OneSweepPropagates

LEMMA LargerOf ==
  ASSUME NEW x \in Int, NEW y \in Int
  PROVE  /\ Gen!Max({x, y}) \in Int
         /\ Gen!Max({x, y}) >= x /\ Gen!Max({x, y}) >= y
<1>1. \E z \in {x, y} : \A u \in {x, y} : z >= u
  <2>1. x >= y \/ y >= x
    OBVIOUS
  <2> QED
    BY <2>1
<1> QED
  BY <1>1 DEF Gen!Max

LEMMA ForwardFacts ==
  ASSUME NEW f \in [1 .. N -> 1 .. N], NEW e \in Gen!Forward(f)
  PROVE  \E x, y \in 1 .. N : x < y /\ e = <<f[x], f[y]>>
BY DEF Gen!Forward, Gen!Assets

LEMMA SweptStep == Swept /\ [Gen!Next]_(Gen!vars) => Swept'
<1> SUFFICES ASSUME Swept, [Gen!Next]_(Gen!vars) PROVE Swept'
  OBVIOUS
<1>1. CASE Gen!Propagate
  <2>1. /\ genPc = "propagate" /\ genPc' = "propagate" /\ genPos <= N
        /\ earliest' = [w \in 1 .. N |->
             IF <<order[genPos], w>> \in deps
             THEN Gen!Max({earliest[w], earliest[order[genPos]]})
             ELSE earliest[w]]
        /\ genPos' = genPos + 1
        /\ UNCHANGED <<order, deps>>
    BY <1>1 DEF Gen!Propagate, Gen!Assets
  <2>2. /\ order \in [1 .. N -> 1 .. N] /\ Gen!IsInjective(order)
        /\ deps \subseteq Gen!Forward(order)
        /\ earliest \in [1 .. N -> Int] /\ genPos \in 1 .. N /\ N \in Nat
        /\ \A x, y \in 1 .. N : x < genPos /\ <<order[x], order[y]>> \in deps =>
             earliest[order[x]] <= earliest[order[y]]
    <3>1. genPos \in 1 .. N /\ N \in Nat
      BY <2>1, DrawAssumption DEF Swept
    <3> QED
      BY <2>1, <3>1 DEF Swept
  <2>3. ASSUME NEW v \in 1 .. N
        PROVE  /\ earliest'[v] \in Int /\ earliest[v] <= earliest'[v]
               /\ <<order[genPos], v>> \in deps =>
                    earliest[order[genPos]] <= earliest'[v]
               /\ <<order[genPos], v>> \notin deps => earliest'[v] = earliest[v]
    <3>1. earliest[v] \in Int /\ earliest[order[genPos]] \in Int
      BY <2>2
    <3> DEFINE m == Gen!Max({earliest[v], earliest[order[genPos]]})
    <3>2. m \in Int /\ m >= earliest[v] /\ m >= earliest[order[genPos]]
      BY <3>1, LargerOf
    <3>3. earliest'[v] = IF <<order[genPos], v>> \in deps THEN m
                         ELSE earliest[v]
      BY <2>1
    <3> HIDE DEF m
    <3> QED
      BY <3>1, <3>2, <3>3
  <2>4. earliest' \in [1 .. N -> Int]
    BY <2>1, <2>3
  <2>5. ASSUME NEW x \in 1 .. N, NEW y \in 1 .. N, <<order[x], order[y]>> \in deps
        PROVE  x < y
    <3>1. PICK u, z \in 1 .. N :
            u < z /\ <<order[x], order[y]>> = <<order[u], order[z]>>
      BY <2>2, <2>5, ForwardFacts
    <3>2. u = x /\ z = y
      BY <2>2, <3>1 DEF Gen!IsInjective
    <3> QED
      BY <3>1, <3>2
  <2>6. ASSUME NEW x \in 1 .. N, NEW y \in 1 .. N, x < genPos + 1,
               <<order[x], order[y]>> \in deps
        PROVE  earliest'[order[x]] <= earliest'[order[y]]
    <3>1. order[x] \in 1 .. N /\ order[y] \in 1 .. N
      BY <2>2
    <3>2. <<order[genPos], order[x]>> \notin deps
      <4> SUFFICES ASSUME <<order[genPos], order[x]>> \in deps PROVE FALSE
        OBVIOUS
      <4>1. genPos < x
        BY <2>2, <2>5
      <4> QED
        BY <2>2, <2>6, <4>1
    <3>3. earliest'[order[x]] = earliest[order[x]]
      BY <2>3, <3>1, <3>2
    <3>4. /\ earliest[order[y]] <= earliest'[order[y]]
          /\ earliest[order[x]] \in Int /\ earliest[order[y]] \in Int
          /\ earliest'[order[y]] \in Int
      BY <2>2, <2>3, <3>1
    <3>5. CASE x = genPos
      BY <2>3, <2>6, <3>1, <3>3, <3>5
    <3>6. CASE x < genPos
      <4>1. earliest[order[x]] <= earliest[order[y]]
        BY <2>2, <2>6, <3>6
      <4> QED
        BY <3>3, <3>4, <4>1
    <3> QED
      BY <2>2, <2>6, <3>5, <3>6
  <2>7. Gen!OneSweepPropagates'
    BY <2>1 DEF Gen!OneSweepPropagates
  <2>8. genPos' \in Nat \ {0} /\ genPos' = genPos + 1
    BY <2>1, <2>2
  <2>9. \A x, y \in 1 .. N : x < genPos' /\ <<order[x], order[y]>> \in deps =>
          earliest'[order[x]] <= earliest'[order[y]]
    BY <2>6, <2>8
  <2> QED
    BY <2>1, <2>2, <2>4, <2>7, <2>8, <2>9, Zenon DEF Swept
<1>2. CASE Gen!Propagated
  <2>1. /\ genPc = "propagate" /\ genPos > N /\ genPc' = "pair"
        /\ UNCHANGED <<deps, earliest>>
    BY <1>2 DEF Gen!Propagated
  <2>2. ASSUME NEW e \in deps PROVE earliest[e[1]] <= earliest[e[2]]
    <3>1. PICK x, y \in 1 .. N : x < y /\ e = <<order[x], order[y]>>
      BY <2>1, ForwardFacts DEF Swept
    <3>2. x < genPos
      BY <2>1, DrawAssumption DEF Swept
    <3> QED
      BY <2>1, <3>1, <3>2 DEF Swept
  <2> QED
    BY <2>1, <2>2 DEF Swept, Gen!OneSweepPropagates
<1>3. CASE Gen!DrawPair
  <2>1. /\ genPc = "pair" /\ genPc' = "pair" /\ deps' = deps
        /\ \/ earliest' = earliest /\ clusters' = clusters
           \/ clusters' # {}
    BY <1>3 DEF Gen!DrawPair
  <2> QED
    BY <2>1 DEF Swept, Gen!OneSweepPropagates
<1>4. CASE Gen!Paired \/ Gen!Mandate \/ Gen!ShareDeadlines \/ Gen!SizeBudget
  <2>1. genPc' \in {"mandate", "budget", "done"}
    BY <1>4 DEF Gen!Paired, Gen!Mandate, Gen!ShareDeadlines, Gen!SizeBudget, Swept
  <2> QED
    BY <2>1 DEF Swept, Gen!OneSweepPropagates
<1>5. CASE Gen!Terminated \/ UNCHANGED Gen!vars
  BY <1>5 DEF Gen!Terminated, Gen!vars, Swept, Gen!OneSweepPropagates
<1> QED
  BY <1>1, <1>2, <1>3, <1>4, <1>5 DEF Gen!Next

(***************************************************************************)
(* For estates of every size, every order and every dependency graph, one  *)
(* sweep in topological order makes the starts follow the dependencies.    *)
(***************************************************************************)
THEOREM OneSweepIsEnough == MainSpec => []OneSweepPropagates
<1>1. MainInit => Swept
  <2>1. Gen!Init => Swept
    <3> SUFFICES ASSUME Gen!Init PROVE Swept
      OBVIOUS
    <3>1. Gen!Delays \subseteq Int
      <4>1. Gen!Max({2, T \div 4}) \in Int
        <5>1. 2 \in Int /\ T \div 4 \in Int
          BY DrawAssumption
        <5> QED
          BY <5>1, LargerOf
      <4> QED
        BY <4>1 DEF Gen!Delays
    <3>2. /\ genPc = "propagate" /\ genPos = 1
          /\ order \in [1 .. N -> 1 .. N] /\ Gen!IsInjective(order)
          /\ deps \subseteq Gen!Forward(order)
          /\ earliest \in [1 .. N -> Gen!Delays]
      BY DEF Gen!Init, Gen!Assets
    <3>3. earliest \in [1 .. N -> Int]
      BY <3>1, <3>2
    <3>4. \A x \in 1 .. N : ~(x < genPos)
      BY <3>2
    <3> QED
      BY <3>2, <3>3, <3>4 DEF Swept, Gen!OneSweepPropagates
  <2>2. NoGen => Swept
    BY DEF NoGen, Swept, Gen!OneSweepPropagates
  <2> QED
    BY <2>1, <2>2 DEF MainInit
<1>2. Swept /\ [MainNext]_<<vars, solveVars, genVars>> => Swept'
  BY StepOfOne, SweptStep
<1>3. Swept => OneSweepPropagates
  BY DEF Swept, OneSweepPropagates
<1> QED
  BY <1>1, <1>2, <1>3, PTL DEF MainSpec

=============================================================================
