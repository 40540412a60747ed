--------------------------- MODULE RepairTheorems ---------------------------
(***************************************************************************)
(* RepairDB for any number of files, entries and calls: whatever fails and *)
(* wherever the process dies, whole tables stay, the descriptor lists what *)
(* is whole, and the first call loses nothing that could be read.          *)
(*                                                                         *)
(* The argument follows the numbers.  A copy gets a number above all that  *)
(* are in use, so it overwrites nothing; a table is archived only after    *)
(* its own copy was begun; and a listed table is not touched any more.     *)
(***************************************************************************)
EXTENDS Repair, FiniteSetTheorems, TLAPS

Intact(n) == Table(n) \in DOMAIN start /\ start[Table(n)].whole

\* A file of before is where it was, or has been archived.
InPlace(name) == name \in DOMAIN start /\ name \in DOMAIN files /\ files[name] = start[name]
InLost(name) ==
    name \in DOMAIN start /\ Lost(name) \in DOMAIN files /\ files[Lost(name)] = start[name]

\* The numbers of what RepairTable reads and of what it writes
Input == src.meta.number
Copy == src.copy[3]
Copying == pc \in {"copied", "archived", "finished"}

Tables == OfType("table")
Whole == {n \in Tables : files[Table(n)].whole}
Listed == {t.number : t \in tables_}

Dirs == {"db", "lost"}
Types == {"log", "table", "manifest", "temp", "current"}
Contained == [protected : BOOLEAN, entries : SUBSET Entries, whole : BOOLEAN]

\* The numbers that r calls use are no larger.
PerRun == Cardinality(Numbers) + MaxRuns
Bound(r) == Max(Numbers) + 1 + r * PerRun

\* What the database left is plain, and the first call finds it as it was.
StartInv ==
    /\ \A name \in DOMAIN start : name[2] \in {"log", "table"} =>
        /\ name[3] \in Numbers /\ name \in {Log(name[3]), Table(name[3])}
        /\ start[name] \in Contained /\ ~start[name].protected
    /\ runs \in 0 .. MaxRuns
    /\ runs = 0 => files = start /\ pc = "idle"

\* Names and what is in the files; numbers in use are below the next one.
NameInv ==
    \A name \in DOMAIN files :
        /\ name \in Dirs \X Types \X Nat /\ name[3] <= Bound(runs)
        /\ name[2] \in {"log", "table"} => files[name] \in Contained
        /\ name[1] = "db" /\ name[2] \in {"log", "table"} =>
            name[3] < IF pc = "idle" THEN Bound(runs) ELSE next_file_number_
        /\ name[1] = "db" /\ name[2] \in {"temp", "current"} => runs > 0 /\ name[3] <= 1

\* A death of the process leaves a copy more, and no call makes more copies than there
\* are tables.
CountInv ==
    /\ Cardinality(Tables) <=
        Cardinality(Numbers) + (IF pc = "idle" THEN runs ELSE runs - 1)
                             + (IF pc = "copied" THEN 1 ELSE 0)
    /\ pc # "idle" =>
        next_file_number_ + Cardinality(table_numbers_) <= Bound(runs)

\* The members of Repairer; a table is still to be scanned or is listed as it is.
RepairerInv ==
    /\ next_file_number_ \in Nat \ {0}
    /\ table_numbers_ \subseteq Tables /\ logs_ \subseteq OfType("log")
    /\ manifests_ \subseteq 0 .. Bound(runs)
    /\ \A t \in tables_ :
        /\ t.number \in Whole \ table_numbers_
        /\ t = TableInfo(t.number, files[Table(t.number)].entries)
    /\ pc = "idle" =>
        next_file_number_ = 1 /\ logs_ = {} /\ table_numbers_ = {} /\ manifests_ = {} /\ tables_ = {}

\* The table that is copied and its copy are none of those that are whole or listed.
CopyInv ==
    Copying =>
        /\ Input \in Nat \ Listed /\ Input < next_file_number_ /\ ~Intact(Input)
        /\ Copy \in Tables \ Listed /\ ~Intact(Copy)
        /\ Input # Copy /\ {Input, Copy} \cap table_numbers_ = {}
        /\ src.copy = Table(Copy) /\ src.meta = TableInfo(Input, src.entries)
        /\ src.entries \subseteq Entries
        /\ Input \in Tables <=> pc = "copied"
        /\ pc = "finished" => files[Table(Copy)] = Contents(TRUE, src.entries, TRUE)
        /\ pc # "finished" => ~files[Table(Copy)].whole

\* Whole tables of before stay, and are still to be scanned or listed.
IntactInv ==
    \A n \in Numbers : Intact(n) =>
        /\ Table(n) \in DOMAIN files /\ files[Table(n)] = start[Table(n)]
        /\ pc # "idle" =>
            n \in table_numbers_ \/ TableInfo(n, start[Table(n)].entries) \in tables_

\* The first call: what is not yet looked at is in its place, what was archived is in
\* lost/, and what is whole is listed.
FirstInv ==
    /\ runs <= 1 => \A name \in DOMAIN start :
        name[2] \in {"log", "table"} => InPlace(name) \/ InLost(name)
    /\ runs = 1 /\ pc # "idle" =>
        /\ \A n \in table_numbers_ : InPlace(Table(n))
        /\ \A n \in logs_ : InPlace(Log(n))
        /\ \A name \in DOMAIN start : name[2] = "table" => name[3] < next_file_number_
        /\ \A n \in Whole :
            n \in table_numbers_ \cup Listed \/ (pc = "finished" /\ n = Copy)
    /\ runs = 1 /\ Copying =>
        /\ Table(Copy) \notin DOMAIN start
        /\ IF pc = "copied" THEN InPlace(Table(Input)) ELSE InLost(Table(Input))

\* The descriptor on its way to its name
DescriptorInv ==
    /\ pc \in {"described", "installed", "named", "ok"} => logs_ = {} /\ table_numbers_ = {}
    /\ pc = "described" => Temp \in DOMAIN files /\ files[Temp] = [protected |-> TRUE, edit |-> Edit]
    /\ pc \in {"installed", "named", "ok"} =>
        /\ Manifest(1) \in DOMAIN files
        /\ files[Manifest(1)] = [protected |-> TRUE, edit |-> Edit]
    /\ pc = "named" =>
        Temp \in DOMAIN files /\ files[Temp] = [protected |-> FALSE, manifest |-> 1]
    /\ pc = "ok" =>
        Current \in DOMAIN files /\ files[Current] = [protected |-> FALSE, manifest |-> 1]

IInv ==
    /\ StartInv /\ NameInv /\ CountInv /\ RepairerInv
    /\ CopyInv /\ IntactInv /\ FirstInv /\ DescriptorInv
-----------------------------------------------------------------------------
(* Numbers *)

\* A set of numbers that is not empty has a least one.
LEMMA LeastNumber ==
    ASSUME NEW S \in SUBSET Nat, S # {}
    PROVE  \E n \in S : \A m \in S : n <= m
<1> DEFINE R == OpToRel(<, Nat)
<1>1. IsWellFoundedOn(R, Nat)  BY NatLessThanWellFounded
<1>2. PICK n \in S : \A m \in S : <<m, n>> \notin R
    <2> HIDE DEF R
    <2>1. QED  BY <1>1, WFMin
<1>3. \A m \in S : ~(m < n)  BY <1>2 DEF OpToRel
<1>4. QED  BY <1>3

\* Max of numbers with a bound
LEMMA MaxIs ==
    ASSUME NEW S \in SUBSET Nat, S # {}, NEW b \in Nat, \A n \in S : n <= b
    PROVE  Max(S) \in S /\ \A n \in S : n <= Max(S)
<1> DEFINE T == {k \in Nat : \E n \in S : k = b - n}
<1>1. \A n \in S : b - n \in T  OBVIOUS
<1>2. T \in SUBSET Nat /\ T # {}  BY <1>1
<1>3. \A k \in T : \E n \in S : k = b - n  OBVIOUS
<1> HIDE DEF T
<1>4. PICK k \in T : \A m \in T : k <= m  BY <1>2, LeastNumber
<1>5. PICK n \in S : k = b - n  BY <1>3
<1>6. \A m \in S : b - n <= b - m  BY <1>1, <1>4, <1>5
<1>7. \A m \in S : n >= m  BY <1>6
<1>8. Max(S) \in S /\ \A m \in S : Max(S) >= m  BY <1>7, Zenon DEF Max
<1>9. QED  BY <1>8

LEMMA NumbersAre ==
    /\ Max(Numbers) \in Nat /\ \A n \in Numbers : n \in Nat /\ n <= Max(Numbers)
    /\ IsFiniteSet(Numbers) /\ Cardinality(Numbers) \in Nat /\ PerRun \in Nat \ {0}
<1>1. PICK b \in Numbers : \A m \in Numbers : m <= b  BY RepairAssumption
<1>2. Numbers \in SUBSET Nat /\ b \in Nat  BY RepairAssumption
<1>3. Max(Numbers) \in Numbers /\ \A n \in Numbers : n <= Max(Numbers)  BY <1>1, <1>2, MaxIs
<1>4. IsFiniteSet(0 .. b)  BY <1>2, FS_Interval
<1>5. Numbers \subseteq 0 .. b  BY <1>1, <1>2
<1>6. IsFiniteSet(Numbers)  BY <1>4, <1>5, FS_Subset
<1>7. Cardinality(Numbers) \in Nat  BY <1>6, FS_CardinalityType
<1>8. PerRun \in Nat \ {0}  BY <1>7, RepairAssumption DEF PerRun
<1>9. QED  BY <1>2, <1>3, <1>6, <1>7, <1>8

LEMMA Products ==
    \A a \in Nat, k \in Nat : a * k \in Nat /\ (a + 1) * k = a * k + k
OBVIOUS

LEMMA ProductsGrow ==
    ASSUME NEW a \in Nat, NEW b \in Nat, NEW k \in Nat, a <= b
    PROVE  a * k <= b * k
<1>1. PICK d \in Nat : b = a + d  
    <2>1. b - a \in Nat /\ b = a + (b - a)  OBVIOUS
    <2>2. QED  BY <2>1
<1>2. b * k = a * k + d * k /\ a * k \in Nat /\ d * k \in Nat  BY <1>1
<1>3. QED  BY <1>2

LEMMA BoundsAre ==
    /\ Bound(0) = Max(Numbers) + 1
    /\ \A r \in Nat : /\ Bound(r) \in Nat \ {0} /\ Bound(r + 1) = Bound(r) + PerRun
                      /\ r > 0 => Bound(r) >= 2
                      /\ r <= MaxRuns => Bound(r) <= MaxNumber
<1>1. Bound(0) = Max(Numbers) + 1  BY NumbersAre DEF Bound
<1>2. ASSUME NEW r \in Nat
      PROVE  /\ Bound(r) \in Nat \ {0} /\ Bound(r + 1) = Bound(r) + PerRun
             /\ r > 0 => Bound(r) >= 2
             /\ r <= MaxRuns => Bound(r) <= MaxNumber
    <2>1. /\ PerRun \in Nat \ {0} /\ Max(Numbers) \in Nat /\ MaxRuns \in Nat
        BY NumbersAre, RepairAssumption
    <2>2. r * PerRun \in Nat /\ (r + 1) * PerRun = r * PerRun + PerRun  BY <2>1, Products
    <2>3. Bound(r) \in Nat \ {0} /\ Bound(r + 1) = Bound(r) + PerRun  BY <2>1, <2>2 DEF Bound
    <2>4. r > 0 => Bound(r) >= 2
        <3>1. SUFFICES ASSUME r > 0 PROVE Bound(r) >= 2  OBVIOUS
        <3>2. 1 * PerRun <= r * PerRun  BY <2>1, <3>1, ProductsGrow
        <3>3. QED  BY <2>1, <2>2, <3>2 DEF Bound
    <2>5. r <= MaxRuns => Bound(r) <= MaxNumber
        <3>1. SUFFICES ASSUME r <= MaxRuns PROVE Bound(r) <= MaxNumber  OBVIOUS
        <3>2. r * PerRun <= MaxRuns * PerRun /\ MaxRuns * PerRun \in Nat  BY <2>1, <3>1, ProductsGrow, Products
        <3>3. MaxNumber = Bound(MaxRuns)  BY DEF MaxNumber, Bound, PerRun
        <3>4. QED  BY <2>1, <2>2, <3>2, <3>3 DEF Bound
    <2>6. QED  BY <2>3, <2>4, <2>5
<1>3. QED  BY <1>1, <1>2
-----------------------------------------------------------------------------
(* Files and names *)

\* A step leaves a file as it is, or as absent as it is.
Untouched(name) ==
    /\ name \in DOMAIN files <=> name \in DOMAIN files'
    /\ name \in DOMAIN files => files'[name] = files[name]

LEMMA RenamedIs ==
    ASSUME NEW from, NEW to, from # to, files' = Renamed(from, to)
    PROVE  /\ \A name : name # from /\ name # to => Untouched(name)
           /\ from \notin DOMAIN files'
           /\ from \in DOMAIN files => to \in DOMAIN files' /\ files'[to] = files[from]
           /\ from \notin DOMAIN files => files' = files
           /\ DOMAIN files' \subseteq DOMAIN files \cup {to}
<1>1. CASE from \notin DOMAIN files
    <2>1. files' = files  BY <1>1 DEF Renamed
    <2>2. QED  BY <1>1, <2>1, Zenon DEF Untouched
<1>2. CASE from \in DOMAIN files
    <2>1. files' = [name \in (DOMAIN files \ {from}) \cup {to} |->
                        IF name = to THEN files[from] ELSE files[name]]
        BY <1>2 DEF Renamed
    <2>2. DOMAIN files' = (DOMAIN files \ {from}) \cup {to}  BY <2>1
    <2>3. files'[to] = files[from]  BY <2>1
    <2>4. \A name \in DOMAIN files' : name # to => files'[name] = files[name]  BY <2>1, <2>2
    <2>5. QED  BY <1>2, <2>2, <2>3, <2>4 DEF Untouched
<1>3. QED  BY <1>1, <1>2

LEMMA CreatedIs ==
    ASSUME NEW new, NEW contents, files' = Created(new, contents)
    PROVE  /\ \A name : name # new => Untouched(name)
           /\ DOMAIN files' = DOMAIN files \cup {new} /\ files'[new] = contents
<1>1. DOMAIN files' = DOMAIN files \cup {new}  BY DEF Created
<1>2. files'[new] = contents  BY DEF Created
<1>3. \A name \in DOMAIN files' : name # new => files'[name] = files[name]  BY DEF Created
<1>4. QED  BY <1>1, <1>2, <1>3 DEF Untouched

LEMMA DeletedIs ==
    ASSUME NEW old, files' = Deleted(old)
    PROVE  /\ \A name : name # old => Untouched(name)
           /\ DOMAIN files' = DOMAIN files \ {old}
<1>1. DOMAIN files' = DOMAIN files \ {old}  BY DEF Deleted
<1>2. \A name \in DOMAIN files' : files'[name] = files[name]  BY DEF Deleted
<1>3. QED  BY <1>1, <1>2 DEF Untouched

\* Names are different when their directory, type or number is.
LEMMA NamesApart ==
    /\ \A a, b : a # b => Table(a) # Table(b) /\ Log(a) # Log(b)
    /\ \A a, b : /\ Table(a) # Log(b) /\ Table(a) # Manifest(b) /\ Log(a) # Manifest(b)
                 /\ Table(a) # Temp /\ Table(a) # Current /\ Log(a) # Temp /\ Log(a) # Current
                 /\ Manifest(a) # Temp /\ Manifest(a) # Current
    /\ Temp # Current
    /\ \A a, b : Table(a)[1] = "db" /\ Table(a)[2] = "table" /\ Table(a)[3] = a
                 /\ Log(a)[1] = "db" /\ Log(a)[2] = "log" /\ Log(a)[3] = a
BY DEF Table, Log, Manifest, Temp, Current

LEMMA OfTypeIs ==
    /\ \A type, n : n \in OfType(type) <=> <<"db", type, n>> \in DOMAIN files
    /\ \A n : n \in Tables <=> Table(n) \in DOMAIN files
    /\ \A n : n \in OfType("log") <=> Log(n) \in DOMAIN files
<1>1. \A type, n : <<"db", type, n>>[3] = n  OBVIOUS
<1>2. \A type, n : n \in OfType(type) <=> <<"db", type, n>> \in DOMAIN files
    BY <1>1 DEF OfType
<1>3. QED  BY <1>2 DEF Table, Log, Tables

LEMMA OfTypePrimed ==
    /\ \A n : n \in Tables' <=> Table(n) \in DOMAIN files'
    /\ \A n : n \in OfType("log")' <=> Log(n) \in DOMAIN files'
<1>1. (/\ \A n : n \in Tables <=> Table(n) \in DOMAIN files
       /\ \A n : n \in OfType("log") <=> Log(n) \in DOMAIN files)'
    BY OfTypeIs, PTL
<1>2. QED  BY <1>1, Zenon

LEMMA InfoIs ==
    ASSUME NEW n, NEW entries \in SUBSET Entries
    PROVE  /\ TableInfo(n, entries).number = n
           /\ TableInfo(n, entries).max_sequence \in Nat
           /\ \E e \in Entries : TableInfo(n, entries).max_sequence <= e[2]
<1> DEFINE S == {0} \cup {e[2] : e \in entries}
<1>1. PICK last \in Entries : \A d \in Entries : d[2] <= last[2]  BY RepairAssumption
<1>2. last[2] \in Nat /\ \A e \in entries : e[2] \in Nat /\ e[2] <= last[2]  BY <1>1, RepairAssumption
<1>3. S \in SUBSET Nat /\ S # {} /\ \A k \in S : k <= last[2]  BY <1>2
<1>4. TableInfo(n, entries).number = n /\ TableInfo(n, entries).max_sequence = Max(S)
    BY DEF TableInfo
<1> HIDE DEF S
<1>5. Max(S) \in S  BY <1>2, <1>3, MaxIs
<1>6. QED  BY <1>2, <1>3, <1>4, <1>5
-----------------------------------------------------------------------------
(* The beginning *)

LEMMA InitHolds == Init => IInv
<1>1. SUFFICES ASSUME Init PROVE IInv  OBVIOUS
<1>2. PICK tables \in SUBSET Numbers, logs \in SUBSET Numbers :
        \E readable \in [tables -> SUBSET Entries], whole \in [tables -> BOOLEAN],
              described \in {{}, {1}, {1, Max(Numbers) + 1}} :
            start = Left(tables, logs, described, readable, whole)
    BY <1>1 DEF Init
<1>3. PICK readable \in [tables -> SUBSET Entries], whole \in [tables -> BOOLEAN],
           described \in {{}, {1}, {1, Max(Numbers) + 1}} :
            start = Left(tables, logs, described, readable, whole)
    BY <1>2, Zenon
<1>4. /\ files = start /\ runs = 0 /\ logs_ = {} /\ table_numbers_ = {} /\ manifests_ = {}
      /\ tables_ = {} /\ next_file_number_ = 1 /\ pc = "idle"
    BY <1>1 DEF Init
<1>5. DOMAIN start = {Table(n) : n \in tables} \cup {Log(n) : n \in logs}
                     \cup {Manifest(n) : n \in described}
    BY <1>3 DEF Left
<1>6. ASSUME NEW n \in tables
      PROVE  start[Table(n)] = Contents(FALSE, readable[n], whole[n])
    <2>1. Table(n) \in DOMAIN start /\ Table(n)[2] = "table" /\ Table(n)[3] = n  BY <1>5, NamesApart
    <2>2. QED  BY <1>3, <1>5, <2>1 DEF Left
<1>7. ASSUME NEW n \in logs
      PROVE  start[Log(n)] = Contents(FALSE, Entries, TRUE)
    <2>1. Log(n) \in DOMAIN start /\ Log(n)[2] = "log" /\ Log(n)[2] # "table"  BY <1>5, NamesApart
    <2>2. QED  BY <1>3, <1>5, <2>1 DEF Left
<1>8. ASSUME NEW name \in DOMAIN start
      PROVE  \/ \E n \in tables : name = Table(n)
             \/ \E n \in logs : name = Log(n)
             \/ \E n \in described : name = Manifest(n)
    BY <1>5
<1>9. \A n \in described : n \in Nat /\ n <= Max(Numbers) + 1  BY NumbersAre
<1>10. \A n \in described : Manifest(n)[1] = "db" /\ Manifest(n)[2] = "manifest" /\ Manifest(n)[3] = n
    BY DEF Manifest
<1>11. ASSUME NEW name \in DOMAIN start, name[2] \in {"log", "table"}
       PROVE  /\ name[3] \in Numbers /\ name \in {Log(name[3]), Table(name[3])}
              /\ start[name] \in Contained /\ ~start[name].protected
    <2>1. CASE \E n \in tables : name = Table(n)
        <3>1. PICK n \in tables : name = Table(n)  BY <2>1
        <3>2. n \in Numbers /\ readable[n] \in SUBSET Entries /\ whole[n] \in BOOLEAN  OBVIOUS
        <3>3. Contents(FALSE, readable[n], whole[n]) \in Contained
            BY <3>2 DEF Contents, Contained
        <3>4. QED  BY <1>6, <3>1, <3>2, <3>3, NamesApart DEF Contents
    <2>2. CASE \E n \in logs : name = Log(n)
        <3>1. PICK n \in logs : name = Log(n)  BY <2>2
        <3>2. Contents(FALSE, Entries, TRUE) \in Contained  BY DEF Contents, Contained
        <3>3. QED  BY <1>7, <3>1, <3>2, NamesApart DEF Contents
    <2>3. QED  BY <1>8, <1>10, <1>11, <2>1, <2>2
<1>12. StartInv  BY <1>4, <1>11, RepairAssumption DEF StartInv
<1>13. NameInv
    <2>1. SUFFICES ASSUME NEW name \in DOMAIN start
                   PROVE  /\ name \in Dirs \X Types \X Nat /\ name[3] <= Bound(0)
                          /\ name[2] \in {"log", "table"} => start[name] \in Contained
                          /\ name[1] = "db" /\ name[2] \in {"log", "table"} => name[3] < Bound(0)
                          /\ name[2] \notin {"temp", "current"}
        BY <1>4 DEF NameInv
    <2>2. \A n \in Numbers : n \in Nat /\ n < Bound(0)  BY NumbersAre, BoundsAre
    <2>3. CASE \E n \in tables : name = Table(n)
        <3>1. PICK n \in tables : name = Table(n)  BY <2>3
        <3>2. n \in Nat /\ n < Bound(0) /\ Bound(0) \in Nat  BY <2>2, BoundsAre
        <3>3. QED  BY <1>11, <3>1, <3>2 DEF Table, Dirs, Types
    <2>4. CASE \E n \in logs : name = Log(n)
        <3>1. PICK n \in logs : name = Log(n)  BY <2>4
        <3>2. n \in Nat /\ n < Bound(0) /\ Bound(0) \in Nat  BY <2>2, BoundsAre
        <3>3. QED  BY <1>11, <3>1, <3>2 DEF Log, Dirs, Types
    <2>5. CASE \E n \in described : name = Manifest(n)
        <3>1. PICK n \in described : name = Manifest(n)  BY <2>5
        <3>2. n \in Nat /\ n <= Bound(0)  BY <1>9, BoundsAre
        <3>3. QED  BY <3>1, <3>2 DEF Manifest, Dirs, Types
    <2>6. QED  BY <1>8, <2>3, <2>4, <2>5
<1>14. CountInv
    <2>1. Tables \subseteq Numbers
        <3>1. ASSUME NEW n \in Tables PROVE n \in Numbers
            <4>1. Table(n) \in DOMAIN start  BY <1>4, OfTypeIs
            <4>2. QED  BY <1>11, <4>1, NamesApart
        <3>2. QED  BY <3>1
    <2>2. Cardinality(Tables) <= Cardinality(Numbers) /\ Cardinality(Tables) \in Nat
        BY <2>1, NumbersAre, FS_Subset, FS_CardinalityType
    <2>3. QED  BY <1>4, <2>2, NumbersAre DEF CountInv
<1>15. RepairerInv  BY <1>4 DEF RepairerInv
<1>16. CopyInv /\ DescriptorInv  BY <1>4 DEF CopyInv, Copying, DescriptorInv
<1>17. IntactInv  BY <1>4 DEF IntactInv, Intact
<1>18. FirstInv  BY <1>4 DEF FirstInv, InPlace, Copying
<1>19. QED  BY <1>12, <1>13, <1>14, <1>15, <1>16, <1>17, <1>18 DEF IInv
-----------------------------------------------------------------------------
(* Steps that touch neither tables nor logs *)

\* A step that adds one file, with a number that may be used.
LEMMA NameKept ==
    ASSUME NameInv, pc # "idle", pc' # "idle", runs' = runs,
           next_file_number_ \in Nat, next_file_number_' \in Nat,
           next_file_number_ <= next_file_number_',
           NEW new, DOMAIN files' \subseteq DOMAIN files \cup {new},
           \A name \in DOMAIN files' : name # new => Untouched(name),
           new \in DOMAIN files' =>
              /\ new \in Dirs \X Types \X Nat /\ new[3] <= Bound(runs)
              /\ new[2] \in {"log", "table"} => files'[new] \in Contained
              /\ new[1] = "db" /\ new[2] \in {"log", "table"} => new[3] < next_file_number_'
              /\ new[1] = "db" /\ new[2] \in {"temp", "current"} => runs > 0 /\ new[3] <= 1
    PROVE  NameInv'
<1>1. SUFFICES ASSUME NEW name \in DOMAIN files'
               PROVE  /\ name \in Dirs \X Types \X Nat /\ name[3] <= Bound(runs)
                      /\ name[2] \in {"log", "table"} => files'[name] \in Contained
                      /\ name[1] = "db" /\ name[2] \in {"log", "table"} => name[3] < next_file_number_'
                      /\ name[1] = "db" /\ name[2] \in {"temp", "current"} => runs > 0 /\ name[3] <= 1
    BY DEF NameInv, Dirs, Types, Contained, Bound, PerRun
<1>2. CASE name = new  BY <1>2
<1>3. CASE name # new
    <2>1. name \in DOMAIN files /\ files'[name] = files[name]  BY <1>1, <1>3 DEF Untouched
    <2>2. /\ name \in Dirs \X Types \X Nat /\ name[3] <= Bound(runs)
          /\ name[2] \in {"log", "table"} => files[name] \in Contained
          /\ name[1] = "db" /\ name[2] \in {"log", "table"} => name[3] < next_file_number_
          /\ name[1] = "db" /\ name[2] \in {"temp", "current"} => runs > 0 /\ name[3] <= 1
        BY <2>1 DEF NameInv
    <2>3. name[3] \in Nat  BY <2>2
    <2>4. QED  BY <2>1, <2>2, <2>3
<1>4. QED  BY <1>2, <1>3

\* Finitely many tables are in the directory, and to be scanned.
LEMMA NumbersFinite ==
    ASSUME StartInv, NameInv, RepairerInv
    PROVE  /\ IsFiniteSet(Tables) /\ Cardinality(Tables) \in Nat /\ Tables \subseteq Nat
           /\ IsFiniteSet(table_numbers_) /\ Cardinality(table_numbers_) \in Nat
<1>1. Tables \subseteq 0 .. Bound(runs)
    <2>1. ASSUME NEW n \in Tables PROVE n \in 0 .. Bound(runs)
        <3>1. Table(n) \in DOMAIN files /\ Table(n)[3] = n  BY OfTypeIs, NamesApart
        <3>2. Table(n)[3] \in Nat /\ Table(n)[3] <= Bound(runs)  BY <3>1 DEF NameInv
        <3>3. Bound(runs) \in Nat  BY BoundsAre DEF StartInv
        <3>4. QED  BY <3>1, <3>2, <3>3
    <2>2. QED  BY <2>1
<1>2. IsFiniteSet(0 .. Bound(runs))
    <2>1. Bound(runs) \in Int /\ 0 \in Int  BY BoundsAre DEF StartInv
    <2>2. QED  BY <2>1, FS_Interval
<1>3. IsFiniteSet(Tables)  BY <1>1, <1>2, FS_Subset
<1>4. table_numbers_ \subseteq Tables  BY DEF RepairerInv
<1>5. IsFiniteSet(table_numbers_)  BY <1>3, <1>4, FS_Subset
<1>6. QED  BY <1>1, <1>3, <1>5, FS_CardinalityType

\* Tables, logs and lost/ are left alone.
DataSame ==
    \A n : /\ Untouched(Table(n)) /\ Untouched(Log(n))
           /\ Untouched(Lost(Table(n))) /\ Untouched(Lost(Log(n)))

LEMMA SameSets ==
    ASSUME DataSame
    PROVE  /\ Tables' = Tables /\ OfType("log")' = OfType("log") /\ Whole' = Whole
           /\ \A n \in Tables : files'[Table(n)] = files[Table(n)]
<1>1. /\ \A n : n \in Tables' <=> n \in Tables
      /\ \A n : n \in OfType("log")' <=> n \in OfType("log")
    <2>1. /\ \A n : n \in Tables <=> Table(n) \in DOMAIN files
          /\ \A n : n \in OfType("log") <=> Log(n) \in DOMAIN files
        BY OfTypeIs
    <2>2. /\ \A n : n \in Tables' <=> Table(n) \in DOMAIN files'
          /\ \A n : n \in OfType("log")' <=> Log(n) \in DOMAIN files'
        BY OfTypePrimed
    <2>3. QED  BY <2>1, <2>2 DEF DataSame, Untouched
<1>2. Tables' = Tables /\ OfType("log")' = OfType("log")  BY <1>1
<1>3. \A n \in Tables : files'[Table(n)] = files[Table(n)]
    BY OfTypeIs DEF DataSame, Untouched
<1>4. Whole' = Whole  BY <1>2, <1>3 DEF Whole
<1>5. QED  BY <1>2, <1>3, <1>4

LEMMA FirstSame ==
    ASSUME StartInv, DataSame, start' = start, NEW name \in DOMAIN start, name[2] \in {"log", "table"}
    PROVE  (InPlace(name) => InPlace(name)') /\ (InLost(name) => InLost(name)')
<1>1. name \in {Log(name[3]), Table(name[3])}  BY DEF StartInv
<1>2. Untouched(name) /\ Untouched(Lost(name))  BY <1>1 DEF DataSame
<1>3. QED  BY <1>2 DEF InPlace, InLost, Untouched

LEMMA QuietStep ==
    ASSUME IInv, pc \notin {"idle", "copied", "archived", "finished"},
           pc' \notin {"idle", "copied", "archived", "finished"},
           UNCHANGED <<start, runs, logs_, table_numbers_, tables_, next_file_number_, src>>,
           manifests_' \subseteq manifests_, DataSame
    PROVE  /\ StartInv' /\ CountInv' /\ RepairerInv' /\ CopyInv' /\ IntactInv' /\ FirstInv'
           /\ Edit' = Edit
<1>1. /\ Tables' = Tables /\ OfType("log")' = OfType("log") /\ Whole' = Whole
      /\ \A n \in Tables : files'[Table(n)] = files[Table(n)]
    BY SameSets
<1>2. StartInv'  BY DEF IInv, StartInv
<1>3. CountInv'  BY <1>1 DEF IInv, CountInv, Bound, PerRun
<1>4. RepairerInv'
    <2>1. \A t \in tables_ : files'[Table(t.number)] = files[Table(t.number)]
        BY <1>1 DEF IInv, RepairerInv, Whole
    <2>2. \A t \in tables_ : t.number \in Whole \ table_numbers_
                             /\ t = TableInfo(t.number, files[Table(t.number)].entries)
        BY DEF IInv, RepairerInv
    <2>3. \A t \in tables_ : t.number \in Whole' \ table_numbers_
                             /\ t = TableInfo(t.number, files'[Table(t.number)].entries)
        BY <1>1, <2>1, <2>2
    <2>4. /\ next_file_number_ \in Nat \ {0} /\ table_numbers_ \subseteq Tables
          /\ logs_ \subseteq OfType("log") /\ manifests_ \subseteq 0 .. Bound(runs)
        BY DEF IInv, RepairerInv
    <2>5. QED  BY <1>1, <2>3, <2>4 DEF RepairerInv
<1>5. CopyInv'  BY DEF CopyInv, Copying
<1>6. IntactInv'
    BY DEF IInv, IntactInv, Intact, DataSame, Untouched
<1>7. FirstInv'
    <2>1. runs <= 1 => \A name \in DOMAIN start :
            name[2] \in {"log", "table"} => InPlace(name)' \/ InLost(name)'
        BY FirstSame DEF IInv, FirstInv
    <2>2. ASSUME runs = 1
          PROVE  /\ \A n \in table_numbers_ : InPlace(Table(n))'
                 /\ \A n \in logs_ : InPlace(Log(n))'
                 /\ \A name \in DOMAIN start : name[2] = "table" => name[3] < next_file_number_
                 /\ \A n \in Whole : n \in table_numbers_ \cup Listed
        <3>1. /\ \A n \in table_numbers_ : InPlace(Table(n))
              /\ \A n \in logs_ : InPlace(Log(n))
              /\ \A name \in DOMAIN start : name[2] = "table" => name[3] < next_file_number_
              /\ \A n \in Whole : n \in table_numbers_ \cup Listed
            BY <2>2 DEF IInv, FirstInv
        <3>2. \A n \in table_numbers_ : InPlace(Table(n))'
            BY <3>1, FirstSame, NamesApart DEF IInv, InPlace
        <3>3. \A n \in logs_ : InPlace(Log(n))'
            BY <3>1, FirstSame, NamesApart DEF IInv, InPlace
        <3>4. QED  BY <3>1, <3>2, <3>3
    <2>3. Listed' = Listed /\ ~Copying'  BY DEF Listed, Copying
    <2>4. QED  BY <1>1, <2>1, <2>2, <2>3 DEF FirstInv
<1>8. Edit' = Edit  BY DEF Edit
<1>9. QED  BY <1>2, <1>3, <1>4, <1>5, <1>6, <1>7, <1>8

LEMMA WriteDescriptorStep == ASSUME IInv, WriteDescriptor PROVE IInv'
<1>1. /\ pc = "run" /\ logs_ = {} /\ table_numbers_ = {} /\ UNCHANGED <<start, runs, repairer>>
      /\ \/ files' = Created(Temp, [protected |-> TRUE, edit |-> Edit]) /\ pc' = "described"
         \/ files' \in {files, Deleted(Temp)} /\ pc' = "failed"
    BY DEF WriteDescriptor
<1>2. UNCHANGED <<logs_, table_numbers_, manifests_, tables_, next_file_number_, src>>
    BY <1>1 DEF repairer
<1>3. /\ \A name : name # Temp => Untouched(name)
      /\ DOMAIN files' \subseteq DOMAIN files \cup {Temp}
    BY <1>1, CreatedIs, DeletedIs DEF Untouched
<1>4. DataSame
    <2>1. \A n : Table(n) # Temp /\ Log(n) # Temp /\ Lost(Table(n)) # Temp /\ Lost(Log(n)) # Temp
        BY NamesApart DEF Lost, Table, Log, Temp
    <2>2. QED  BY <1>3, <2>1, Zenon DEF DataSame
<1>5. /\ StartInv' /\ CountInv' /\ RepairerInv' /\ CopyInv' /\ IntactInv' /\ FirstInv' /\ Edit' = Edit
    BY <1>1, <1>2, <1>4, QuietStep
<1>6. NameInv'
    <2>1. runs > 0 /\ runs \in Nat /\ 1 <= Bound(runs)
        BY <1>1, BoundsAre DEF IInv, StartInv
    <2>2. Temp \in Dirs \X Types \X Nat /\ Temp[2] = "temp" /\ Temp[3] = 1
        BY DEF Temp, Dirs, Types
    <2>3. QED  BY <1>1, <1>2, <1>3, <2>1, <2>2, NameKept DEF IInv, RepairerInv
<1>7. DescriptorInv'
    <2>1. CASE files' = Created(Temp, [protected |-> TRUE, edit |-> Edit]) /\ pc' = "described"
        <3>1. Temp \in DOMAIN files' /\ files'[Temp] = [protected |-> TRUE, edit |-> Edit]
            BY <2>1, CreatedIs
        <3>2. QED  BY <1>1, <1>2, <1>5, <2>1, <3>1 DEF DescriptorInv, Temp
    <2>2. CASE pc' = "failed"  BY <2>2 DEF DescriptorInv
    <2>3. QED  BY <1>1, <2>1, <2>2
<1>8. QED  BY <1>5, <1>6, <1>7 DEF IInv

LEMMA ArchiveManifestStep == ASSUME IInv, NEW n \in 0 .. MaxNumber, ArchiveManifest(n) PROVE IInv'
<1>1. /\ pc = "described" /\ pc' = pc /\ n \in manifests_ /\ manifests_' = manifests_ \ {n}
      /\ files' = Renamed(Manifest(n), Lost(Manifest(n)))
      /\ UNCHANGED <<start, runs, logs_, table_numbers_, tables_, next_file_number_, src>>
    BY DEF ArchiveManifest, ArchiveFile
<1>2. Manifest(n) # Lost(Manifest(n)) /\ Manifest(n) # Temp /\ Lost(Manifest(n)) # Temp
    BY DEF Lost, Manifest, Temp
<1>3. /\ \A name : name # Manifest(n) /\ name # Lost(Manifest(n)) => Untouched(name)
      /\ Manifest(n) \notin DOMAIN files'
      /\ DOMAIN files' \subseteq DOMAIN files \cup {Lost(Manifest(n))}
    BY <1>1, <1>2, RenamedIs
<1>4. DataSame
    <2>1. \A k : /\ Table(k) # Manifest(n) /\ Log(k) # Manifest(n)
                 /\ Lost(Table(k)) # Manifest(n) /\ Lost(Log(k)) # Manifest(n)
                 /\ Table(k) # Lost(Manifest(n)) /\ Log(k) # Lost(Manifest(n))
                 /\ Lost(Table(k)) # Lost(Manifest(n)) /\ Lost(Log(k)) # Lost(Manifest(n))
        BY DEF Lost, Table, Log, Manifest
    <2>2. QED  BY <1>3, <2>1, Zenon DEF DataSame
<1>5. /\ StartInv' /\ CountInv' /\ RepairerInv' /\ CopyInv' /\ IntactInv' /\ FirstInv' /\ Edit' = Edit
    BY <1>1, <1>4, QuietStep
<1>6. NameInv'
    <2>1. Lost(Manifest(n)) = <<"lost", "manifest", n>>  BY DEF Lost, Manifest
    <2>2. n \in Nat /\ n <= Bound(runs)  BY <1>1 DEF IInv, RepairerInv
    <2>3. /\ Lost(Manifest(n)) \in Dirs \X Types \X Nat /\ Lost(Manifest(n))[3] = n
          /\ Lost(Manifest(n))[1] = "lost" /\ Lost(Manifest(n))[2] = "manifest"
        BY <2>1, <2>2 DEF Dirs, Types
    <2>4. \A name \in DOMAIN files' : name # Lost(Manifest(n)) => Untouched(name)  BY <1>3
    <2>5. QED  BY <1>1, <1>3, <2>2, <2>3, <2>4, NameKept DEF IInv, RepairerInv
<1>7. DescriptorInv'
    <2>1. Untouched(Temp)  BY <1>2, <1>3
    <2>2. Temp' = Temp  BY DEF Temp
    <2>3. QED  BY <1>1, <1>5, <2>1, <2>2 DEF IInv, DescriptorInv, Untouched
<1>8. QED  BY <1>5, <1>6, <1>7 DEF IInv

LEMMA InstallManifestStep == ASSUME IInv, InstallManifest PROVE IInv'
<1>1. /\ pc = "described" /\ pc' = "installed" /\ files' = Renamed(Temp, Manifest(1))
      /\ UNCHANGED <<start, runs, repairer>>
    BY DEF InstallManifest
<1>2. UNCHANGED <<logs_, table_numbers_, manifests_, tables_, next_file_number_, src>>
    BY <1>1 DEF repairer
<1>3. Temp # Manifest(1) /\ Temp \in DOMAIN files /\ files[Temp] = [protected |-> TRUE, edit |-> Edit]
    BY <1>1, NamesApart DEF IInv, DescriptorInv
<1>4. /\ \A name : name # Temp /\ name # Manifest(1) => Untouched(name)
      /\ Temp \notin DOMAIN files' /\ DOMAIN files' \subseteq DOMAIN files \cup {Manifest(1)}
      /\ Manifest(1) \in DOMAIN files' /\ files'[Manifest(1)] = files[Temp]
    BY <1>1, <1>3, RenamedIs
<1>5. DataSame
    <2>1. \A k : /\ Table(k) # Temp /\ Log(k) # Temp /\ Lost(Table(k)) # Temp /\ Lost(Log(k)) # Temp
                 /\ Table(k) # Manifest(1) /\ Log(k) # Manifest(1)
                 /\ Lost(Table(k)) # Manifest(1) /\ Lost(Log(k)) # Manifest(1)
        BY DEF Lost, Table, Log, Manifest, Temp
    <2>2. QED  BY <1>4, <2>1, Zenon DEF DataSame
<1>6. /\ StartInv' /\ CountInv' /\ RepairerInv' /\ CopyInv' /\ IntactInv' /\ FirstInv' /\ Edit' = Edit
    BY <1>1, <1>2, <1>5, QuietStep
<1>7. NameInv'
    <2>1. runs \in Nat /\ 1 <= Bound(runs)  BY BoundsAre DEF IInv, StartInv
    <2>2. /\ Manifest(1) \in Dirs \X Types \X Nat /\ Manifest(1)[2] = "manifest" /\ Manifest(1)[3] = 1
        BY DEF Manifest, Dirs, Types
    <2>3. \A name \in DOMAIN files' : name # Manifest(1) => Untouched(name)  BY <1>4
    <2>4. QED  BY <1>1, <1>2, <1>4, <2>1, <2>2, <2>3, NameKept DEF IInv, RepairerInv
<1>8. DescriptorInv'
    BY <1>1, <1>2, <1>3, <1>4, <1>6 DEF IInv, DescriptorInv, Manifest
<1>9. QED  BY <1>6, <1>7, <1>8 DEF IInv

LEMMA SetCurrentFileStep == ASSUME IInv, SetCurrentFile PROVE IInv'
<1>1. /\ UNCHANGED <<start, runs, repairer>>
      /\ \/ /\ pc = "installed" /\ pc' = "named"
            /\ files' = Created(Temp, [protected |-> FALSE, manifest |-> 1])
         \/ pc = "installed" /\ pc' = "failed" /\ files' = Deleted(Temp)
         \/ pc = "named" /\ pc' = "ok" /\ files' = Renamed(Temp, Current)
    BY DEF SetCurrentFile
<1>2. UNCHANGED <<logs_, table_numbers_, manifests_, tables_, next_file_number_, src>>
    BY <1>1 DEF repairer
<1>3. Temp # Current /\ pc \in {"installed", "named"} /\ pc' \in {"named", "failed", "ok"}
    BY <1>1, NamesApart
<1>4. \A name : name # Temp /\ name # Current => Untouched(name)
    BY <1>1, <1>3, RenamedIs, CreatedIs, DeletedIs
<1>5. DataSame /\ Untouched(Manifest(1))
    <2>1. \A k : /\ Table(k) # Temp /\ Log(k) # Temp /\ Lost(Table(k)) # Temp /\ Lost(Log(k)) # Temp
                 /\ Table(k) # Current /\ Log(k) # Current
                 /\ Lost(Table(k)) # Current /\ Lost(Log(k)) # Current
                 /\ Manifest(k) # Temp /\ Manifest(k) # Current
        BY DEF Lost, Table, Log, Manifest, Temp, Current
    <2>2. QED  BY <1>4, <2>1, Zenon DEF DataSame
<1>6. /\ StartInv' /\ CountInv' /\ RepairerInv' /\ CopyInv' /\ IntactInv' /\ FirstInv' /\ Edit' = Edit
    BY <1>2, <1>3, <1>5, <1>1, QuietStep
<1>7. runs \in Nat /\ runs > 0 /\ 1 <= Bound(runs)
    BY <1>3, BoundsAre DEF IInv, StartInv
<1>8. /\ Temp \in Dirs \X Types \X Nat /\ Temp[2] = "temp" /\ Temp[3] = 1
      /\ Current \in Dirs \X Types \X Nat /\ Current[2] = "current" /\ Current[3] = 0
    BY DEF Temp, Current, Dirs, Types
<1>9. /\ Manifest(1) \in DOMAIN files' /\ files'[Manifest(1)] = [protected |-> TRUE, edit |-> Edit]
      /\ logs_ = {} /\ table_numbers_ = {}
    BY <1>3, <1>5 DEF IInv, DescriptorInv, Untouched
<1>10. CASE pc' = "named" /\ files' = Created(Temp, [protected |-> FALSE, manifest |-> 1])
    <2>1. /\ \A name : name # Temp => Untouched(name)
          /\ DOMAIN files' = DOMAIN files \cup {Temp}
          /\ files'[Temp] = [protected |-> FALSE, manifest |-> 1]
        BY <1>10, CreatedIs
    <2>2. NameInv'
        BY <1>1, <1>2, <1>3, <1>7, <1>8, <2>1, NameKept DEF IInv, RepairerInv
    <2>3. DescriptorInv'
        BY <1>2, <1>6, <1>9, <1>10, <2>1 DEF DescriptorInv, Temp, Manifest
    <2>4. QED  BY <1>6, <2>2, <2>3 DEF IInv
<1>11. CASE pc' = "failed" /\ files' = Deleted(Temp)
    <2>1. /\ \A name : name # Temp => Untouched(name)
          /\ DOMAIN files' = DOMAIN files \ {Temp}
        BY <1>11, DeletedIs
    <2>2. NameInv'
        BY <1>1, <1>2, <1>3, <1>7, <1>8, <2>1, NameKept DEF IInv, RepairerInv
    <2>3. DescriptorInv'  BY <1>11 DEF DescriptorInv
    <2>4. QED  BY <1>6, <2>2, <2>3 DEF IInv
<1>12. CASE pc = "named" /\ pc' = "ok" /\ files' = Renamed(Temp, Current)
    <2>1. Temp \in DOMAIN files /\ files[Temp] = [protected |-> FALSE, manifest |-> 1]
        BY <1>12 DEF IInv, DescriptorInv
    <2>2. /\ Temp \notin DOMAIN files' /\ DOMAIN files' \subseteq DOMAIN files \cup {Current}
          /\ Current \in DOMAIN files' /\ files'[Current] = files[Temp]
        BY <1>3, <1>12, <2>1, RenamedIs
    <2>3. \A name \in DOMAIN files' : name # Current => Untouched(name)  BY <1>4, <2>2
    <2>4. 0 <= Bound(runs)  BY <1>7, BoundsAre
    <2>5. NameInv'
        BY <1>1, <1>2, <1>3, <1>7, <1>8, <2>2, <2>3, <2>4, NameKept DEF IInv, RepairerInv
    <2>6. DescriptorInv'
        BY <1>2, <1>6, <1>9, <1>12, <2>1, <2>2 DEF DescriptorInv, Current, Manifest
    <2>7. QED  BY <1>6, <2>5, <2>6 DEF IInv
<1>13. QED  BY <1>1, <1>10, <1>11, <1>12

\* A death of the process leaves the files, with numbers below those of the next call.
LEMMA ExitStep == ASSUME IInv, Exit PROVE IInv'
<1>1. /\ pc # "idle" /\ pc' = "idle" /\ UNCHANGED <<files, start, runs>>
      /\ logs_' = {} /\ table_numbers_' = {} /\ manifests_' = {} /\ tables_' = {}
      /\ next_file_number_' = 1
    BY DEF Exit, NewRepairer
<1>2. runs \in Nat /\ runs > 0  BY <1>1 DEF IInv, StartInv
<1>3. StartInv'  BY <1>1, <1>2 DEF IInv, StartInv
<1>4. CopyInv' /\ DescriptorInv' /\ RepairerInv'
    BY <1>1 DEF CopyInv, Copying, DescriptorInv, RepairerInv
<1>5. IntactInv'  BY <1>1 DEF IInv, IntactInv, Intact
<1>6. FirstInv'
    <2>1. \A name : (InPlace(name)' <=> InPlace(name)) /\ (InLost(name)' <=> InLost(name))
        BY <1>1 DEF InPlace, InLost
    <2>2. QED  BY <1>1, <2>1 DEF IInv, FirstInv, Copying
<1>7. IsFiniteSet(table_numbers_) /\ Cardinality(table_numbers_) \in Nat  BY NumbersFinite DEF IInv
<1>8. next_file_number_ <= Bound(runs)
    BY <1>1, <1>2, <1>7, BoundsAre DEF IInv, CountInv, RepairerInv
<1>9. NameInv'
    <2>1. SUFFICES ASSUME NEW name \in DOMAIN files
                   PROVE  /\ name \in Dirs \X Types \X Nat /\ name[3] <= Bound(runs)
                          /\ name[2] \in {"log", "table"} => files[name] \in Contained
                          /\ name[1] = "db" /\ name[2] \in {"log", "table"} => name[3] < Bound(runs)
                          /\ name[1] = "db" /\ name[2] \in {"temp", "current"} => runs > 0 /\ name[3] <= 1
        BY <1>1 DEF NameInv
    <2>2. /\ name \in Dirs \X Types \X Nat /\ name[3] <= Bound(runs)
          /\ name[2] \in {"log", "table"} => files[name] \in Contained
          /\ name[1] = "db" /\ name[2] \in {"log", "table"} => name[3] < next_file_number_
          /\ name[1] = "db" /\ name[2] \in {"temp", "current"} => runs > 0 /\ name[3] <= 1
        BY <1>1 DEF IInv, NameInv
    <2>3. name[3] \in Nat /\ Bound(runs) \in Nat /\ next_file_number_ \in Nat
        BY <1>2, <2>2, BoundsAre DEF IInv, RepairerInv
    <2>4. QED  BY <1>8, <2>2, <2>3
<1>10. CountInv'
    <2>1. Tables' = Tables  BY <1>1 DEF Tables, OfType
    <2>2. Cardinality(Tables) \in Nat  BY NumbersFinite DEF IInv
    <2>3. QED  BY <1>1, <1>2, <2>1, <2>2, NumbersAre DEF IInv, CountInv
<1>11. QED  BY <1>3, <1>4, <1>5, <1>6, <1>9, <1>10 DEF IInv
-----------------------------------------------------------------------------
(* FindFiles *)

\* The next number is above those of all tables and logs, and within the bound of the
\* calls so far.
LEMMA NextIs ==
    ASSUME StartInv, NameInv, pc = "idle", NEW next,
           next = Max({1} \cup {name[3] + 1 :
                    name \in {x \in DOMAIN files : x[1] = "db" /\ x[2] # "manifest"}})
    PROVE  /\ next \in Nat \ {0} /\ next <= Bound(runs)
           /\ \A name \in DOMAIN files :
                name[1] = "db" /\ name[2] \in {"log", "table"} => name[3] < next
<1> DEFINE N == {x \in DOMAIN files : x[1] = "db" /\ x[2] # "manifest"}
           S == {1} \cup {name[3] + 1 : name \in N}
<1>1. runs \in Nat /\ Bound(runs) \in Nat /\ Bound(runs) >= 1 /\ (runs > 0 => Bound(runs) >= 2)
    BY BoundsAre DEF StartInv
<1>2. \A name \in N : name[3] \in Nat /\ name[3] + 1 <= Bound(runs)
    <2>1. TAKE name \in N
    <2>2. /\ name \in Dirs \X Types \X Nat /\ name[1] = "db" /\ name[2] # "manifest"
          /\ name[2] \in {"log", "table"} => name[3] < Bound(runs)
          /\ name[2] \in {"temp", "current"} => runs > 0 /\ name[3] <= 1
        BY DEF NameInv
    <2>3. name[3] \in Nat /\ name[2] \in {"log", "table", "temp", "current"}
        BY <2>2 DEF Types
    <2>4. QED  BY <1>1, <2>2, <2>3
<1>3. S \in SUBSET Nat /\ S # {} /\ \A n \in S : n <= Bound(runs)  BY <1>1, <1>2
<1>4. next = Max(S)  OBVIOUS
<1>5. next \in S /\ \A n \in S : n <= next
    <2> HIDE DEF S
    <2>1. QED  BY <1>1, <1>3, <1>4, MaxIs
<1>6. next \in Nat \ {0} /\ next <= Bound(runs)
    <2>1. 1 \in S  OBVIOUS
    <2>2. QED  BY <1>3, <1>5, <2>1
<1>7. ASSUME NEW name \in DOMAIN files, name[1] = "db", name[2] \in {"log", "table"}
      PROVE  name[3] < next
    <2>1. name \in N  BY <1>7
    <2>2. name[3] + 1 <= next /\ name[3] \in Nat  BY <1>2, <1>5, <2>1
    <2>3. QED  BY <1>6, <2>2
<1>8. QED  BY <1>6, <1>7

LEMMA FindFilesStep == ASSUME IInv, FindFiles PROVE IInv'
<1>1. /\ pc = "idle" /\ pc' = "run" /\ runs < MaxRuns /\ runs' = runs + 1
      /\ logs_' = OfType("log") /\ table_numbers_' = Tables /\ manifests_' = OfType("manifest")
      /\ UNCHANGED <<files, start, tables_, src>>
    BY DEF FindFiles, Tables
<1>2. /\ next_file_number_' \in Nat \ {0} /\ next_file_number_' <= Bound(runs)
      /\ \A name \in DOMAIN files :
            name[1] = "db" /\ name[2] \in {"log", "table"} => name[3] < next_file_number_'
    BY NextIs DEF IInv, FindFiles
<1>3. /\ runs \in Nat /\ MaxRuns \in Nat /\ Bound(runs) \in Nat /\ PerRun \in Nat
      /\ Bound(runs') = Bound(runs) + PerRun
    BY <1>1, BoundsAre, NumbersAre, RepairAssumption DEF IInv, StartInv
<1>4. Bound(runs)' = Bound(runs') /\ Bound(runs') \in Nat /\ Bound(runs) <= Bound(runs')
    BY <1>3 DEF Bound, PerRun
<1>5. Tables' = Tables /\ OfType("log")' = OfType("log") /\ Whole' = Whole
    BY <1>1 DEF Tables, OfType, Whole
<1>6. tables_ = {}  BY <1>1 DEF IInv, RepairerInv
<1>7. StartInv'  BY <1>1, <1>3 DEF IInv, StartInv
<1>8. NameInv'
    <2>1. SUFFICES ASSUME NEW name \in DOMAIN files
                   PROVE  /\ name \in Dirs \X Types \X Nat /\ name[3] <= Bound(runs')
                          /\ name[2] \in {"log", "table"} => files[name] \in Contained
                          /\ name[1] = "db" /\ name[2] \in {"log", "table"} => name[3] < next_file_number_'
                          /\ name[1] = "db" /\ name[2] \in {"temp", "current"} => runs' > 0 /\ name[3] <= 1
        BY <1>1, <1>4 DEF NameInv
    <2>2. /\ name \in Dirs \X Types \X Nat /\ name[3] <= Bound(runs)
          /\ name[2] \in {"log", "table"} => files[name] \in Contained
          /\ name[1] = "db" /\ name[2] \in {"temp", "current"} => name[3] <= 1
        BY DEF IInv, NameInv
    <2>3. name[3] \in Nat  BY <2>2
    <2>4. QED  BY <1>1, <1>2, <1>3, <1>4, <2>2, <2>3
<1>9. CountInv'
    <2>1. Cardinality(Tables) \in Nat /\ Cardinality(Tables) <= Cardinality(Numbers) + runs
        <3>1. Cardinality(Tables) \in Nat  BY NumbersFinite DEF IInv
        <3>2. QED  BY <1>1, <1>3, <3>1, NumbersAre DEF IInv, CountInv
    <2>2. next_file_number_' + Cardinality(Tables) <= Bound(runs')
        BY <1>1, <1>2, <1>3, <2>1, NumbersAre DEF PerRun
    <2>3. QED  BY <1>1, <1>3, <1>4, <1>5, <2>1, <2>2, NumbersAre DEF CountInv
<1>10. RepairerInv'
    <2>1. manifests_' \subseteq 0 .. Bound(runs')
        <3>1. ASSUME NEW n \in OfType("manifest") PROVE n \in 0 .. Bound(runs')
            <4>1. <<"db", "manifest", n>> \in DOMAIN files  BY OfTypeIs
            <4>2. n \in Nat /\ n <= Bound(runs)  BY <4>1 DEF IInv, NameInv
            <4>3. QED  BY <1>3, <1>4, <4>2
        <3>2. QED  BY <1>1, <3>1
    <2>2. QED  BY <1>1, <1>2, <1>4, <1>5, <1>6, <2>1 DEF RepairerInv
<1>11. CopyInv' /\ DescriptorInv'  BY <1>1 DEF CopyInv, Copying, DescriptorInv
<1>12. IntactInv'
    <2>1. \A n \in Numbers : Intact(n) => n \in Tables  BY OfTypeIs DEF IInv, IntactInv
    <2>2. \A n : Intact(n)' <=> Intact(n)  BY <1>1 DEF Intact
    <2>3. QED  BY <1>1, <2>1, <2>2 DEF IInv, IntactInv
<1>13. FirstInv'
    <2>1. CASE runs' # 1
        <3>1. ~(runs' <= 1)  BY <1>1, <1>3, <2>1
        <3>2. QED  BY <2>1, <3>1 DEF FirstInv
    <2>2. CASE runs' = 1
        <3>1. files = start  BY <1>1, <1>3, <2>2 DEF IInv, StartInv
        <3>2. \A name \in DOMAIN start : InPlace(name)'  BY <1>1, <3>1 DEF InPlace
        <3>3. \A n \in Tables : InPlace(Table(n))'  BY <3>1, <3>2, OfTypeIs
        <3>4. \A n \in OfType("log") : InPlace(Log(n))'  BY <3>1, <3>2, OfTypeIs
        <3>5. \A name \in DOMAIN start : name[2] = "table" => name[3] < next_file_number_'
            <4>1. \A name \in DOMAIN start : name[2] = "table" => name[1] = "db"
                BY NamesApart DEF IInv, StartInv
            <4>2. QED  BY <1>2, <3>1, <4>1
        <3>6. Whole' \subseteq table_numbers_'  BY <1>1, <1>5 DEF Whole
        <3>7. QED  BY <1>1, <3>2, <3>3, <3>4, <3>5, <3>6 DEF FirstInv, Copying
    <2>3. QED  BY <2>1, <2>2
<1>14. QED  BY <1>7, <1>8, <1>9, <1>10, <1>11, <1>12, <1>13 DEF IInv
-----------------------------------------------------------------------------
(* Logs and tables *)

\* A listed table that a step leaves alone is still what the list says.
LEMMA ListedKept ==
    ASSUME IInv, \A n \in Listed : Untouched(Table(n))
    PROVE  \A t \in tables_ : /\ t.number \in Whole' \ table_numbers_ /\ t.number \in Listed
                              /\ t = TableInfo(t.number, files'[Table(t.number)].entries)
<1>1. SUFFICES ASSUME NEW t \in tables_
               PROVE  /\ t.number \in Whole' \ table_numbers_ /\ t.number \in Listed
                      /\ t = TableInfo(t.number, files'[Table(t.number)].entries)
    OBVIOUS
<1>2. /\ t.number \in Whole \ table_numbers_ /\ t.number \in Listed
      /\ t = TableInfo(t.number, files[Table(t.number)].entries)
    BY DEF IInv, RepairerInv, Listed
<1>3. Table(t.number) \in DOMAIN files /\ files[Table(t.number)].whole  BY <1>2, OfTypeIs DEF Whole
<1>4. Table(t.number) \in DOMAIN files' /\ files'[Table(t.number)] = files[Table(t.number)]
    BY <1>2, <1>3 DEF Untouched
<1>5. t.number \in Whole'  BY <1>3, <1>4, OfTypePrimed DEF Whole
<1>6. QED  BY <1>2, <1>4, <1>5

LEMMA IntactKept ==
    ASSUME IInv, start' = start, \A n \in Numbers : Intact(n) => Untouched(Table(n))
    PROVE  \A n \in Numbers : Intact(n)' =>
                Intact(n) /\ Table(n) \in DOMAIN files' /\ files'[Table(n)] = start'[Table(n)]
BY DEF IInv, IntactInv, Intact, Untouched

LEMMA PlaceKept ==
    ASSUME start' = start, NEW name
    PROVE  /\ Untouched(name) /\ InPlace(name) => InPlace(name)'
           /\ Untouched(Lost(name)) /\ InLost(name) => InLost(name)'
BY DEF InPlace, InLost, Untouched, Lost

LEMMA ConvertLogStep == ASSUME IInv, NEW log \in 0 .. MaxNumber, ConvertLogToTable(log) PROVE IInv'
<1>1. /\ pc = "run" /\ pc' = pc /\ log \in logs_ /\ logs_' = logs_ \ {log}
      /\ files' = Renamed(Log(log), Lost(Log(log)))
      /\ UNCHANGED <<start, runs, table_numbers_, manifests_, tables_, next_file_number_, src>>
    BY DEF ConvertLogToTable, ArchiveFile
<1>2. Log(log) \in DOMAIN files  BY <1>1, OfTypeIs DEF IInv, RepairerInv
<1>3. Log(log) # Lost(Log(log))  BY DEF Lost, Log
<1>4. /\ \A name : name # Log(log) /\ name # Lost(Log(log)) => Untouched(name)
      /\ Log(log) \notin DOMAIN files' /\ Lost(Log(log)) \in DOMAIN files'
      /\ files'[Lost(Log(log))] = files[Log(log)]
      /\ DOMAIN files' \subseteq DOMAIN files \cup {Lost(Log(log))}
    BY <1>1, <1>2, <1>3, RenamedIs
<1>5. \A k : /\ Untouched(Table(k)) /\ Untouched(Lost(Table(k)))
             /\ k # log => Untouched(Log(k)) /\ Untouched(Lost(Log(k)))
    <2>1. \A k : /\ Table(k) # Log(log) /\ Table(k) # Lost(Log(log))
                 /\ Lost(Table(k)) # Log(log) /\ Lost(Table(k)) # Lost(Log(log))
                 /\ k # log => /\ Log(k) # Log(log) /\ Log(k) # Lost(Log(log))
                               /\ Lost(Log(k)) # Log(log) /\ Lost(Log(k)) # Lost(Log(log))
        BY DEF Lost, Table, Log
    <2>2. QED  BY <1>4, <2>1, Zenon
<1>6. Tables' = Tables /\ Whole' = Whole
    <2>1. \A n : n \in Tables' <=> n \in Tables  BY <1>5, OfTypeIs, OfTypePrimed DEF Untouched
    <2>2. Tables' = Tables  BY <2>1
    <2>3. \A n \in Tables : files'[Table(n)] = files[Table(n)]  BY <1>5, OfTypeIs DEF Untouched
    <2>4. QED  BY <2>2, <2>3 DEF Whole
<1>7. StartInv'  BY <1>1 DEF IInv, StartInv
<1>8. NameInv'
    <2>1. Log(log) \in Dirs \X Types \X Nat /\ log <= Bound(runs) /\ files[Log(log)] \in Contained
        BY <1>2, NamesApart DEF IInv, NameInv
    <2>2. log \in Nat  OBVIOUS
    <2>3. /\ Lost(Log(log)) \in Dirs \X Types \X Nat /\ Lost(Log(log))[3] = log
          /\ Lost(Log(log))[1] = "lost" /\ Lost(Log(log))[2] = "log"
        BY <2>2 DEF Lost, Log, Dirs, Types
    <2>4. \A name \in DOMAIN files' : name # Lost(Log(log)) => Untouched(name)  BY <1>4
    <2>5. QED  BY <1>1, <1>4, <2>1, <2>3, <2>4, NameKept DEF IInv, RepairerInv
<1>9. CountInv'  BY <1>1, <1>6 DEF IInv, CountInv, Bound, PerRun
<1>10. RepairerInv'
    <2>1. \A t \in tables_ : /\ t.number \in Whole' \ table_numbers_
                             /\ t = TableInfo(t.number, files'[Table(t.number)].entries)
        BY <1>5, ListedKept
    <2>2. logs_' \subseteq OfType("log")'
        BY <1>1, <1>5, OfTypeIs, OfTypePrimed DEF IInv, RepairerInv, Untouched
    <2>3. /\ next_file_number_ \in Nat \ {0} /\ table_numbers_ \subseteq Tables
          /\ manifests_ \subseteq 0 .. Bound(runs)
        BY DEF IInv, RepairerInv
    <2>4. QED  BY <1>1, <1>6, <2>1, <2>2, <2>3 DEF RepairerInv
<1>11. CopyInv' /\ DescriptorInv'  BY <1>1 DEF CopyInv, Copying, DescriptorInv
<1>12. IntactInv'
    <2>1. \A n \in Numbers : Intact(n)' =>
                Intact(n) /\ Table(n) \in DOMAIN files' /\ files'[Table(n)] = start'[Table(n)]
        BY <1>1, <1>5, IntactKept
    <2>2. QED  BY <1>1, <2>1 DEF IInv, IntactInv
<1>13. FirstInv'
    <2>1. ASSUME runs <= 1, NEW name \in DOMAIN start, name[2] \in {"log", "table"}
          PROVE  InPlace(name)' \/ InLost(name)'
        <3>1. name \in {Log(name[3]), Table(name[3])} /\ (InPlace(name) \/ InLost(name))
            BY <2>1 DEF IInv, StartInv, FirstInv
        <3>2. CASE name = Log(log)
            <4>1. runs = 1  BY <1>1, <2>1 DEF IInv, StartInv
            <4>2. InPlace(name)  BY <1>1, <3>2, <4>1 DEF IInv, FirstInv
            <4>3. InLost(name)'  BY <1>1, <1>4, <3>2, <4>2 DEF InPlace, InLost
            <4>4. QED  BY <4>3
        <3>3. CASE name # Log(log)
            <4>1. Untouched(name) /\ Untouched(Lost(name))  BY <1>5, <3>1, <3>3
            <4>2. QED  BY <1>1, <3>1, <4>1, PlaceKept
        <3>4. QED  BY <3>2, <3>3
    <2>2. ASSUME runs = 1
          PROVE  /\ \A n \in table_numbers_ : InPlace(Table(n))'
                 /\ \A n \in logs_' : InPlace(Log(n))'
                 /\ \A name \in DOMAIN start : name[2] = "table" => name[3] < next_file_number_
                 /\ \A n \in Whole : n \in table_numbers_ \cup Listed
        <3>1. /\ \A n \in table_numbers_ : InPlace(Table(n))
              /\ \A n \in logs_ : InPlace(Log(n))
              /\ \A name \in DOMAIN start : name[2] = "table" => name[3] < next_file_number_
              /\ \A n \in Whole : n \in table_numbers_ \cup Listed
            BY <1>1, <2>2 DEF IInv, FirstInv
        <3>2. \A n \in table_numbers_ : InPlace(Table(n))'  BY <1>1, <1>5, <3>1, PlaceKept
        <3>3. \A n \in logs_' : InPlace(Log(n))'  BY <1>1, <1>5, <3>1, PlaceKept
        <3>4. QED  BY <3>1, <3>2, <3>3
    <2>3. Listed' = Listed /\ ~Copying'  BY <1>1 DEF Listed, Copying
    <2>4. QED  BY <1>1, <1>6, <2>1, <2>2, <2>3 DEF FirstInv
<1>14. QED  BY <1>7, <1>8, <1>9, <1>10, <1>11, <1>12, <1>13 DEF IInv
-----------------------------------------------------------------------------
(* A table is scanned *)

LEMMA StartTable ==
    ASSUME StartInv, NEW n, Table(n) \in DOMAIN start
    PROVE  n \in Numbers /\ ~start[Table(n)].protected
<1>1. Table(n)[2] \in {"log", "table"} /\ Table(n)[3] = n  BY NamesApart
<1>2. Table(n)[3] \in Numbers /\ ~start[Table(n)].protected  BY <1>1, Zenon DEF StartInv
<1>3. QED  BY <1>1, <1>2

LEMMA TableIs ==
    ASSUME IInv, pc # "idle", NEW n \in Tables
    PROVE  /\ n \in Nat /\ n < next_file_number_ /\ n <= Bound(runs)
           /\ Table(n) \in DOMAIN files /\ files[Table(n)] \in Contained
<1>1. /\ Table(n) \in DOMAIN files /\ Table(n)[1] = "db" /\ Table(n)[2] = "table" /\ Table(n)[3] = n
    BY OfTypeIs, NamesApart
<1>2. /\ Table(n) \in Dirs \X Types \X Nat /\ Table(n)[3] <= Bound(runs)
      /\ Table(n)[2] \in {"log", "table"} => files[Table(n)] \in Contained
      /\ Table(n)[1] = "db" /\ Table(n)[2] \in {"log", "table"} => Table(n)[3] < next_file_number_
    BY <1>1 DEF IInv, NameInv
<1>3. Table(n)[3] \in Nat  BY <1>2
<1>4. QED  BY <1>1, <1>2, <1>3

\* What a scan finds; a table that is whole is read without an error.
LEMMA ScannedIs ==
    ASSUME IInv, pc = "run", NEW n \in table_numbers_
    PROVE  /\ n \in Tables /\ Scanned(n).entries \subseteq Entries
           /\ Scanned(n).ok => n \in Whole /\ Scanned(n).entries = files[Table(n)].entries
           /\ ~Scanned(n).ok => ~Intact(n) /\ (runs = 1 => n \notin Whole)
<1>1. n \in Tables  BY DEF IInv, RepairerInv
<1>2. files[Table(n)] \in Contained  BY <1>1, TableIs
<1>3. Scanned(n).entries \subseteq Entries  BY <1>2 DEF Scanned, Contained
<1>4. Scanned(n).ok <=> ~files[Table(n)].protected /\ files[Table(n)].whole
    BY <1>2 DEF Scanned, Contained
<1>5. Scanned(n).ok => Scanned(n).entries = files[Table(n)].entries  BY <1>4 DEF Scanned
<1>6. ASSUME Intact(n) PROVE Scanned(n).ok
    <2>1. Table(n) \in DOMAIN start /\ start[Table(n)].whole  BY <1>6 DEF Intact
    <2>2. n \in Numbers /\ ~start[Table(n)].protected  BY <2>1, StartTable DEF IInv
    <2>3. files[Table(n)] = start[Table(n)]  BY <1>6, <2>2 DEF IInv, IntactInv
    <2>4. QED  BY <1>4, <2>1, <2>2, <2>3
<1>7. ASSUME runs = 1, n \in Whole PROVE Scanned(n).ok
    <2>1. InPlace(Table(n))  BY <1>7 DEF IInv, FirstInv
    <2>2. ~files[Table(n)].protected  BY <2>1, StartTable DEF IInv, InPlace
    <2>3. QED  BY <1>4, <1>7, <2>2 DEF Whole
<1>8. QED  BY <1>1, <1>3, <1>4, <1>5, <1>6, <1>7 DEF Whole

\* A table is taken from those that are to be scanned.
LEMMA OneLess ==
    ASSUME IInv, NEW n \in table_numbers_, table_numbers_' = table_numbers_ \ {n}
    PROVE  /\ Cardinality(table_numbers_') = Cardinality(table_numbers_) - 1
           /\ Cardinality(table_numbers_) \in Nat /\ Cardinality(Tables) \in Nat
           /\ Cardinality(table_numbers_') \in Nat
<1>1. IsFiniteSet(table_numbers_) /\ Cardinality(table_numbers_) \in Nat /\ Cardinality(Tables) \in Nat
    BY NumbersFinite DEF IInv
<1>2. /\ IsFiniteSet(table_numbers_ \ {n})
      /\ Cardinality(table_numbers_ \ {n}) = Cardinality(table_numbers_) - 1
    BY <1>1, FS_RemoveElement
<1>3. QED  BY <1>1, <1>2, FS_CardinalityType

\* The files stay as they are, and at most a number is spent.
LEMMA ScanStep ==
    ASSUME IInv, pc = "run", pc' = pc, NEW n \in table_numbers_,
           table_numbers_' = table_numbers_ \ {n},
           UNCHANGED <<files, start, runs, logs_, manifests_, src>>,
           next_file_number_' \in {next_file_number_, next_file_number_ + 1},
           \/ Scanned(n).ok /\ tables_' = tables_ \cup {TableInfo(n, Scanned(n).entries)}
           \/ ~Scanned(n).ok /\ tables_' = tables_
    PROVE  IInv'
<1>1. /\ n \in Tables /\ Scanned(n).entries \subseteq Entries
      /\ Scanned(n).ok => n \in Whole /\ Scanned(n).entries = files[Table(n)].entries
      /\ ~Scanned(n).ok => ~Intact(n) /\ (runs = 1 => n \notin Whole)
    BY ScannedIs
<1>2. /\ next_file_number_ \in Nat \ {0} /\ next_file_number_' \in Nat \ {0}
      /\ next_file_number_ <= next_file_number_' /\ next_file_number_' <= next_file_number_ + 1
    BY DEF IInv, RepairerInv
<1>3. Tables' = Tables /\ Whole' = Whole /\ OfType("log")' = OfType("log")
    BY DEF Tables, OfType, Whole
<1>4. TableInfo(n, Scanned(n).entries).number = n  BY <1>1, InfoIs
<1>5. \A t \in tables_' : \/ t \in tables_
                          \/ Scanned(n).ok /\ t = TableInfo(n, Scanned(n).entries) /\ t.number = n
    BY <1>4
<1>6. StartInv'  BY DEF IInv, StartInv
<1>7. NameInv'
    <2>1. \A name : Untouched(name)  BY DEF Untouched
    <2>2. DOMAIN files' \subseteq DOMAIN files \cup {Table(next_file_number_)}  OBVIOUS
    <2>3. Table(next_file_number_) \in DOMAIN files => FALSE
        BY <1>2, OfTypeIs, TableIs
    <2>4. QED  BY <1>2, <2>1, <2>2, <2>3, NameKept DEF IInv
<1>8. CountInv'
    <2>1. /\ Cardinality(table_numbers_') = Cardinality(table_numbers_) - 1
          /\ Cardinality(table_numbers_) \in Nat
        BY OneLess
    <2>2. /\ Cardinality(Tables) <=
                Cardinality(Numbers) + (IF pc = "idle" THEN runs ELSE runs - 1)
                                     + (IF pc = "copied" THEN 1 ELSE 0)
          /\ next_file_number_ + Cardinality(table_numbers_) <= Bound(runs)
        BY DEF IInv, CountInv
    <2>3. Bound(runs) \in Nat  BY BoundsAre DEF IInv, StartInv
    <2>4. next_file_number_' + Cardinality(table_numbers_') <= Bound(runs)
        BY <1>2, <2>1, <2>2, <2>3
    <2>5. QED  BY <1>3, <2>2, <2>4 DEF CountInv, Bound, PerRun
<1>9. RepairerInv'
    <2>1. /\ table_numbers_ \subseteq Tables /\ logs_ \subseteq OfType("log")
          /\ manifests_ \subseteq 0 .. Bound(runs)
          /\ \A t \in tables_ :
                /\ t.number \in Whole \ table_numbers_
                /\ t = TableInfo(t.number, files[Table(t.number)].entries)
        BY DEF IInv, RepairerInv
    <2>2. \A t \in tables_' : /\ t.number \in Whole \ table_numbers_'
                              /\ t = TableInfo(t.number, files[Table(t.number)].entries)
        BY <1>1, <1>5, <2>1
    <2>3. QED  BY <1>2, <1>3, <2>1, <2>2 DEF RepairerInv
<1>10. CopyInv' /\ DescriptorInv'  BY DEF CopyInv, Copying, DescriptorInv
<1>11. IntactInv'
    <2>1. ASSUME NEW m \in Numbers, Intact(m)'
          PROVE  /\ Table(m) \in DOMAIN files /\ files[Table(m)] = start[Table(m)]
                 /\ m \in table_numbers_' \/ TableInfo(m, start[Table(m)].entries) \in tables_'
        <3>1. Intact(m)  BY <2>1 DEF Intact
        <3>2. /\ Table(m) \in DOMAIN files /\ files[Table(m)] = start[Table(m)]
              /\ m \in table_numbers_ \/ TableInfo(m, start[Table(m)].entries) \in tables_
            BY <3>1 DEF IInv, IntactInv
        <3>3. CASE m = n  BY <1>1, <3>1, <3>2, <3>3
        <3>4. CASE m # n  BY <3>2, <3>4
        <3>5. QED  BY <3>3, <3>4
    <2>2. QED  BY <2>1 DEF IntactInv
<1>12. FirstInv'
    <2>1. \A name : (InPlace(name)' <=> InPlace(name)) /\ (InLost(name)' <=> InLost(name))
        BY DEF InPlace, InLost
    <2>2. ASSUME runs = 1
          PROVE  /\ \A m \in table_numbers_' : InPlace(Table(m))
                 /\ \A m \in logs_ : InPlace(Log(m))
                 /\ \A name \in DOMAIN start : name[2] = "table" => name[3] < next_file_number_'
                 /\ \A m \in Whole : m \in table_numbers_' \cup Listed'
        <3>1. /\ \A m \in table_numbers_ : InPlace(Table(m))
              /\ \A m \in logs_ : InPlace(Log(m))
              /\ \A name \in DOMAIN start : name[2] = "table" => name[3] < next_file_number_
              /\ \A m \in Whole : m \in table_numbers_ \cup Listed
            BY <2>2 DEF IInv, FirstInv
        <3>2. \A name \in DOMAIN start : name[2] = "table" => name[3] < next_file_number_'
            <4>1. \A name \in DOMAIN start : name[2] = "table" => name[3] \in Nat
                BY RepairAssumption DEF IInv, StartInv
            <4>2. QED  BY <1>2, <3>1, <4>1
        <3>3. Listed \subseteq Listed' /\ (Scanned(n).ok => n \in Listed')  BY <1>4 DEF Listed
        <3>4. \A m \in Whole : m \in table_numbers_' \cup Listed'  BY <1>1, <2>2, <3>1, <3>3
        <3>5. QED  BY <3>1, <3>2, <3>4
    <2>3. runs <= 1 => \A name \in DOMAIN start :
            name[2] \in {"log", "table"} => InPlace(name) \/ InLost(name)
        BY DEF IInv, FirstInv
    <2>4. ~Copying'  BY DEF Copying
    <2>5. QED  BY <1>3, <2>1, <2>2, <2>3, <2>4 DEF FirstInv
<1>13. QED  BY <1>6, <1>7, <1>8, <1>9, <1>10, <1>11, <1>12 DEF IInv
\* A copy is begun under the next number, which no file has.
LEMMA CopyStep ==
    ASSUME IInv, pc = "run", pc' = "copied", NEW n \in table_numbers_, ~Scanned(n).ok,
           table_numbers_' = table_numbers_ \ {n},
           next_file_number_' = next_file_number_ + 1,
           files' = Created(Table(next_file_number_), Partial),
           src' = [meta |-> TableInfo(n, Scanned(n).entries), entries |-> Scanned(n).entries,
                   copy |-> Table(next_file_number_)],
           UNCHANGED <<start, runs, logs_, manifests_, tables_>>
    PROVE  IInv'
<1> DEFINE c == next_file_number_
<1>1. /\ n \in Tables /\ Scanned(n).entries \subseteq Entries
      /\ ~Intact(n) /\ (runs = 1 => n \notin Whole)
    BY ScannedIs
<1>2. c \in Nat \ {0} /\ next_file_number_' \in Nat \ {0}  BY DEF IInv, RepairerInv
<1>3. c \notin Tables /\ n \in Nat /\ n < c  BY <1>1, <1>2, TableIs
<1>4. /\ \A name : name # Table(c) => Untouched(name)
      /\ DOMAIN files' = DOMAIN files \cup {Table(c)} /\ files'[Table(c)] = Partial
    BY CreatedIs
<1>5. /\ \A k : Untouched(Log(k)) /\ Untouched(Lost(Log(k))) /\ Untouched(Lost(Table(k)))
      /\ \A k : k # c => Untouched(Table(k))
    <2>1. /\ \A k : Table(c) # Log(k) /\ Table(c) # Lost(Log(k)) /\ Table(c) # Lost(Table(k))
          /\ \A k : k # c => Table(k) # Table(c)
        BY DEF Table, Log, Lost
    <2>2. QED  BY <1>4, <2>1, Zenon
<1>6. Tables' = Tables \cup {c} /\ Whole' = Whole
    <2>1. \A k : k \in Tables' <=> k \in Tables \cup {c}
        BY <1>4, NamesApart, OfTypeIs, OfTypePrimed
    <2>2. Tables' = Tables \cup {c}  BY <2>1
    <2>3. \A k \in Tables : files'[Table(k)] = files[Table(k)]
        BY <1>3, <1>5, OfTypeIs DEF Untouched
    <2>4. ~files'[Table(c)].whole  BY <1>4 DEF Partial, Contents
    <2>5. QED  BY <2>2, <2>3, <2>4 DEF Whole
<1>7. StartInv'  BY DEF IInv, StartInv
<1>8. next_file_number_ + Cardinality(table_numbers_) <= Bound(runs)
      /\ Cardinality(table_numbers_') = Cardinality(table_numbers_) - 1
      /\ Cardinality(table_numbers_) \in Nat /\ Cardinality(table_numbers_') \in Nat
      /\ Bound(runs) \in Nat
    <2>1. next_file_number_ + Cardinality(table_numbers_) <= Bound(runs)  BY DEF IInv, CountInv
    <2>2. Bound(runs) \in Nat  BY BoundsAre DEF IInv, StartInv
    <2>3. QED  BY <2>1, <2>2, OneLess
<1>9. NameInv'
    <2>1. c <= Bound(runs)  BY <1>2, <1>8
    <2>2. Partial \in Contained  BY DEF Partial, Contents, Contained
    <2>3. /\ Table(c) \in Dirs \X Types \X Nat /\ Table(c)[1] = "db" /\ Table(c)[2] = "table"
          /\ Table(c)[3] = c
        BY <1>2 DEF Table, Dirs, Types
    <2>4. \A name \in DOMAIN files' : name # Table(c) => Untouched(name)  BY <1>4
    <2>5. c < next_file_number_' /\ c <= next_file_number_'  BY <1>2
    <2>6. QED  BY <1>2, <1>4, <2>1, <2>2, <2>3, <2>4, <2>5, NameKept DEF IInv
<1>10. CountInv'
    <2>1. IsFiniteSet(Tables) /\ Cardinality(Tables) \in Nat  BY NumbersFinite DEF IInv
    <2>2. Cardinality(Tables') = Cardinality(Tables) + 1
        BY <1>3, <1>6, <2>1, FS_AddElement
    <2>3. Cardinality(Tables) <= Cardinality(Numbers) + (runs - 1)
        <3>1. Cardinality(Tables) <= Cardinality(Numbers) + (runs - 1) + 0  BY DEF IInv, CountInv
        <3>2. runs \in Nat /\ Cardinality(Numbers) \in Nat  BY NumbersAre DEF IInv, StartInv
        <3>3. QED  BY <2>1, <3>1, <3>2
    <2>4. runs \in Nat /\ Cardinality(Numbers) \in Nat  BY NumbersAre DEF IInv, StartInv
    <2>5. Cardinality(Tables') <= Cardinality(Numbers) + (runs - 1) + 1
        BY <2>1, <2>2, <2>3, <2>4
    <2>6. next_file_number_' + Cardinality(table_numbers_') <= Bound(runs)  BY <1>2, <1>8
    <2>7. QED  BY <2>5, <2>6 DEF CountInv, Bound, PerRun
<1>11. Listed' = Listed /\ Listed \subseteq Tables /\ Listed \cap table_numbers_ = {}
    <2>1. \A t \in tables_ : t.number \in Whole \ table_numbers_  BY DEF IInv, RepairerInv
    <2>2. Whole \subseteq Tables  BY DEF Whole
    <2>3. Listed' = Listed  BY DEF Listed
    <2>4. QED  BY <2>1, <2>2, <2>3 DEF Listed
<1>12. RepairerInv'
    <2>1. \A t \in tables_ : /\ t.number \in Whole' \ table_numbers_
                             /\ t = TableInfo(t.number, files'[Table(t.number)].entries)
        BY <1>3, <1>5, <1>11, ListedKept
    <2>2. logs_ \subseteq OfType("log")'
        BY <1>5, OfTypeIs, OfTypePrimed DEF IInv, RepairerInv, Untouched
    <2>3. table_numbers_ \subseteq Tables /\ manifests_ \subseteq 0 .. Bound(runs)
        BY DEF IInv, RepairerInv
    <2>4. QED  BY <1>2, <1>6, <2>1, <2>2, <2>3 DEF RepairerInv
<1>13. ~Intact(c)
    <2>1. SUFFICES ASSUME Intact(c) PROVE FALSE  OBVIOUS
    <2>2. Table(c) \in DOMAIN start  BY <2>1 DEF Intact
    <2>3. c \in Numbers  BY <2>2, StartTable DEF IInv
    <2>4. Table(c) \in DOMAIN files  BY <2>1, <2>3 DEF IInv, IntactInv
    <2>5. QED  BY <1>3, <2>4, OfTypeIs
<1>14. Input' = n /\ Copy' = c /\ Copying'
    <2>1. TableInfo(n, Scanned(n).entries).number = n  BY <1>1, InfoIs
    <2>2. QED  BY <2>1, NamesApart DEF Input, Copy, Copying
<1>15. CopyInv'
    <2>1. (Input \in Nat \ Listed)' /\ (Copy \in Tables \ Listed)'
        BY <1>1, <1>2, <1>3, <1>6, <1>11, <1>14
    <2>2. (Input < next_file_number_)'  BY <1>2, <1>3, <1>14
    <2>3. (~Intact(Input))' /\ (~Intact(Copy))'  BY <1>1, <1>13, <1>14 DEF Intact
    <2>4. (Input # Copy)'  BY <1>2, <1>3, <1>14
    <2>5. ({Input, Copy} \cap table_numbers_ = {})'
        <3>1. table_numbers_ \subseteq Tables  BY DEF IInv, RepairerInv
        <3>2. QED  BY <1>3, <1>14, <3>1
    <2>6. (src.copy = Table(Copy))' /\ (src.meta = TableInfo(Input, src.entries))'
          /\ (src.entries \subseteq Entries)'
        BY <1>1, <1>14
    <2>7. (Input \in Tables)'  BY <1>1, <1>6, <1>14
    <2>8. (~files[Table(Copy)].whole)'
        <3>1. ~Partial.whole  BY DEF Partial, Contents
        <3>2. files'[Table(c)] = Partial  BY <1>4
        <3>3. ~files'[Table(c)].whole  BY <3>1, <3>2
        <3>4. Table(Copy)' = Table(c)  BY <1>14
        <3>5. QED  BY <3>3, <3>4
    <2>9. QED  BY <2>1, <2>2, <2>3, <2>4, <2>5, <2>6, <2>7, <2>8 DEF CopyInv
<1>16. DescriptorInv'  BY DEF DescriptorInv
<1>17. IntactInv'
    <2>1. \A k \in Numbers : Intact(k)' =>
                Intact(k) /\ Table(k) \in DOMAIN files' /\ files'[Table(k)] = start'[Table(k)]
        BY <1>5, <1>13, IntactKept
    <2>2. QED  BY <1>1, <2>1 DEF IInv, IntactInv
<1>18. FirstInv'
    <2>1. \A name \in DOMAIN start : name[2] \in {"log", "table"} /\ name # Table(c) =>
                (InPlace(name) => InPlace(name)') /\ (InLost(name) => InLost(name)')
        <3>1. \A name \in DOMAIN start : name[2] \in {"log", "table"} =>
                    name \in {Log(name[3]), Table(name[3])}
            BY DEF IInv, StartInv
        <3>2. \A name \in DOMAIN start : name[2] \in {"log", "table"} => Untouched(Lost(name))
            BY <1>5, <3>1
        <3>3. QED  BY <1>4, <3>2, PlaceKept
    <2>2. ASSUME runs = 1
          PROVE  /\ \A k \in table_numbers_ : InPlace(Table(k))'
                 /\ \A k \in logs_ : InPlace(Log(k))'
                 /\ \A name \in DOMAIN start : name[2] = "table" => name[3] < c /\ name[3] \in Nat
                 /\ \A k \in Whole : k \in table_numbers_' \cup Listed
        <3>1. /\ \A k \in table_numbers_ : InPlace(Table(k))
              /\ \A k \in logs_ : InPlace(Log(k))
              /\ \A name \in DOMAIN start : name[2] = "table" => name[3] < c
              /\ \A k \in Whole : k \in table_numbers_ \cup Listed
            BY <2>2 DEF IInv, FirstInv
        <3>2. \A k \in table_numbers_ : Untouched(Table(k))
            BY <1>3, <1>5 DEF IInv, RepairerInv
        <3>3. \A name \in DOMAIN start : name[2] = "table" => name[3] \in Nat
            BY RepairAssumption DEF IInv, StartInv
        <3>4. \A k \in Whole : k \in table_numbers_' \cup Listed  BY <1>1, <2>2, <3>1
        <3>5. \A k \in logs_ : InPlace(Log(k))'  BY <1>5, <3>1, PlaceKept
        <3>6. QED  BY <3>1, <3>2, <3>3, <3>4, <3>5, PlaceKept
    <2>3. runs = 1 => Table(c) \notin DOMAIN start
        <3>1. Table(c)[2] = "table" /\ Table(c)[3] = c  BY NamesApart
        <3>2. ASSUME runs = 1, Table(c) \in DOMAIN start PROVE c < c  BY <2>2, <3>1, <3>2
        <3>3. ~(c < c)  BY <1>2
        <3>4. QED  BY <3>2, <3>3
    <2>4. runs <= 1 => \A name \in DOMAIN start :
            name[2] \in {"log", "table"} => InPlace(name)' \/ InLost(name)'
        <3>1. runs <= 1 => runs = 1  BY DEF IInv, StartInv
        <3>2. runs <= 1 => \A name \in DOMAIN start :
                name[2] \in {"log", "table"} => InPlace(name) \/ InLost(name)
            BY DEF IInv, FirstInv
        <3>3. QED  BY <2>1, <2>3, <3>1, <3>2
    <2>5. runs = 1 => \A name \in DOMAIN start : name[2] = "table" => name[3] < next_file_number_'
        BY <1>2, <2>2
    <2>6. QED  BY <1>6, <1>11, <1>14, <2>2, <2>3, <2>4, <2>5 DEF FirstInv
<1>19. QED
    BY <1>7, <1>9, <1>10, <1>12, <1>15, <1>16, <1>17, <1>18 DEF IInv

LEMMA ScanTableStep == ASSUME IInv, NEW n \in 0 .. MaxNumber, ScanTable(n) PROVE IInv'
<1>1. n \in table_numbers_ /\ pc = "run" /\ table_numbers_' = table_numbers_ \ {n}
      /\ UNCHANGED <<start, runs, logs_, manifests_>>
    BY DEF ScanTable
<1>2. \/ /\ Scanned(n).ok /\ tables_' = tables_ \cup {TableInfo(n, Scanned(n).entries)}
         /\ UNCHANGED <<files, next_file_number_, src, pc>>
      \/ /\ ~Scanned(n).ok /\ next_file_number_' = next_file_number_ + 1 /\ tables_' = tables_
         /\ \/ /\ files' = Created(Table(next_file_number_), Partial)
               /\ src' = [meta |-> TableInfo(n, Scanned(n).entries), entries |-> Scanned(n).entries,
                          copy |-> Table(next_file_number_)]
               /\ pc' = "copied"
            \/ UNCHANGED <<files, src, pc>>
    BY Zenon DEF ScanTable
<1>3. CASE files' = files /\ src' = src /\ pc' = pc  BY <1>1, <1>2, <1>3, ScanStep
<1>4. CASE /\ ~Scanned(n).ok /\ next_file_number_' = next_file_number_ + 1 /\ tables_' = tables_
           /\ files' = Created(Table(next_file_number_), Partial)
           /\ src' = [meta |-> TableInfo(n, Scanned(n).entries), entries |-> Scanned(n).entries,
                      copy |-> Table(next_file_number_)]
           /\ pc' = "copied"
    BY <1>1, <1>4, CopyStep
<1>5. QED  BY <1>2, <1>3, <1>4
-----------------------------------------------------------------------------
(* A table is copied *)

\* What a step of RepairTable leaves of the members and of what it found before.
LEMMA CopyFacts ==
    ASSUME IInv, Copying
    PROVE  /\ Input \in Nat \ Listed /\ Input < next_file_number_ /\ ~Intact(Input)
           /\ Copy \in Tables \ Listed /\ ~Intact(Copy)
           /\ Input # Copy /\ Input \notin table_numbers_ /\ Copy \notin table_numbers_
           /\ src.copy = Table(Copy) /\ src.meta = TableInfo(Input, src.entries)
           /\ src.entries \subseteq Entries
           /\ Input \in Tables <=> pc = "copied"
           /\ pc = "finished" => files[Table(Copy)] = Contents(TRUE, src.entries, TRUE)
           /\ pc # "finished" => ~files[Table(Copy)].whole
           /\ src.meta.number = Input /\ next_file_number_ \in Nat \ {0}
           /\ Listed \subseteq Tables /\ table_numbers_ \subseteq Tables
           /\ runs \in Nat /\ runs > 0 /\ pc # "idle" /\ Bound(runs) \in Nat
<1>1. /\ Input \in Nat \ Listed /\ Input < next_file_number_ /\ ~Intact(Input)
      /\ Copy \in Tables \ Listed /\ ~Intact(Copy)
      /\ Input # Copy /\ {Input, Copy} \cap table_numbers_ = {}
      /\ src.copy = Table(Copy) /\ src.meta = TableInfo(Input, src.entries)
      /\ src.entries \subseteq Entries
      /\ Input \in Tables <=> pc = "copied"
      /\ pc = "finished" => files[Table(Copy)] = Contents(TRUE, src.entries, TRUE)
      /\ pc # "finished" => ~files[Table(Copy)].whole
    BY DEF IInv, CopyInv
<1>2. next_file_number_ \in Nat \ {0} /\ Listed \subseteq Tables /\ table_numbers_ \subseteq Tables
    BY DEF IInv, RepairerInv, Listed, Whole
<1>3. runs \in Nat /\ runs > 0 /\ pc # "idle"  BY DEF IInv, StartInv, Copying
<1>4. Bound(runs) \in Nat  BY <1>3, BoundsAre
<1>5. src.meta.number = Input  BY DEF Input
<1>6. QED  BY <1>1, <1>2, <1>3, <1>4, <1>5

\* A step that touches only Input, its place in lost/, and Copy keeps the rest.
Aside == \A name : name \notin {Table(Input), Lost(Table(Input)), Table(Copy)} => Untouched(name)

LEMMA AsideKeeps ==
    ASSUME IInv, Copying, Aside, UNCHANGED <<start, runs, logs_, table_numbers_, manifests_, next_file_number_>>,
           pc' # "idle"
    PROVE  /\ StartInv'
           /\ \A k : /\ Untouched(Log(k)) /\ Untouched(Lost(Log(k)))
                     /\ k # Input => Untouched(Lost(Table(k)))
                     /\ k # Input /\ k # Copy => Untouched(Table(k))
           /\ \A k : k # Input /\ k # Copy =>
                (k \in Tables' <=> k \in Tables) /\ (k \in Whole' <=> k \in Whole)
           /\ table_numbers_ \subseteq Tables' /\ logs_ \subseteq OfType("log")'
           /\ \A t \in tables_ : /\ t.number \in Whole' \ table_numbers_
                                 /\ t = TableInfo(t.number, files'[Table(t.number)].entries)
           /\ tables_ \subseteq tables_' => IntactInv'
           /\ runs = 1 =>
                /\ \A k \in table_numbers_ : InPlace(Table(k))'
                /\ \A k \in logs_ : InPlace(Log(k))'
                /\ \A name \in DOMAIN start : name[2] = "table" => name[3] < next_file_number_
                /\ \A k \in Whole : k \in table_numbers_ \cup Listed \/ k = Copy
           /\ runs <= 1 =>
                /\ runs = 1 /\ Table(Copy) \notin DOMAIN start
                /\ \A name \in DOMAIN start : name[2] \in {"log", "table"} =>
                        InPlace(name)' \/ InLost(name)' \/ name = Table(Input)
<1>1. /\ Input \notin Listed /\ Copy \notin Listed /\ ~Intact(Input) /\ ~Intact(Copy)
      /\ Input \notin table_numbers_ /\ Copy \notin table_numbers_
      /\ table_numbers_ \subseteq Tables /\ runs \in Nat /\ runs > 0 /\ pc # "idle"
    BY CopyFacts
<1>2. StartInv'  BY <1>1 DEF IInv, StartInv
<1>3. \A k : /\ Untouched(Log(k)) /\ Untouched(Lost(Log(k)))
             /\ k # Input => Untouched(Lost(Table(k)))
             /\ k # Input /\ k # Copy => Untouched(Table(k))
    <2>1. \A k : /\ Log(k) \notin {Table(Input), Lost(Table(Input)), Table(Copy)}
                 /\ Lost(Log(k)) \notin {Table(Input), Lost(Table(Input)), Table(Copy)}
                 /\ k # Input => Lost(Table(k)) \notin {Table(Input), Lost(Table(Input)), Table(Copy)}
                 /\ k # Input /\ k # Copy =>
                        Table(k) \notin {Table(Input), Lost(Table(Input)), Table(Copy)}
        BY DEF Table, Log, Lost
    <2>2. QED  BY <2>1, Zenon DEF Aside
<1>4. \A k : k # Input /\ k # Copy =>
                (k \in Tables' <=> k \in Tables) /\ (k \in Whole' <=> k \in Whole)
    <2>1. \A k : k # Input /\ k # Copy => (k \in Tables' <=> k \in Tables)
        BY <1>3, OfTypeIs, OfTypePrimed DEF Untouched
    <2>2. \A k \in Tables : k # Input /\ k # Copy => files'[Table(k)] = files[Table(k)]
        BY <1>3, OfTypeIs DEF Untouched
    <2>3. QED  BY <2>1, <2>2 DEF Whole
<1>5. table_numbers_ \subseteq Tables'  BY <1>1, <1>4
<1>6. logs_ \subseteq OfType("log")'
    BY <1>3, OfTypeIs, OfTypePrimed DEF IInv, RepairerInv, Untouched
<1>7. \A t \in tables_ : /\ t.number \in Whole' \ table_numbers_
                         /\ t = TableInfo(t.number, files'[Table(t.number)].entries)
    BY <1>1, <1>3, ListedKept
<1>8. ASSUME tables_ \subseteq tables_' PROVE IntactInv'
    <2>1. \A k \in Numbers : Intact(k)' =>
                Intact(k) /\ Table(k) \in DOMAIN files' /\ files'[Table(k)] = start'[Table(k)]
        BY <1>1, <1>3, IntactKept
    <2>2. \A k \in Numbers : Intact(k) =>
                k \in table_numbers_ \/ TableInfo(k, start[Table(k)].entries) \in tables_
        BY <1>1 DEF IInv, IntactInv
    <2>3. QED  BY <1>8, <2>1, <2>2 DEF IntactInv
<1>9. ASSUME runs = 1
      PROVE  /\ \A k \in table_numbers_ : InPlace(Table(k))'
             /\ \A k \in logs_ : InPlace(Log(k))'
             /\ \A name \in DOMAIN start : name[2] = "table" => name[3] < next_file_number_
             /\ \A k \in Whole : k \in table_numbers_ \cup Listed \/ k = Copy
    <2>1. /\ \A k \in table_numbers_ : InPlace(Table(k))
          /\ \A k \in logs_ : InPlace(Log(k))
          /\ \A name \in DOMAIN start : name[2] = "table" => name[3] < next_file_number_
          /\ \A k \in Whole : k \in table_numbers_ \cup Listed \/ k = Copy
        BY <1>1, <1>9 DEF IInv, FirstInv
    <2>2. \A k \in table_numbers_ : InPlace(Table(k))'  BY <1>1, <1>3, <2>1, PlaceKept
    <2>3. \A k \in logs_ : InPlace(Log(k))'  BY <1>3, <2>1, PlaceKept
    <2>4. QED  BY <2>1, <2>2, <2>3
<1>10. ASSUME runs <= 1
       PROVE  /\ runs = 1 /\ Table(Copy) \notin DOMAIN start
              /\ \A name \in DOMAIN start : name[2] \in {"log", "table"} =>
                    InPlace(name)' \/ InLost(name)' \/ name = Table(Input)
    <2>1. runs = 1  BY <1>1, <1>10
    <2>2. Table(Copy) \notin DOMAIN start  BY <2>1 DEF IInv, FirstInv
    <2>3. ASSUME NEW name \in DOMAIN start, name[2] \in {"log", "table"}, name # Table(Input)
          PROVE  InPlace(name)' \/ InLost(name)'
        <3>1. name \in {Log(name[3]), Table(name[3])} /\ (InPlace(name) \/ InLost(name))
            BY <1>10, <2>3 DEF IInv, StartInv, FirstInv
        <3>2. name # Table(Copy)  BY <2>2
        <3>3. Untouched(name) /\ Untouched(Lost(name))  BY <1>3, <2>3, <3>1, <3>2
        <3>4. QED  BY <3>1, <3>3, PlaceKept
    <2>4. QED  BY <2>1, <2>2, <2>3
<1>11. QED  BY <1>2, <1>3, <1>4, <1>5, <1>6, <1>7, <1>8, <1>9, <1>10

LEMMA ArchiveStep == ASSUME IInv, RepairTable_Archive PROVE IInv'
<1> DEFINE m == Input
<1> DEFINE c == Copy
<1>1. /\ pc = "copied" /\ pc' = "archived" /\ Copying /\ Copying'
      /\ files' = Renamed(Table(m), Lost(Table(m)))
      /\ UNCHANGED <<start, runs, logs_, table_numbers_, manifests_, tables_, next_file_number_, src>>
    BY DEF RepairTable_Archive, ArchiveFile, repairer, Copying, Input
<1>2. /\ m \in Nat \ Listed /\ m < next_file_number_ /\ ~Intact(m) /\ m \in Tables
      /\ c \in Tables \ Listed /\ ~Intact(c) /\ m # c /\ m \notin table_numbers_ /\ c \notin table_numbers_
      /\ ~files[Table(c)].whole /\ next_file_number_ \in Nat \ {0} /\ pc # "idle"
      /\ runs \in Nat /\ Bound(runs) \in Nat
    BY <1>1, CopyFacts
<1>3. Table(m) \in DOMAIN files /\ files[Table(m)] \in Contained /\ m <= Bound(runs)
    BY <1>2, TableIs
<1>4. /\ \A name : name # Table(m) /\ name # Lost(Table(m)) => Untouched(name)
      /\ Table(m) \notin DOMAIN files' /\ Lost(Table(m)) \in DOMAIN files'
      /\ files'[Lost(Table(m))] = files[Table(m)]
      /\ DOMAIN files' \subseteq DOMAIN files \cup {Lost(Table(m))}
    <2>1. Table(m) # Lost(Table(m))  BY DEF Table, Lost
    <2>2. QED  BY <1>1, <1>3, <2>1, RenamedIs
<1>5. Aside  BY <1>4 DEF Aside
<1>6. Input' = m /\ Copy' = c /\ Listed' = Listed  BY <1>1 DEF Input, Copy, Listed
<1>7. Untouched(Table(c))
    <2>1. Table(c) # Table(m) /\ Table(c) # Lost(Table(m))  BY <1>2 DEF Table, Lost
    <2>2. QED  BY <1>4, <2>1, Zenon
<1>8. Tables' = Tables \ {m}
    <2>1. \A k : k # m /\ k # c => (k \in Tables' <=> k \in Tables)  BY <1>1, <1>5, AsideKeeps
    <2>2. m \notin Tables'  BY <1>4, OfTypePrimed
    <2>3. c \in Tables'  BY <1>2, <1>7, OfTypeIs, OfTypePrimed DEF Untouched
    <2>4. QED  BY <1>2, <2>1, <2>2, <2>3
<1>9. /\ ~files'[Table(c)].whole /\ Whole' \subseteq Whole
    <2>1. Table(c) \in DOMAIN files  BY <1>2, OfTypeIs
    <2>2. files'[Table(c)] = files[Table(c)]  BY <1>7, <2>1 DEF Untouched
    <2>3. \A k : k # m /\ k # c => (k \in Whole' <=> k \in Whole)  BY <1>1, <1>5, AsideKeeps
    <2>4. m \notin Whole' /\ c \notin Whole'  BY <1>2, <1>8, <2>2 DEF Whole
    <2>5. QED  BY <1>2, <2>2, <2>3, <2>4
<1>10. StartInv'  BY <1>1, <1>5, AsideKeeps
<1>11. NameInv'
    <2>1. /\ Lost(Table(m)) \in Dirs \X Types \X Nat /\ Lost(Table(m))[3] = m
          /\ Lost(Table(m))[1] = "lost"
        BY <1>2 DEF Lost, Table, Dirs, Types
    <2>2. \A name \in DOMAIN files' : name # Lost(Table(m)) => Untouched(name)  BY <1>4
    <2>3. next_file_number_ \in Nat /\ next_file_number_' \in Nat /\ next_file_number_ <= next_file_number_'
        BY <1>1, <1>2
    <2>4. QED  BY <1>1, <1>3, <1>4, <2>1, <2>2, <2>3, NameKept DEF IInv
<1>12. CountInv'
    <2>1. IsFiniteSet(Tables) /\ Cardinality(Tables) \in Nat  BY NumbersFinite DEF IInv
    <2>2. Cardinality(Tables') = Cardinality(Tables) - 1
        BY <1>2, <1>8, <2>1, FS_RemoveElement
    <2>3. Cardinality(Tables) <= Cardinality(Numbers) + (runs - 1) + 1
          /\ next_file_number_ + Cardinality(table_numbers_) <= Bound(runs)
        BY <1>1 DEF IInv, CountInv
    <2>4. Cardinality(Numbers) \in Nat  BY NumbersAre
    <2>5. Cardinality(Tables') <= Cardinality(Numbers) + (runs - 1) + 0
        BY <1>2, <2>1, <2>2, <2>3, <2>4
    <2>6. QED  BY <1>1, <2>3, <2>5 DEF CountInv, Bound, PerRun
<1>13. RepairerInv'
    <2>1. /\ table_numbers_ \subseteq Tables' /\ logs_ \subseteq OfType("log")'
          /\ \A t \in tables_ : /\ t.number \in Whole' \ table_numbers_
                                /\ t = TableInfo(t.number, files'[Table(t.number)].entries)
        BY <1>1, <1>5, AsideKeeps
    <2>2. manifests_ \subseteq 0 .. Bound(runs)  BY DEF IInv, RepairerInv
    <2>3. QED  BY <1>1, <1>2, <2>1, <2>2 DEF RepairerInv
<1>14. CopyInv'
    <2>1. (Input \in Nat \ Listed)' /\ (Copy \in Tables \ Listed)' /\ (Input < next_file_number_)'
          /\ (Input # Copy)' /\ (Input \notin Tables)'
        BY <1>1, <1>2, <1>6, <1>8
    <2>2. (~Intact(Input))' /\ (~Intact(Copy))'  BY <1>1, <1>2, <1>6 DEF Intact
    <2>3. ({Input, Copy} \cap table_numbers_ = {})'  BY <1>1, <1>2, <1>6
    <2>4. src.copy = Table(c) /\ src.meta = TableInfo(m, src.entries) /\ src.entries \subseteq Entries
        BY <1>1, CopyFacts
    <2>5. (src.copy = Table(Copy))' /\ (src.meta = TableInfo(Input, src.entries))'
          /\ (src.entries \subseteq Entries)'
        BY <1>1, <1>6, <2>4
    <2>6. (~files[Table(Copy)].whole)'  BY <1>6, <1>9
    <2>7. QED  BY <1>1, <2>1, <2>2, <2>3, <2>5, <2>6 DEF CopyInv
<1>15. IntactInv' /\ DescriptorInv'  BY <1>1, <1>5, AsideKeeps DEF DescriptorInv
<1>16. FirstInv'
    <2>1. /\ runs = 1 =>
                /\ \A k \in table_numbers_ : InPlace(Table(k))'
                /\ \A k \in logs_ : InPlace(Log(k))'
                /\ \A name \in DOMAIN start : name[2] = "table" => name[3] < next_file_number_
                /\ \A k \in Whole : k \in table_numbers_ \cup Listed \/ k = c
          /\ runs <= 1 =>
                /\ runs = 1 /\ Table(c) \notin DOMAIN start
                /\ \A name \in DOMAIN start : name[2] \in {"log", "table"} =>
                        InPlace(name)' \/ InLost(name)' \/ name = Table(m)
        BY <1>1, <1>5, AsideKeeps
    <2>2. runs = 1 => InLost(Table(m))'
        <3>1. runs = 1 => InPlace(Table(m))  BY <1>1 DEF IInv, FirstInv
        <3>2. QED  BY <1>1, <1>4, <1>6, <3>1 DEF InPlace, InLost
    <2>3. c \notin Whole'  BY <1>9 DEF Whole
    <2>4. runs = 1 => \A k \in Whole' : k \in table_numbers_ \cup Listed  BY <1>9, <2>1, <2>3
    <2>5. runs <= 1 => \A name \in DOMAIN start : name[2] \in {"log", "table"} =>
                        InPlace(name)' \/ InLost(name)'
        BY <1>6, <2>1, <2>2
    <2>6. runs' <= 1 => \A name \in DOMAIN start' :
                        name[2] \in {"log", "table"} => InPlace(name)' \/ InLost(name)'
        BY <1>1, <2>5
    <2>7. runs' = 1 =>
            /\ \A k \in table_numbers_' : InPlace(Table(k))'
            /\ \A k \in logs_' : InPlace(Log(k))'
            /\ \A name \in DOMAIN start' : name[2] = "table" => name[3] < next_file_number_'
            /\ \A k \in Whole' : k \in table_numbers_' \cup Listed'
        BY <1>1, <1>6, <2>1, <2>4
    <2>8. runs' = 1 => Table(Copy') \notin DOMAIN start' /\ InLost(Table(Input))'
        <3>1. runs = 1 => runs <= 1  BY <1>2
        <3>2. QED  BY <1>1, <1>6, <2>1, <2>2, <3>1
    <2>9. pc' # "copied"  BY <1>1
    <2>10. QED  BY <2>6, <2>7, <2>8, <2>9, Zenon DEF FirstInv
<1>17. QED  BY <1>10, <1>11, <1>12, <1>13, <1>14, <1>15, <1>16 DEF IInv

\* The copy is abandoned, finished or removed.
LEMMA FinishStep == ASSUME IInv, RepairTable_Finish PROVE IInv'
<1> DEFINE m == Input
<1> DEFINE c == Copy
<1>1. /\ pc = "archived" /\ Copying
      /\ UNCHANGED <<start, runs, logs_, table_numbers_, manifests_, tables_, next_file_number_, src>>
    BY DEF RepairTable_Finish, repairer, Copying
<1>2. /\ m \in Nat \ Listed /\ m < next_file_number_ /\ ~Intact(m) /\ m \notin Tables
      /\ c \in Tables \ Listed /\ ~Intact(c) /\ m # c /\ m \notin table_numbers_ /\ c \notin table_numbers_
      /\ src.copy = Table(c) /\ src.meta = TableInfo(m, src.entries) /\ src.entries \subseteq Entries
      /\ ~files[Table(c)].whole /\ next_file_number_ \in Nat \ {0} /\ pc # "idle"
      /\ runs \in Nat /\ Bound(runs) \in Nat
    BY <1>1, CopyFacts
<1>3. /\ Table(c) \in DOMAIN files /\ files[Table(c)] \in Contained
      /\ c <= Bound(runs) /\ c < next_file_number_ /\ c \in Nat
    BY <1>2, TableIs
<1>4. \/ pc' = "run" /\ files' = files
      \/ pc' = "run" /\ files' = Deleted(Table(c))
      \/ pc' = "finished" /\ files' = Created(Table(c), Contents(TRUE, src.entries, TRUE))
    BY <1>2 DEF RepairTable_Finish
<1>5. /\ \A name : name # Table(c) => Untouched(name)
      /\ pc' = "run" => DOMAIN files' \subseteq DOMAIN files
                        /\ (Table(c) \in DOMAIN files' => files'[Table(c)] = files[Table(c)])
      /\ pc' = "finished" => /\ DOMAIN files' = DOMAIN files
                             /\ files'[Table(c)] = Contents(TRUE, src.entries, TRUE)
    <2>1. CASE pc' = "run" /\ files' = files  BY <2>1 DEF Untouched
    <2>2. CASE pc' = "run" /\ files' = Deleted(Table(c))
        <3>1. /\ \A name : name # Table(c) => Untouched(name)
              /\ DOMAIN files' = DOMAIN files \ {Table(c)}
            BY <2>2, DeletedIs
        <3>2. QED  BY <2>2, <3>1
    <2>3. CASE pc' = "finished" /\ files' = Created(Table(c), Contents(TRUE, src.entries, TRUE))
        <3>1. /\ \A name : name # Table(c) => Untouched(name)
              /\ DOMAIN files' = DOMAIN files \cup {Table(c)}
              /\ files'[Table(c)] = Contents(TRUE, src.entries, TRUE)
            BY <2>3, CreatedIs
        <3>2. QED  BY <1>3, <2>3, <3>1
    <2>4. QED  BY <1>4, <2>1, <2>2, <2>3
<1>6. Aside  BY <1>5 DEF Aside
<1>7. Input' = m /\ Copy' = c /\ Listed' = Listed /\ pc' \in {"run", "finished"}
    BY <1>1, <1>4 DEF Input, Copy, Listed
<1>8. /\ Tables' \subseteq Tables /\ m \notin Tables'
      /\ pc' = "finished" => c \in Tables'
    <2>1. DOMAIN files' \subseteq DOMAIN files  BY <1>5, <1>7
    <2>2. Tables' \subseteq Tables  BY <2>1, OfTypeIs, OfTypePrimed
    <2>3. pc' = "finished" => c \in Tables'  BY <1>3, <1>5, OfTypePrimed
    <2>4. QED  BY <1>2, <2>2, <2>3
<1>9. Whole' \subseteq Whole \cup {c} /\ (pc' = "run" => c \notin Whole')
    <2>1. \A k : k # m /\ k # c => (k \in Whole' <=> k \in Whole)  BY <1>1, <1>6, <1>7, AsideKeeps
    <2>2. m \notin Whole'  BY <1>8 DEF Whole
    <2>3. pc' = "run" => c \notin Whole'  BY <1>2, <1>5, OfTypePrimed DEF Whole
    <2>4. QED  BY <2>1, <2>2, <2>3
<1>10. StartInv'  BY <1>1, <1>6, <1>7, AsideKeeps
<1>11. NameInv'
    <2>1. /\ Table(c) \in Dirs \X Types \X Nat /\ Table(c)[1] = "db" /\ Table(c)[2] = "table"
          /\ Table(c)[3] = c
        BY <1>3 DEF Table, Dirs, Types
    <2>2. \A name \in DOMAIN files' : name # Table(c) => Untouched(name)  BY <1>5
    <2>3. next_file_number_ \in Nat /\ next_file_number_' \in Nat /\ next_file_number_ <= next_file_number_'
        BY <1>1, <1>2
    <2>4. Contents(TRUE, src.entries, TRUE) \in Contained  BY <1>2 DEF Contents, Contained
    <2>5. Table(c) \in DOMAIN files' => files'[Table(c)] \in Contained  BY <1>3, <1>5, <1>7, <2>4
    <2>6. DOMAIN files' \subseteq DOMAIN files \cup {Table(c)}  BY <1>5, <1>7
    <2>7. c < next_file_number_' /\ pc' # "idle" /\ runs' = runs  BY <1>1, <1>3, <1>7
    <2>8. QED  BY <1>2, <1>3, <2>1, <2>2, <2>3, <2>5, <2>6, <2>7, NameKept DEF IInv
<1>12. CountInv'
    <2>1. IsFiniteSet(Tables) /\ Cardinality(Tables) \in Nat  BY NumbersFinite DEF IInv
    <2>2. IsFiniteSet(Tables') /\ Cardinality(Tables') <= Cardinality(Tables)
        BY <1>8, <2>1, FS_Subset
    <2>3. Cardinality(Tables') \in Nat  BY <2>2, FS_CardinalityType
    <2>4. Cardinality(Tables) <= Cardinality(Numbers) + (runs - 1) + 0
          /\ next_file_number_ + Cardinality(table_numbers_) <= Bound(runs)
        BY <1>1 DEF IInv, CountInv
    <2>5. Cardinality(Numbers) \in Nat  BY NumbersAre
    <2>6. Cardinality(Tables') <= Cardinality(Numbers) + (runs - 1) + 0
        BY <1>2, <2>1, <2>2, <2>3, <2>4, <2>5
    <2>7. QED  BY <1>1, <1>7, <2>4, <2>6 DEF CountInv, Bound, PerRun
<1>13. RepairerInv'
    <2>1. /\ table_numbers_ \subseteq Tables' /\ logs_ \subseteq OfType("log")'
          /\ \A t \in tables_ : /\ t.number \in Whole' \ table_numbers_
                                /\ t = TableInfo(t.number, files'[Table(t.number)].entries)
        BY <1>1, <1>6, <1>7, AsideKeeps
    <2>2. manifests_ \subseteq 0 .. Bound(runs)  BY DEF IInv, RepairerInv
    <2>3. QED  BY <1>1, <1>2, <1>7, <2>1, <2>2 DEF RepairerInv
<1>14. CopyInv'
    <2>1. SUFFICES ASSUME pc' = "finished" PROVE CopyInv'  BY <1>7 DEF CopyInv, Copying
    <2>2. (Input \in Nat \ Listed)' /\ (Copy \in Tables \ Listed)' /\ (Input < next_file_number_)'
          /\ (Input # Copy)' /\ (Input \notin Tables)'
        BY <1>1, <1>2, <1>7, <1>8, <2>1
    <2>3. (~Intact(Input))' /\ (~Intact(Copy))'  BY <1>1, <1>2, <1>7 DEF Intact
    <2>4. ({Input, Copy} \cap table_numbers_ = {})'  BY <1>1, <1>2, <1>7
    <2>5. (src.copy = Table(Copy))' /\ (src.meta = TableInfo(Input, src.entries))'
          /\ (src.entries \subseteq Entries)'
        BY <1>1, <1>2, <1>7
    <2>6. (files[Table(Copy)] = Contents(TRUE, src.entries, TRUE))'  BY <1>1, <1>5, <1>7, <2>1
    <2>7. QED  BY <2>1, <2>2, <2>3, <2>4, <2>5, <2>6 DEF CopyInv
<1>15. IntactInv' /\ DescriptorInv'  BY <1>1, <1>6, <1>7, AsideKeeps DEF DescriptorInv
<1>16. FirstInv'
    <2>1. /\ runs = 1 =>
                /\ \A k \in table_numbers_ : InPlace(Table(k))'
                /\ \A k \in logs_ : InPlace(Log(k))'
                /\ \A name \in DOMAIN start : name[2] = "table" => name[3] < next_file_number_
                /\ \A k \in Whole : k \in table_numbers_ \cup Listed \/ k = c
          /\ runs <= 1 =>
                /\ runs = 1 /\ Table(c) \notin DOMAIN start
                /\ \A name \in DOMAIN start : name[2] \in {"log", "table"} =>
                        InPlace(name)' \/ InLost(name)' \/ name = Table(m)
        BY <1>1, <1>6, <1>7, AsideKeeps
    <2>2. runs = 1 => InLost(Table(Input))'
        <3>1. runs = 1 => InLost(Table(m))  BY <1>1 DEF IInv, FirstInv
        <3>2. Untouched(Lost(Table(m)))
            <4>1. Lost(Table(m)) # Table(c)  BY DEF Lost, Table
            <4>2. QED  BY <1>5, <4>1
        <3>3. QED  BY <1>1, <1>7, <3>1, <3>2 DEF InLost, Untouched
    <2>3. runs = 1 => \A k \in Whole' : \/ k \in table_numbers_ \cup Listed
                                        \/ pc' = "finished" /\ k = c
        BY <1>7, <1>9, <2>1
    <2>4. runs <= 1 => \A name \in DOMAIN start : name[2] \in {"log", "table"} =>
                        InPlace(name)' \/ InLost(name)'
        BY <1>7, <2>1, <2>2
    <2>5. runs' <= 1 => \A name \in DOMAIN start' :
                        name[2] \in {"log", "table"} => InPlace(name)' \/ InLost(name)'
        BY <1>1, <2>4
    <2>6. runs' = 1 =>
            /\ \A k \in table_numbers_' : InPlace(Table(k))'
            /\ \A k \in logs_' : InPlace(Log(k))'
            /\ \A name \in DOMAIN start' : name[2] = "table" => name[3] < next_file_number_'
            /\ \A k \in Whole' : k \in table_numbers_' \cup Listed' \/ (pc' = "finished" /\ k = Copy')
        BY <1>1, <1>7, <2>1, <2>3
    <2>7. runs' = 1 => Table(Copy') \notin DOMAIN start' /\ InLost(Table(Input))'
        <3>1. runs = 1 => runs <= 1  BY <1>2
        <3>2. QED  BY <1>1, <1>7, <2>1, <2>2, <3>1
    <2>8. pc' # "copied"  BY <1>7
    <2>9. QED  BY <2>5, <2>6, <2>7, <2>8, Zenon DEF FirstInv
<1>17. QED  BY <1>10, <1>11, <1>12, <1>13, <1>14, <1>15, <1>16 DEF IInv

\* The copy takes the number of its table, which is in lost/.
LEMMA RenameStep == ASSUME IInv, RepairTable_Rename PROVE IInv'
<1> DEFINE m == Input
<1> DEFINE c == Copy
<1>1. /\ pc = "finished" /\ pc' = "run" /\ Copying /\ ~Copying'
      /\ tables_' = tables_ \cup {src.meta}
      /\ UNCHANGED <<start, runs, logs_, table_numbers_, manifests_, next_file_number_, src>>
    BY DEF RepairTable_Rename, Copying
<1>2. /\ m \in Nat \ Listed /\ m < next_file_number_ /\ ~Intact(m) /\ m \notin Tables
      /\ c \in Tables \ Listed /\ ~Intact(c) /\ m # c /\ m \notin table_numbers_ /\ c \notin table_numbers_
      /\ src.copy = Table(c) /\ src.meta = TableInfo(m, src.entries) /\ src.entries \subseteq Entries
      /\ files[Table(c)] = Contents(TRUE, src.entries, TRUE)
      /\ next_file_number_ \in Nat \ {0} /\ pc # "idle"
      /\ runs \in Nat /\ Bound(runs) \in Nat /\ src.meta.number = m
    BY <1>1, CopyFacts
<1>3. Table(c) \in DOMAIN files /\ files[Table(c)] \in Contained  BY <1>2, TableIs
<1>4. /\ \A name : name # Table(c) /\ name # Table(m) => Untouched(name)
      /\ Table(c) \notin DOMAIN files' /\ Table(m) \in DOMAIN files'
      /\ files'[Table(m)] = Contents(TRUE, src.entries, TRUE)
      /\ DOMAIN files' \subseteq DOMAIN files \cup {Table(m)}
    <2>1. Table(c) # Table(m)  BY <1>2, NamesApart
    <2>2. files' = Renamed(Table(c), Table(m))  BY <1>2 DEF RepairTable_Rename
    <2>3. QED  BY <1>2, <1>3, <2>1, <2>2, RenamedIs
<1>5. Aside  BY <1>4 DEF Aside
<1>6. Listed' = Listed \cup {m}  BY <1>1, <1>2 DEF Listed
<1>7. Tables' = (Tables \ {c}) \cup {m}
    <2>1. \A k : k # m /\ k # c => (k \in Tables' <=> k \in Tables)  BY <1>1, <1>5, AsideKeeps
    <2>2. m \in Tables' /\ c \notin Tables'  BY <1>4, OfTypePrimed
    <2>3. QED  BY <1>2, <2>1, <2>2
<1>8. m \in Whole' /\ Whole' \subseteq (Whole \ {c}) \cup {m}
    <2>1. \A k : k # m /\ k # c => (k \in Whole' <=> k \in Whole)  BY <1>1, <1>5, AsideKeeps
    <2>2. files'[Table(m)].whole  BY <1>4 DEF Contents
    <2>3. m \in Whole'  BY <1>7, <2>2 DEF Whole
    <2>4. c \notin Whole'  BY <1>2, <1>7 DEF Whole
    <2>5. QED  BY <2>1, <2>3, <2>4
<1>9. StartInv'  BY <1>1, <1>5, AsideKeeps
<1>10. m <= Bound(runs)
    <2>1. next_file_number_ + Cardinality(table_numbers_) <= Bound(runs)
        BY <1>2 DEF IInv, CountInv
    <2>2. Cardinality(table_numbers_) \in Nat  BY NumbersFinite DEF IInv
    <2>3. QED  BY <1>2, <2>1, <2>2
<1>11. NameInv'
    <2>1. /\ Table(m) \in Dirs \X Types \X Nat /\ Table(m)[1] = "db" /\ Table(m)[2] = "table"
          /\ Table(m)[3] = m
        BY <1>2 DEF Table, Dirs, Types
    <2>2. \A name \in DOMAIN files' : name # Table(m) => Untouched(name)  BY <1>4
    <2>3. next_file_number_ \in Nat /\ next_file_number_' \in Nat /\ next_file_number_ <= next_file_number_'
        BY <1>1, <1>2
    <2>4. files'[Table(m)] \in Contained  BY <1>2, <1>3, <1>4
    <2>5. m < next_file_number_' /\ pc' # "idle" /\ runs' = runs  BY <1>1, <1>2
    <2>6. QED  BY <1>2, <1>4, <1>10, <2>1, <2>2, <2>3, <2>4, <2>5, NameKept DEF IInv
<1>12. CountInv'
    <2>1. IsFiniteSet(Tables) /\ Cardinality(Tables) \in Nat  BY NumbersFinite DEF IInv
    <2>2. IsFiniteSet(Tables \ {c}) /\ Cardinality(Tables \ {c}) = Cardinality(Tables) - 1
        BY <1>2, <2>1, FS_RemoveElement
    <2>3. Cardinality(Tables') = Cardinality(Tables \ {c}) + 1
        BY <1>2, <1>7, <2>2, FS_AddElement
    <2>4. Cardinality(Tables') = Cardinality(Tables)  BY <2>1, <2>2, <2>3
    <2>5. Cardinality(Tables) <= Cardinality(Numbers) + (runs - 1) + 0
          /\ next_file_number_ + Cardinality(table_numbers_) <= Bound(runs)
        BY <1>1 DEF IInv, CountInv
    <2>6. QED  BY <1>1, <2>4, <2>5 DEF CountInv, Bound, PerRun
<1>13. RepairerInv'
    <2>1. /\ table_numbers_ \subseteq Tables' /\ logs_ \subseteq OfType("log")'
          /\ \A t \in tables_ : /\ t.number \in Whole' \ table_numbers_
                                /\ t = TableInfo(t.number, files'[Table(t.number)].entries)
        BY <1>1, <1>5, AsideKeeps
    <2>2. manifests_ \subseteq 0 .. Bound(runs)  BY DEF IInv, RepairerInv
    <2>3. files'[Table(m)].entries = src.entries
        <3>1. Contents(TRUE, src.entries, TRUE).entries = src.entries  BY DEF Contents
        <3>2. QED  BY <1>4, <3>1, Zenon
    <2>4. /\ src.meta.number \in Whole' \ table_numbers_
          /\ src.meta = TableInfo(src.meta.number, files'[Table(src.meta.number)].entries)
        BY <1>2, <1>8, <2>3
    <2>5. QED  BY <1>1, <1>2, <2>1, <2>2, <2>4 DEF RepairerInv
<1>14. IntactInv' /\ CopyInv' /\ DescriptorInv'
    BY <1>1, <1>5, AsideKeeps DEF CopyInv, DescriptorInv
<1>15. FirstInv'
    <2>1. /\ runs = 1 =>
                /\ \A k \in table_numbers_ : InPlace(Table(k))'
                /\ \A k \in logs_ : InPlace(Log(k))'
                /\ \A name \in DOMAIN start : name[2] = "table" => name[3] < next_file_number_
                /\ \A k \in Whole : k \in table_numbers_ \cup Listed \/ k = c
          /\ runs <= 1 =>
                /\ runs = 1
                /\ \A name \in DOMAIN start : name[2] \in {"log", "table"} =>
                        InPlace(name)' \/ InLost(name)' \/ name = Table(m)
        BY <1>1, <1>5, AsideKeeps
    <2>2. Input' = m  BY <1>1 DEF Input
    <2>3. runs = 1 => InLost(Table(Input))'
        <3>1. runs = 1 => InLost(Table(m))  BY <1>1 DEF IInv, FirstInv
        <3>2. Untouched(Lost(Table(m)))
            <4>1. Lost(Table(m)) # Table(c) /\ Lost(Table(m)) # Table(m)  BY DEF Lost, Table
            <4>2. QED  BY <1>4, <4>1
        <3>3. QED  BY <1>1, <2>2, <3>1, <3>2 DEF InLost, Untouched
    <2>4. runs = 1 => \A k \in Whole' : k \in table_numbers_ \cup Listed'
        BY <1>6, <1>8, <2>1
    <2>5. runs <= 1 => \A name \in DOMAIN start : name[2] \in {"log", "table"} =>
                        InPlace(name)' \/ InLost(name)'
        BY <2>1, <2>2, <2>3
    <2>6. QED  BY <1>1, <2>1, <2>4, <2>5 DEF FirstInv
<1>16. QED  BY <1>9, <1>11, <1>12, <1>13, <1>14, <1>15 DEF IInv
-----------------------------------------------------------------------------
(* The steps together *)

LEMMA StepHolds == IInv /\ [Next]_vars => IInv'
<1>1. SUFFICES ASSUME IInv, [Next]_vars PROVE IInv'  OBVIOUS
<1>2. CASE FindFiles  BY <1>1, <1>2, FindFilesStep
<1>3. CASE RepairTable_Archive  BY <1>1, <1>3, ArchiveStep
<1>4. CASE RepairTable_Finish  BY <1>1, <1>4, FinishStep
<1>5. CASE RepairTable_Rename  BY <1>1, <1>5, RenameStep
<1>6. CASE WriteDescriptor  BY <1>1, <1>6, WriteDescriptorStep
<1>7. CASE InstallManifest  BY <1>1, <1>7, InstallManifestStep
<1>8. CASE SetCurrentFile  BY <1>1, <1>8, SetCurrentFileStep
<1>9. CASE Exit  BY <1>1, <1>9, ExitStep
<1>10. ASSUME NEW n \in 0 .. MaxNumber, ConvertLogToTable(n) PROVE IInv'
    BY <1>1, <1>10, ConvertLogStep
<1>11. ASSUME NEW n \in 0 .. MaxNumber, ScanTable(n) PROVE IInv'
    BY <1>1, <1>11, ScanTableStep
<1>12. ASSUME NEW n \in 0 .. MaxNumber, ArchiveManifest(n) PROVE IInv'
    BY <1>1, <1>12, ArchiveManifestStep
<1>13. CASE UNCHANGED vars
    <2>1. UNCHANGED <<files, start, runs, logs_, table_numbers_, manifests_, tables_,
                      next_file_number_, src, pc>>
        BY <1>13 DEF vars, repairer
    <2>2. /\ Tables' = Tables /\ OfType("log")' = OfType("log") /\ Whole' = Whole /\ Listed' = Listed
          /\ Input' = Input /\ Copy' = Copy /\ Copying' = Copying /\ Edit' = Edit
        BY <2>1 DEF Tables, OfType, Whole, Listed, Input, Copy, Copying, Edit
    <2>3. StartInv' /\ NameInv' /\ CountInv'
        BY <1>1, <2>1, <2>2 DEF IInv, StartInv, NameInv, CountInv, Bound, PerRun
    <2>4. RepairerInv'  BY <1>1, <2>1, <2>2 DEF IInv, RepairerInv
    <2>5. CopyInv' /\ IntactInv'
        BY <1>1, <2>1, <2>2 DEF IInv, CopyInv, IntactInv, Intact
    <2>6. FirstInv'  BY <1>1, <2>1, <2>2 DEF IInv, FirstInv, InPlace, InLost
    <2>7. DescriptorInv'  BY <1>1, <2>1, <2>2 DEF IInv, DescriptorInv
    <2>8. QED  BY <2>3, <2>4, <2>5, <2>6, <2>7 DEF IInv
<1>14. QED
    <2>1. \/ FindFiles \/ RepairTable_Archive \/ RepairTable_Finish \/ RepairTable_Rename
          \/ WriteDescriptor \/ InstallManifest \/ SetCurrentFile \/ Exit
          \/ \E n \in 0 .. MaxNumber : ConvertLogToTable(n) \/ ScanTable(n) \/ ArchiveManifest(n)
          \/ UNCHANGED vars
        BY <1>1, Zenon DEF Next
    <2>2. QED
        BY <1>2, <1>3, <1>4, <1>5, <1>6, <1>7, <1>8, <1>9, <1>10, <1>11, <1>12, <1>13, <2>1, Zenon

\* Numbers stay below the bound of MaxRuns calls: no copy, and no death, uses up more.
LEMMA TypesFollow == IInv => TypeOK
<1>1. SUFFICES ASSUME IInv PROVE TypeOK  OBVIOUS
<1>2. runs \in 0 .. MaxRuns /\ MaxRuns \in Nat  BY <1>1, RepairAssumption DEF IInv, StartInv
<1>3. Bound(runs) \in Nat \ {0} /\ Bound(runs) <= MaxNumber  BY <1>2, BoundsAre
<1>4. Bound(MaxRuns) \in Nat \ {0} /\ Bound(MaxRuns) = MaxNumber
    <2>1. Bound(MaxRuns) \in Nat \ {0}  BY <1>2, BoundsAre
    <2>2. Bound(MaxRuns) = MaxNumber  BY DEF MaxNumber, Bound, PerRun
    <2>3. QED  BY <2>1, <2>2
<1>5. ASSUME NEW name \in DOMAIN files
      PROVE  /\ name \in Dirs \X Types \X (0 .. MaxNumber) /\ name[3] \in 0 .. Bound(runs)
             /\ name[2] \in {"log", "table"} => files[name] \in Contained
    <2>1. /\ name \in Dirs \X Types \X Nat /\ name[3] <= Bound(runs)
          /\ name[2] \in {"log", "table"} => files[name] \in Contained
        BY <1>1 DEF IInv, NameInv
    <2>2. name[3] \in 0 .. MaxNumber /\ name[3] \in 0 .. Bound(runs)  BY <1>3, <1>4, <2>1
    <2>3. QED  BY <2>1, <2>2
<1>6. Tables \subseteq 0 .. MaxNumber /\ OfType("log") \subseteq 0 .. MaxNumber
    <2>1. ASSUME NEW type, NEW n \in OfType(type) PROVE n \in 0 .. MaxNumber
        <3>1. <<"db", type, n>> \in DOMAIN files  BY OfTypeIs
        <3>2. <<"db", type, n>>[3] = n  OBVIOUS
        <3>3. <<"db", type, n>>[3] \in 0 .. MaxNumber  BY <1>5, <3>1
        <3>4. QED  BY <3>2, <3>3
    <2>2. QED  BY <2>1 DEF Tables
<1>7. logs_ \cup table_numbers_ \cup manifests_ \subseteq 0 .. MaxNumber
    <2>1. 0 .. Bound(runs) \subseteq 0 .. MaxNumber  BY <1>3, <1>4
    <2>2. QED  BY <1>1, <1>6, <2>1 DEF IInv, RepairerInv
<1>8. next_file_number_ \in 1 .. MaxNumber
    <2>1. next_file_number_ \in Nat \ {0} /\ (pc = "idle" => next_file_number_ = 1)
        BY <1>1 DEF IInv, RepairerInv
    <2>2. pc # "idle" => next_file_number_ + Cardinality(table_numbers_) <= Bound(runs)
        BY <1>1 DEF IInv, CountInv
    <2>3. Cardinality(table_numbers_) \in Nat  BY <1>1, NumbersFinite DEF IInv
    <2>4. QED  BY <1>3, <1>4, <2>1, <2>2, <2>3
<1>9. {t.number : t \in tables_} \subseteq 0 .. MaxNumber
    <2>1. \A t \in tables_ : t.number \in Whole  BY <1>1 DEF IInv, RepairerInv
    <2>2. Whole \subseteq Tables  BY DEF Whole
    <2>3. \A t \in tables_ : t.number \in 0 .. MaxNumber  BY <1>6, <2>1, <2>2
    <2>4. QED  BY <2>3
<1>10. QED  BY <1>2, <1>5, <1>7, <1>8, <1>9 DEF TypeOK, Dirs, Types, Contained

LEMMA IntactFollows == IInv => IntactStay
<1>1. SUFFICES ASSUME IInv, NEW n \in Numbers, Table(n) \in DOMAIN start, start[Table(n)].whole
               PROVE  /\ Table(n) \in DOMAIN files /\ files[Table(n)] = start[Table(n)]
                      /\ pc = "ok" =>
                            TableInfo(n, start[Table(n)].entries) \in files[Manifest(1)].edit.files
    BY DEF IntactStay
<1>2. /\ Table(n) \in DOMAIN files /\ files[Table(n)] = start[Table(n)]
      /\ pc # "idle" => n \in table_numbers_ \/ TableInfo(n, start[Table(n)].entries) \in tables_
    BY <1>1 DEF IInv, IntactInv, Intact
<1>3. pc = "ok" => table_numbers_ = {} /\ files[Manifest(1)] = [protected |-> TRUE, edit |-> Edit]
    BY <1>1 DEF IInv, DescriptorInv
<1>4. Edit.files = tables_  BY DEF Edit
<1>5. pc = "ok" => files[Manifest(1)].edit = Edit  BY <1>3
<1>6. pc = "ok" => TableInfo(n, start[Table(n)].entries) \in tables_  BY <1>2, <1>3
<1>7. QED  BY <1>2, <1>4, <1>5, <1>6, Zenon

\* last_sequence is no smaller than the sequence number of any listed table.
LEMMA SequencesFollow == IInv => \A t \in tables_ : t.max_sequence <= Edit.last_sequence
<1>1. SUFFICES ASSUME IInv PROVE \A t \in tables_ : t.max_sequence <= Edit.last_sequence  OBVIOUS
<1> DEFINE S == {0} \cup {t.max_sequence : t \in tables_}
<1>2. PICK last \in Entries : \A d \in Entries : d[2] <= last[2]  BY RepairAssumption
<1>3. last[2] \in Nat /\ \A e \in Entries : e[2] \in Nat  BY RepairAssumption
<1>4. ASSUME NEW t \in tables_ PROVE t.max_sequence \in Nat /\ t.max_sequence <= last[2]
    <2>1. /\ t.number \in Tables
          /\ t = TableInfo(t.number, files[Table(t.number)].entries)
        BY <1>1 DEF IInv, RepairerInv, Whole
    <2>2. pc # "idle"  BY <1>1 DEF IInv, RepairerInv
    <2>3. files[Table(t.number)].entries \in SUBSET Entries  BY <1>1, <2>1, <2>2, TableIs DEF Contained
    <2>4. /\ t.max_sequence \in Nat /\ \E e \in Entries : t.max_sequence <= e[2]
        BY <2>1, <2>3, InfoIs
    <2>5. QED  BY <1>2, <1>3, <2>4
<1>5. S \in SUBSET Nat /\ S # {} /\ \A n \in S : n <= last[2]  BY <1>3, <1>4
<1>6. Edit.last_sequence = Max(S)  BY DEF Edit
<1>7. \A t \in tables_ : t.max_sequence \in S  OBVIOUS
<1> HIDE DEF S
<1>8. \A n \in S : n <= Max(S)  BY <1>3, <1>5, MaxIs
<1>9. QED  BY <1>6, <1>7, <1>8

\* The field of a CURRENT file, and the one of a descriptor.
LEMMA ManifestOf ==
    ASSUME NEW f, NEW m, f = [protected |-> FALSE, manifest |-> m] PROVE f.manifest = m
  OBVIOUS

LEMMA EditOf ==
    ASSUME NEW f, NEW e, f = [protected |-> TRUE, edit |-> e] PROVE f.edit = e
  OBVIOUS

LEMMA DescriptorFollows == IInv => DescriptorExact
<1>1. SUFFICES ASSUME IInv, pc = "ok" PROVE DescriptorExact  BY TypesFollow DEF DescriptorExact
<1>2. /\ table_numbers_ = {} /\ files[Manifest(1)] = [protected |-> TRUE, edit |-> Edit]
      /\ files[Current] = [protected |-> FALSE, manifest |-> 1]
    BY <1>1 DEF IInv, DescriptorInv
<1>3. files[Manifest(files[Current].manifest)].edit = Edit
    <2>1. files[Current].manifest = 1  BY <1>2, ManifestOf, Zenon
    <2>2. files[Manifest(1)].edit = Edit  BY <1>2, EditOf, Zenon
    <2>3. QED  BY <2>1, <2>2, Zenon
<1>4. Edit.files = tables_ /\ Edit.next_file = next_file_number_  BY DEF Edit
<1>5. Listed \subseteq Whole /\ \A t \in tables_ : t = TableInfo(t.number, files[Table(t.number)].entries)
    BY <1>1 DEF IInv, RepairerInv, Listed
<1>6. runs = 1 => Whole \subseteq Listed  BY <1>1, <1>2 DEF IInv, FirstInv
<1>7. \A n \in OfType("table") \cup OfType("log") : n < next_file_number_
    <2>1. ASSUME NEW type \in {"log", "table"}, NEW n \in OfType(type) PROVE n < next_file_number_
        <3>1. <<"db", type, n>> \in DOMAIN files  BY OfTypeIs
        <3>2. /\ <<"db", type, n>>[1] = "db" /\ <<"db", type, n>>[2] = type /\ <<"db", type, n>>[3] = n
            OBVIOUS
        <3>3. <<"db", type, n>>[3] < next_file_number_  BY <1>1, <3>1, <3>2 DEF IInv, NameInv
        <3>4. QED  BY <3>2, <3>3
    <2>2. QED  BY <2>1
<1>8. \A t \in tables_ : t.max_sequence <= Edit.last_sequence  BY <1>1, SequencesFollow
<1>9. TypeOK  BY <1>1, TypesFollow
<1>10. /\ {t.number : t \in Edit.files} \subseteq {n \in OfType("table") : files[Table(n)].whole}
       /\ runs = 1 => {t.number : t \in Edit.files} = {n \in OfType("table") : files[Table(n)].whole}
    BY <1>4, <1>5, <1>6 DEF Listed, Whole, Tables
<1>11. QED  BY <1>3, <1>4, <1>5, <1>7, <1>8, <1>9, <1>10 DEF DescriptorExact

LEMMA FirstFollows == IInv => FirstRunKeeps
BY DEF IInv, FirstInv, FirstRunKeeps, InPlace, InLost

-----------------------------------------------------------------------------
(* Theorems *)

\* The invariant above holds whatever fails and wherever a call dies.
THEOREM RepairInductive == Spec => []IInv
<1>1. Init => IInv  BY InitHolds
<1>2. IInv /\ [Next]_vars => IInv'  BY StepHolds
<1>3. QED  BY <1>1, <1>2, PTL DEF Spec

\* RepairTable and "next_file_number_ = number + 1": whatever dies or fails, in whatever
\* call, a table that can be read to its end stays what and where it is, and a repair that
\* returns OK has it in the new descriptor.
THEOREM IntactTablesStay == Spec => []IntactStay
<1>1. Spec => []IInv  BY RepairInductive
<1>2. IInv => IntactStay  BY IntactFollows
<1>3. QED  BY <1>1, <1>2, PTL

\* WriteDescriptor: when RepairDB returns OK, CURRENT names a descriptor that lists whole
\* tables as they are, in the first call all of them, with a sequence number no smaller than
\* theirs and a next file number above every table and log; and the numbers that MaxRuns
\* calls use, deaths included, stay within MaxNumber.
THEOREM DescriptorIsExact == Spec => []DescriptorExact
<1>1. Spec => []IInv  BY RepairInductive
<1>2. IInv => DescriptorExact  BY DescriptorFollows
<1>3. QED  BY <1>1, <1>2, PTL

\* ArchiveFile: until RepairDB is called again, each table and log of before is in its place
\* or in lost/, with all that can be read of it.
THEOREM FirstCallKeeps == Spec => []FirstRunKeeps
<1>1. Spec => []IInv  BY RepairInductive
<1>2. IInv => FirstRunKeeps  BY FirstFollows
<1>3. QED  BY <1>1, <1>2, PTL
=============================================================================
