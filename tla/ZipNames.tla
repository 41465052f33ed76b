------------------------------- MODULE ZipNames -------------------------------
(***************************************************************************)
(* The names downloadGroupAsZip (crypto.js) gives the entries of a zip, in *)
(* the order the encoder pulls them.  A sanitized name is a sequence: a    *)
(* stem, and the numbers appended to it, so that "a-2" is <<"a", 2>> both  *)
(* as a name of its own and as the second "a".                             *)
(***************************************************************************)
EXTENDS Naturals, Sequences

CONSTANTS
    Raw,       \* names the files may have
    Clean,     \* [Raw -> sanitized name, or <<>> for an empty name]: safeZipName
    Entries    \* files of the group

ASSUME ZipBounds ==
    /\ Entries \in Nat /\ DOMAIN Clean = Raw
    /\ \A n \in Raw : /\ Len(Clean[n]) \in Nat
                     /\ Clean[n] = [k \in 1 .. Len(Clean[n]) |-> Clean[n][k]]

VARIABLES
    raws,      \* [1 .. Entries -> Raw]
    used,      \* usedNames
    given      \* the entries so far: [name, numbered]

zipVars == <<raws, used, given>>

NamesInit ==
    /\ raws \in [1 .. Entries -> Raw]
    /\ used = [n \in {} |-> 0]
    /\ given = <<>>

NamesIdle ==
    /\ raws = [i \in 1 .. Entries |-> CHOOSE n \in Raw : TRUE]
    /\ used = [n \in {} |-> 0] /\ given = <<>>

\* Files without a name get their place: "file-1", "file-2", ...
Base(i) == IF Clean[raws[i]] = <<>> THEN <<"file", i>> ELSE Clean[raws[i]]

\* Mutant: the counter is kept per raw name.
CountsRaw(i) == <<raws[i]>>

Counted(i) == Base(i)

Entry(name, numbered) == [name |-> name, numbered |-> numbered]

\* uniqueName, when entry i is pulled: a repeated name gets its count appended,
\* and the name so made is not itself counted.
NameNext ==
    LET i == Len(given) + 1
        n == Counted(i)
        k == used[n] + 1
    IN  /\ i <= Entries
        /\ \/ /\ n \notin DOMAIN used
              /\ used' = [m \in DOMAIN used \cup {n} |-> IF m = n THEN 1 ELSE used[m]]
              /\ given' = Append(given, Entry(Base(i), FALSE))
           \/ /\ n \in DOMAIN used
              /\ used' = [used EXCEPT ![n] = k]
              /\ given' = Append(given, Entry(Append(Base(i), k), TRUE))
        /\ UNCHANGED raws

NamesSpec == NamesInit /\ [][NameNext]_zipVars

-----------------------------------------------------------------------------
\* Two entries of a zip have the same name only where one was numbered and the
\* other was called so from the start, as in "a", "a", "a-2": entries with names
\* of their own never coincide, although different raw names sanitize to the
\* same, and neither do numbered ones.
ZipNamesApart ==
    \A i, j \in DOMAIN given :
        i # j /\ given[i].name = given[j].name => given[i].numbered # given[j].numbered
=============================================================================
