------------------------------- MODULE MockData -------------------------------
(***************************************************************************)
(* The collections that the mock-data endpoints administer (src/mockdata). *)
(* A create is an upsert: it looks for a document of that name and updates *)
(* it in place, or else inserts one. The two halves are one operation of   *)
(* the database only where a unique index makes them one.                  *)
(*                                                                         *)
(* Names that the code treats alike (addresses in another letter case or   *)
(* with blanks around them) are one name here.                             *)
(***************************************************************************)
EXTENDS Integers, FiniteSets, FiniteSetsExt, Functions

CONSTANTS
    Collections,   \* the collections with upserts: "locations", "stock", "credit-cards"
    Unique,        \* those with a unique index on the name
    Adding,        \* those whose update is an $inc
    Writes,        \* POST requests, and the seeds of starting instances
    Seeds,         \* those of Writes that onModuleInit makes
    Into,          \* Into[w]: the collection of w
    Name,          \* Name[w]: the address, the card number, or the pair of the stock row
    Value,         \* Value[w]: the coordinates, the pinned outcome, or the quantity
    MaxRemoves     \* bound: DELETEs

ASSUME MockDataAssumption ==
    /\ Unique \subseteq Collections /\ Adding \subseteq Unique /\ Seeds \subseteq Writes
    /\ Into \in [Writes -> Collections] /\ Value \in [Writes -> Nat]
    /\ DOMAIN Name = Writes
    /\ \A w \in Seeds : Into[w] \notin Unique
    /\ MaxRemoves \in Nat

VARIABLES
    docs,      \* docs[c]: the documents; the id of a document is the write that inserted it
    write,     \* write[w]: where the write is
    removes

dataVars == <<docs, write, removes>>

Names == {Name[w] : w \in Writes}
Documents == [id : Writes, name : Names, value : Nat]

DataTypeOK ==
    /\ docs \in [Collections -> SUBSET Documents]
    /\ write \in [Writes -> {"unsent", "match", "insert", "done", "failed"}]
    /\ removes \in 0..MaxRemoves

DataInit ==
    /\ docs = [c \in Collections |-> {}]
    /\ write = [w \in Writes |-> "unsent"]
    /\ removes = 0

Matching(w) == {d \in docs[Into[w]] : d.name = Name[w]}

Updated(w, d) ==
    [d EXCEPT !.value = IF Into[w] \in Adding THEN d.value + Value[w] ELSE Value[w]]

Post(w) ==
    /\ w \notin Seeds /\ write[w] = "unsent"
    /\ write' = [write EXCEPT ![w] = "match"]
    /\ UNCHANGED <<docs, removes>>

(* The match of findOneAndUpdate, and its update if there is one.          *)
Match(w) ==
    /\ write[w] = "match"
    /\ \/ \E d \in Matching(w) :
              /\ docs' = [docs EXCEPT ![Into[w]] = (@ \ {d}) \cup {Updated(w, d)}]
              /\ write' = [write EXCEPT ![w] = "done"]
       \/ /\ Matching(w) = {}
          /\ write' = [write EXCEPT ![w] = "insert"]
          /\ UNCHANGED docs
    /\ UNCHANGED removes

(* Mutant: the index is not unique.                                        *)
InsertAnyway(w) ==
    /\ write[w] = "insert"
    /\ docs' = [docs EXCEPT ![Into[w]] = @ \cup {[id |-> w, name |-> Name[w], value |-> Value[w]]}]
    /\ write' = [write EXCEPT ![w] = "done"]
    /\ UNCHANGED removes

(* Its insert. A unique index refuses a second one; the database then      *)
(* matches again.                                                          *)
Insert(w) ==
    /\ write[w] = "insert"
    /\ IF Into[w] \in Unique /\ Matching(w) # {}
       THEN write' = [write EXCEPT ![w] = "match"] /\ UNCHANGED docs
       ELSE /\ docs' = [docs EXCEPT ![Into[w]] =
                          @ \cup {[id |-> w, name |-> Name[w], value |-> Value[w]]}]
            /\ write' = [write EXCEPT ![w] = "done"]
    /\ UNCHANGED removes

(* onModuleInit of an instance: the default addresses into a collection    *)
(* that it found empty.                                                    *)
CountDocuments(w) ==
    /\ w \in Seeds /\ write[w] = "unsent"
    /\ write' = [write EXCEPT ![w] = IF docs[Into[w]] = {} THEN "insert" ELSE "done"]
    /\ UNCHANGED <<docs, removes>>

(* DELETE of an id: a document, or the 404.                                *)
Remove(c, id) ==
    /\ removes < MaxRemoves
    /\ removes' = removes + 1
    /\ docs' = [docs EXCEPT ![c] = {d \in @ : d.id # id}]
    /\ UNCHANGED write

(* A database error, before the write has done anything.                   *)
WriteFails(w) ==
    /\ write[w] \in {"match", "insert"}
    /\ write' = [write EXCEPT ![w] = "failed"]
    /\ UNCHANGED <<docs, removes>>

WriteStep(w) == Match(w) \/ Insert(w)
=============================================================================
