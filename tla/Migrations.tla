----------------------------- MODULE Migrations -----------------------------
(***************************************************************************)
(* migrations/embed.go: Apply executes the embedded .sql files in lexical  *)
(* order at every start.  No table records what was applied: the scripts   *)
(* are written so that running one again changes nothing.  A file is one   *)
(* Exec without arguments, hence one implicit transaction.                 *)
(***************************************************************************)
EXTENDS Integers, Sequences, FiniteSets

CONSTANT Listing  \* the embedded directory, in the order it is listed:
                  \* entries with a rank in lexical order, dir, sql

ASSUME ListingAssumption ==
  Listing \in Seq([name : Nat, dir : BOOLEAN, sql : BOOLEAN])

VARIABLES
  schema,    \* database: the files whose effects are there
  remaining  \* the files Apply has not executed yet

migrationVars == <<schema, remaining>>

IsMigration(entry) == ~entry.dir /\ entry.sql

(* The files that Apply executes, whatever is in the database.             *)
FileNames == {Listing[i].name : i \in {j \in 1..Len(Listing) :
                                         IsMigration(Listing[j])}}

(* Mutant of Files: the listing is taken as it comes.                      *)
FilesAsListed ==
  LET kept == SelectSeq(Listing, IsMigration)
  IN [i \in 1..Len(kept) |-> kept[i].name]

(* sort.Strings; the names in a directory are distinct.                    *)
Files ==
  LET n == Cardinality(FileNames)
  IN CHOOSE s \in [1..n -> FileNames] : \A i, j \in 1..n : i < j => s[i] < s[j]

MigrationsInit == schema = {} /\ remaining = <<>>

ApplyStart == remaining' = Files /\ UNCHANGED schema

ExecFile ==
  /\ remaining # <<>>
  /\ schema' = schema \cup {Head(remaining)}
  /\ remaining' = Tail(remaining)

(* Every file is applied after those that precede it in lexical order, on  *)
(* which it may build, also when a start failed halfway.                   *)
SchemaInOrder ==
  \A f \in schema : \A g \in FileNames : g < f => g \in schema

=============================================================================
