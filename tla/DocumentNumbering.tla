-------------------------- MODULE DocumentNumbering --------------------------
(***************************************************************************)
(* next_document_number of core/numbering/service.py inside the            *)
(* transactions of the documents that call it (pos/models.py Sale.save and *)
(* others, inventory/services).                                            *)
(*                                                                         *)
(* A transaction locks the DocumentSequence row of its scope, or creates   *)
(* one, takes the next number, inserts its document, whose printed number  *)
(* is unique in the business, and commits.  One document type, one fiscal  *)
(* year and one day, the smallest unit of the dates in the numbers.        *)
(* The database runs at READ COMMITTED (see BranchStock).                  *)
(***************************************************************************)
EXTENDS Integers, Sequences, FiniteSets

CONSTANTS
  Tx,               \* the transactions; each creates one document
  Scope,            \* the branches documents are created for
  NoBranch,         \* branch IS NULL, the company-wide scope
  Nobody,           \* no transaction
  ExistingScopes,   \* the scopes whose row exists already, in id order
  Issued,           \* their numbers issued on earlier days
  BranchInPattern,  \* whether format_pattern has a {branch_code}
  HasFallback       \* whether the document's save has a legacy numbering

ASSUME NumberingAssumption ==
  /\ ExistingScopes \in Seq(Scope)
  /\ \A j, k \in DOMAIN ExistingScopes : ExistingScopes[j] = ExistingScopes[k] => j = k
  /\ Issued \in [DOMAIN ExistingScopes -> Nat]
  /\ BranchInPattern \in BOOLEAN /\ HasFallback \in BOOLEAN
  /\ Nobody \notin Tx

VARIABLES
  rows,    \* the rows of DocumentSequence, in the order of their ids
  scope,   \* the scope of a transaction's document
  pc,      \* what a transaction does next
  row,     \* the row it has locked, 0 if none
  number,  \* the number it has taken
  docs     \* the transactions whose documents are committed

numberingVars == <<rows, scope, pc, row, number, docs>>

Row == [scope : Scope, number : Nat,
        creator : Tx \cup {Nobody},   \* while its insertion is not committed
        gone : BOOLEAN,               \* its insertion was rolled back
        holder : Tx \cup {Nobody}]

Pc == {"idle", "select", "create", "fallback", "insert", "commit",
       "committed", "rolled_back", "collided"}
Running == {"select", "create", "fallback", "insert", "commit"}

NumberingInit ==
  /\ rows = [k \in DOMAIN ExistingScopes |->
       [scope |-> ExistingScopes[k], number |-> Issued[k], creator |-> Nobody,
        gone |-> FALSE, holder |-> Nobody]]
  /\ scope \in [Tx -> Scope]
  /\ pc = [t \in Tx |-> "idle"]
  /\ row = [t \in Tx |-> 0]
  /\ number = [t \in Tx |-> 0]
  /\ docs = {}

Begin(t) ==
  /\ pc[t] = "idle"
  /\ pc' = [pc EXCEPT ![t] = "select"]
  /\ UNCHANGED <<rows, scope, row, number, docs>>

-----------------------------------------------------------------------------
(* The sequence row.                                                       *)

\* The rows of the scope that a SELECT of another transaction finds.
Visible(s) ==
  {k \in DOMAIN rows : rows[k].scope = s /\ ~rows[k].gone /\ rows[k].creator = Nobody}

SameNumber(n) == n
NextNumber(n) == n + 1

NeverWaits(k) == TRUE
Unlocked(k) == rows[k].holder = Nobody

\* SELECT .. FOR UPDATE of the first row: waits for its holder to end.
LockRow(t) ==
  /\ pc[t] = "select"
  /\ \E k \in Visible(scope[t]) :
       /\ \A j \in Visible(scope[t]) : k <= j
       /\ Unlocked(k)
       /\ rows' = [rows EXCEPT ![k].holder = t]
       /\ row' = [row EXCEPT ![t] = k]
       /\ number' = [number EXCEPT ![t] = NextNumber(rows[k].number)]
  /\ pc' = [pc EXCEPT ![t] = "insert"]
  /\ UNCHANGED <<scope, docs>>

FindNoRow(t) ==
  /\ pc[t] = "select" /\ Visible(scope[t]) = {}
  /\ pc' = [pc EXCEPT ![t] = "create"]
  /\ UNCHANGED <<rows, scope, row, number, docs>>

\* Rows that the unique constraint compares with a new one of the scope:
\* it holds of rows with a branch, NULLs are all different.
Rivals(s) ==
  {k \in DOMAIN rows : s # NoBranch /\ rows[k].scope = s /\ ~rows[k].gone}

CreateRow(t) ==
  /\ pc[t] = "create" /\ Rivals(scope[t]) = {}
  /\ rows' = Append(rows, [scope |-> scope[t], number |-> 0, creator |-> t,
                           gone |-> FALSE, holder |-> t])
  /\ row' = [row EXCEPT ![t] = Len(rows) + 1]
  /\ number' = [number EXCEPT ![t] = NextNumber(0)]
  /\ pc' = [pc EXCEPT ![t] = "insert"]
  /\ UNCHANGED <<scope, docs>>

\* A rival that is not committed makes the insertion wait; one that is makes
\* it fail, and the document's save may fall back on the legacy numbering.
CreationFails(t) ==
  /\ pc[t] = "create"
  /\ \E k \in Rivals(scope[t]) : rows[k].creator = Nobody
  /\ pc' = [pc EXCEPT ![t] = IF HasFallback THEN "fallback" ELSE "rolled_back"]
  /\ UNCHANGED <<rows, scope, row, number, docs>>

\* The largest number among the day's documents, plus one.
Fallback(t) ==
  /\ pc[t] = "fallback"
  /\ \E n \in {0} \cup {number[u] : u \in docs} :
       /\ \A u \in docs : number[u] <= n
       /\ number' = [number EXCEPT ![t] = n + 1]
  /\ pc' = [pc EXCEPT ![t] = "insert"]
  /\ UNCHANGED <<rows, scope, row, docs>>

-----------------------------------------------------------------------------
(* The document.                                                           *)

SamePrinted(t, u) ==
  number[t] = number[u] /\ (BranchInPattern => scope[t] = scope[u])

\* The rows as the end of t leaves them: what it created is committed or gone.
Released(holder, t) == IF holder = t THEN Nobody ELSE holder
RowsAfter(t, committed) ==
  [k \in DOMAIN rows |->
    [rows[k] EXCEPT
      !.number = IF row[t] = k /\ committed THEN number[t] ELSE @,
      !.creator = IF @ = t THEN Nobody ELSE @,
      !.gone = @ \/ (rows[k].creator = t /\ ~committed),
      !.holder = Released(@, t)]]

\* The insertion waits for a transaction that has inserted the same number.
InsertDocument(t) ==
  /\ pc[t] = "insert"
  /\ \A u \in Tx \ {t} : SamePrinted(t, u) => pc[u] # "commit" /\ u \notin docs
  /\ pc' = [pc EXCEPT ![t] = "commit"]
  /\ UNCHANGED <<rows, scope, row, number, docs>>

\* A save that, refused, tries the same number again and again.
RetrySameNumber(t) ==
  /\ pc[t] = "insert"
  /\ \E u \in docs : SamePrinted(t, u)
  /\ UNCHANGED numberingVars

\* The number is taken: the save raises, and its transaction is rolled back.
Collide(t) ==
  /\ pc[t] = "insert"
  /\ \E u \in docs : SamePrinted(t, u)
  /\ rows' = RowsAfter(t, FALSE)
  /\ pc' = [pc EXCEPT ![t] = "collided"]
  /\ UNCHANGED <<scope, row, number, docs>>

CommitDocument(t) ==
  /\ pc[t] = "commit"
  /\ rows' = RowsAfter(t, TRUE)
  /\ docs' = docs \cup {t}
  /\ pc' = [pc EXCEPT ![t] = "committed"]
  /\ UNCHANGED <<scope, row, number>>

\* Something else in the document's transaction fails, or its process dies.
RollBackDocument(t) ==
  /\ pc[t] \in Running
  /\ rows' = RowsAfter(t, FALSE)
  /\ pc' = [pc EXCEPT ![t] = "rolled_back"]
  /\ UNCHANGED <<scope, row, number, docs>>

-----------------------------------------------------------------------------
TakeNumber(t) ==
  LockRow(t) \/ FindNoRow(t) \/ CreateRow(t) \/ CreationFails(t) \/ Fallback(t)

Step(t) == TakeNumber(t) \/ InsertDocument(t) \/ Collide(t) \/ CommitDocument(t)

NumberingNext == \E t \in Tx : Begin(t) \/ Step(t) \/ RollBackDocument(t)

\* A transaction goes on as long as its statements do not wait.
NumberingFairness == \A t \in Tx : WF_numberingVars(Step(t))

NumberingSpec == NumberingInit /\ [][NumberingNext]_numberingVars
NumberingFairSpec == NumberingSpec /\ NumberingFairness

-----------------------------------------------------------------------------
\* Counters and transactions have the types the code gives them.
NumberingTypeOK ==
  /\ rows \in Seq(Row)
  /\ scope \in [Tx -> Scope]
  /\ pc \in [Tx -> Pc]
  /\ row \in [Tx -> Nat]
  /\ number \in [Tx -> Nat]
  /\ docs \subseteq Tx

\* What holds of "collision-free, gap-aware sequential numbers" (service.py 3)
\* whatever the scopes and the pattern: a document never has, or fails for,
\* the number of another one that its row numbered.
NoCollisionInRow ==
  \A u \in docs, t \in Tx :
    /\ t # u /\ pc[t] \in {"insert", "commit", "committed", "collided"}
    /\ row[t] # 0 /\ row[t] = row[u]
    => number[t] # number[u]

\* The same promise, of gaps: the numbers of a row's documents are the ones
\* after the numbers of earlier days, up to the row's counter, with no gap,
\* whichever transactions roll back.
NumbersWithoutGap ==
  \A k \in DOMAIN ExistingScopes :
    {number[t] : t \in {u \in docs : row[u] = k}} = (Issued[k] + 1)..rows[k].number

\* What the numbers rest on: the transaction that holds a row has the number
\* after the row's counter, and no other document of the row has passed it.
Holding(t) == pc[t] \in {"insert", "commit"} /\ row[t] # 0

\* A transaction knows a row only after a look-up that found it, in its scope.
RowsKnown ==
  \A t \in Tx :
    /\ row[t] # 0 => row[t] \in DOMAIN rows /\ rows[row[t]].scope = scope[t]
    /\ pc[t] \in {"idle", "select", "create", "fallback"} => row[t] = 0

\* Nobody else numbers a document of a row that is held.
HolderIsNext ==
  \A t \in Tx : Holding(t) =>
    rows[row[t]].holder = t /\ number[t] = rows[row[t]].number + 1

\* The counter has passed every document that the row numbered.
DocsWithinCounter ==
  /\ docs = {t \in Tx : pc[t] = "committed"}
  /\ \A u \in docs : row[u] # 0 => number[u] <= rows[row[u]].number

\* The unique constraint of the document: printed numbers differ.
PrintedOnce ==
  \A t, u \in Tx :
    t # u /\ {pc[t], pc[u]} \subseteq {"commit", "committed"} => ~SamePrinted(t, u)

\* A number that was taken was taken outside the row that issued it.
CollidedElsewhere ==
  \A t \in Tx : pc[t] = "collided" /\ row[t] # 0 =>
    \E u \in docs : SamePrinted(t, u) /\ row[u] # row[t]

\* Rows are never deleted nor counted back before this day's start.
RowsKept ==
  /\ Len(ExistingScopes) <= Len(rows)
  /\ \A k \in DOMAIN ExistingScopes : Issued[k] <= rows[k].number

\* Inductive: counters, the transactions that hold them and documents agree.
NumberingInv ==
  /\ NumberingTypeOK /\ RowsKnown /\ HolderIsNext /\ DocsWithinCounter
  /\ PrintedOnce /\ CollidedElsewhere /\ RowsKept /\ NumbersWithoutGap

\* A transaction that began ends: it waits for rows and numbers of others, but
\* never in a circle.
EveryDocumentEnds ==
  \A t \in Tx : pc[t] = "select" ~> pc[t] \in {"committed", "rolled_back", "collided"}

=============================================================================
