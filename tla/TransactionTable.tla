-------------------------- MODULE TransactionTable --------------------------
(***************************************************************************)
(* The transaction table of OvsAgentApi/transaction_manager.c as pure      *)
(* operators.  The table is an array of TableSize slots (MAX_TABLE_SIZE);  *)
(* a slot holds one entry or nothing.  The slot of a transaction is its    *)
(* request id modulo the size, and no operation but find_transaction_key   *)
(* looks further than the slot: the id kept in the entry is never compared *)
(* with the id that is looked up.                                          *)
(*                                                                         *)
(* The entry keeps the members the code reads: id, uuid, callback (is it   *)
(* non-NULL) and the table configuration, here the number of the client's  *)
(* request.  The members state and status are written and never read.      *)
(***************************************************************************)
EXTENDS Naturals

CONSTANTS
    TableSize,      \* MAX_TABLE_SIZE, 5 in the code
    MaxRequests,    \* bound: how many requests the client issues
    NoTransaction   \* a NULL pointer in the table

ASSUME TableSizeAssumption   == TableSize \in Nat \ {0}
ASSUME MaxRequestsAssumption == MaxRequests \in Nat \ {0}

Request == 1 .. MaxRequests

NoUuid == 0         \* the all-zero uuid of a fresh entry; rows have uuid >= 1

Transaction == [id: Nat, uuid: Nat, callback: BOOLEAN, config: Request]

ASSUME NoTransactionAssumption == NoTransaction \notin Transaction

Slot == 0 .. TableSize - 1

Table == [Slot -> Transaction \cup {NoTransaction}]

init_transaction_table == [k \in Slot |-> NoTransaction]

hash_code(id) == id % TableSize

\* Mutant: the entry does not get its configuration.
create_transaction_no_config(id, callback, config) ==
    [id |-> id, uuid |-> NoUuid, callback |-> callback, config |-> 0]

create_transaction(id, callback, config) ==
    [id |-> id, uuid |-> NoUuid, callback |-> callback, config |-> config]

\* get_transaction returns whatever entry is in the slot of id.
get_transaction(table, id) == table[hash_code(id)]

\* Mutant: the first entry found is taken, whatever its uuid.
Matching_any(table, uuid) == {k \in Slot : table[k] # NoTransaction}

\* The slots whose entry has this uuid; find_transaction_key takes the first.
Matching(table, uuid) ==
    {k \in Slot : table[k] # NoTransaction /\ table[k].uuid = uuid}

find_transaction_key(table, uuid) ==
    CHOOSE k \in Matching(table, uuid) : \A j \in Matching(table, uuid) : k <= j

\* The store of a null pointer in a slot, the last access of
\* remove_transaction_table; the test and the load before it are steps of their
\* own in OvsAgentApi.
slot_cleared(table, key) == [table EXCEPT ![key] = NoTransaction]

insert_transaction_table(table, t) == [table EXCEPT ![hash_code(t.id)] = t]

update_transaction_uuid(table, id, uuid) ==
    [table EXCEPT ![hash_code(id)] = [table[hash_code(id)] EXCEPT !.uuid = uuid]]

=============================================================================
