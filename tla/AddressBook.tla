----------------------------- MODULE AddressBook -----------------------------
(***************************************************************************)
(* The delivery addresses of one customer (user_addresses) and which of    *)
(* them is the default.  Four operations of CustomerAddressesRepository    *)
(* and the profile form (CustomerAccountRepository.updateProfile) move the *)
(* mark, each in one serializable transaction, one action here.  The text  *)
(* of an address is left out.                                              *)
(***************************************************************************)
EXTENDS Integers, Sequences

CONSTANTS
    AddressIds,
    AddressLimit        \* 10

ASSUME AddressParameters == AddressLimit \in Nat

VARIABLES
    book,               \* the addresses, oldest first (createdAt, id)
    preferred           \* those with is_default

addressVars == <<book, preferred>>

InBook == {book[i] : i \in DOMAIN book}

AddressTypeOK ==
    /\ book \in Seq(AddressIds)
    /\ \A i, j \in DOMAIN book : book[i] = book[j] => i = j
    /\ preferred \subseteq AddressIds

AddressInit == book = <<>> /\ preferred = {}

-----------------------------------------------------------------------------
\* create: the first address is the default whatever the request says.
CreateAddress(a, asDefault) ==
    /\ a \notin InBook
    /\ Len(book) < AddressLimit
    /\ book' = Append(book, a)
    /\ preferred' = IF book = <<>> \/ asDefault THEN {a} ELSE preferred

\* updateOwned: a request can make the address the default, never unmake it.
UpdateAddress(a, asDefault) ==
    /\ a \in InBook
    /\ preferred' = IF asDefault THEN {a} ELSE preferred
    /\ UNCHANGED book

SetDefaultAddress(a) ==
    /\ a \in InBook
    /\ preferred' = {a}
    /\ UNCHANGED book

\* updateProfile with a default address: the others lose the mark, one gains it.
ChooseInProfile(a) ==
    /\ a \in InBook
    /\ preferred' = (preferred \cap {a}) \cup {a}
    /\ UNCHANGED book

\* The book without a: the addresses after it move up.
Without(a) ==
    LET gone == CHOOSE i \in DOMAIN book : book[i] = a
    IN [i \in 1 .. Len(book) - 1 |-> book[IF i < gone THEN i ELSE i + 1]]

\* Mutant: nothing takes over from a default that is removed.
RemoveUnreplaced(a) ==
    /\ a \in InBook
    /\ book' = Without(a)
    /\ preferred' = preferred \ {a}

\* removeOwned: the oldest address that is left takes over from a default.
RemoveAddress(a) ==
    LET left == Without(a) IN
    /\ a \in InBook
    /\ book' = left
    /\ preferred' = (preferred \ {a}) \cup
           (IF a \in preferred /\ left # <<>> THEN {Head(left)} ELSE {})

AddressNext ==
    \E a \in AddressIds :
        \/ \E asDefault \in BOOLEAN : CreateAddress(a, asDefault) \/ UpdateAddress(a, asDefault)
        \/ SetDefaultAddress(a)
        \/ ChooseInProfile(a)
        \/ RemoveAddress(a)

AddressSpec == AddressInit /\ [][AddressNext]_addressVars

-----------------------------------------------------------------------------
\* A customer with an address has exactly one default, which the profile and
\* the checkout form start from, after any sequence of additions, edits, choices
\* and removals; and no more addresses than the limit.
OneDefaultAddress ==
    /\ book # <<>> => \E a \in InBook : preferred = {a}
    /\ book = <<>> => preferred = {}
    /\ Len(book) <= AddressLimit
=============================================================================
