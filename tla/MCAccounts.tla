------------------------------ MODULE MCAccounts ------------------------------
(***************************************************************************)
(* One run for accounts: the sessions and links of an account, the limits  *)
(* on guessing its password, its addresses, its orders, reviews and        *)
(* wishes, and the guards between a request and its handler.  They share   *)
(* no table, so `side` picks at the start whose operations a behavior      *)
(* shows and the other tables stay as they are.                            *)
(***************************************************************************)
EXTENDS AuthSessions, LoginThrottle, AddressBook, CustomerAccount,
        AccessControl, TLC

VARIABLE side

Sides == {"SESSIONS", "THROTTLE", "ADDRESSES", "ACCOUNT", "ROUTES"}

AccountsInit ==
    /\ side \in Sides
    /\ Init /\ ThrottleInit /\ AddressInit /\ AccountInit /\ AccessInit
    /\ side # "THROTTLE" => service = "LOGIN"
    /\ side # "ROUTES" => post = [b \in Branches |-> NoRole]

AccountsNext ==
    /\ side' = side
    /\ \/ /\ side = "SESSIONS" /\ Next
          /\ UNCHANGED <<throttleVars, addressVars, accountVars, accessVars>>
       \/ /\ side = "THROTTLE" /\ ThrottleNext
          /\ UNCHANGED <<vars, addressVars, accountVars, accessVars>>
       \/ /\ side = "ADDRESSES" /\ AddressNext
          /\ UNCHANGED <<vars, throttleVars, accountVars, accessVars>>
       \/ /\ side = "ACCOUNT" /\ AccountNext
          /\ UNCHANGED <<vars, throttleVars, addressVars, accessVars>>
       \/ /\ side = "ROUTES" /\ AccessNext
          /\ UNCHANGED <<vars, throttleVars, addressVars, accountVars>>

AccountsSpec ==
    AccountsInit
    /\ [][AccountsNext]_<<side, vars, throttleVars, addressVars, accountVars, accessVars>>

\* Every side keeps its types.
AccountsTypeOK == TypeOK /\ ThrottleTypeOK /\ AddressTypeOK /\ AccountTypeOK /\ AccessTypeOK

\* Reviews, wishes, the order tabs and the dashboard of a customer agree with
\* each other and with what the services accept, and his address book has one
\* default address whenever it has an address.
AccountPagesAgree ==
    /\ side = "ACCOUNT" => AccountAgrees
    /\ side = "ADDRESSES" => OneDefaultAddress

\* The e-mail address locks before the IP does.
Maxima == [k \in Keys |-> IF k = "EMAIL" THEN 2 ELSE 3]

\* Sessions and request slots are interchangeable; ids of other sides share
\* their model values.
Symmetry ==
    Permutations(Sessions) \cup Permutations(Requests) \cup Permutations(Books)
=============================================================================
