---------------------------- MODULE MCMailStore ----------------------------
(* Small instances of MailStore for TLC. *)
EXTENDS MailStore, TLC

CONSTANTS m1, m2, shop, byShop, byDomain

\* Both messages are from shop@example.com, and the domain rule is for example.com.
FromDef == [m \in Ids |-> shop]
AddressOfDef == [s \in Senders |-> byShop]
All == [r \in Rules |-> Senders]
=============================================================================
