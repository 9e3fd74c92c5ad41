-------------------------------- MODULE Sale --------------------------------
(***************************************************************************)
(* What billing promises of every checkout: a price is quoted once, the    *)
(* provider is asked to collect that price and no other, and an invoice is *)
(* written, once, for a charge of exactly that price.                      *)
(***************************************************************************)
CONSTANTS Keys, Amounts, Nothing

VARIABLES price, asked, charged, invoiced

saleVars == <<price, asked, charged, invoiced>>

Unset == [k \in Keys |-> Nothing]

SaleInit ==
  /\ price = Unset /\ asked = Unset /\ charged = Unset /\ invoiced = Unset

Quote(k, a) ==
  /\ price[k] = Nothing
  /\ price' = [price EXCEPT ![k] = a]
  /\ UNCHANGED <<asked, charged, invoiced>>

Collect(k) ==
  /\ price[k] # Nothing
  /\ asked[k] = Nothing
  /\ asked' = [asked EXCEPT ![k] = price[k]]
  /\ UNCHANGED <<price, charged, invoiced>>

Charge(k, a) ==
  /\ asked[k] # Nothing
  /\ charged[k] = Nothing
  /\ charged' = [charged EXCEPT ![k] = a]
  /\ UNCHANGED <<price, asked, invoiced>>

Invoice(k) ==
  /\ charged[k] = price[k]
  /\ charged[k] # Nothing
  /\ invoiced[k] = Nothing
  /\ invoiced' = [invoiced EXCEPT ![k] = price[k]]
  /\ UNCHANGED <<price, asked, charged>>

SaleNext ==
  \E k \in Keys :
    \/ Collect(k) \/ Invoice(k)
    \/ \E a \in Amounts : Quote(k, a) \/ Charge(k, a)

SaleSpec == SaleInit /\ [][SaleNext]_saleVars
=============================================================================
