------------------------- MODULE FungibleLedger_proofs -------------------------
(***************************************************************************)
(* Every token of HtsFungible implements FungibleLedger.  By Changes, what *)
(* a step does to a token is one of a few changes of its View; here each   *)
(* of them is shown to be a step of the ledger, account id by account id.  *)
(* A creation at the address of a token of the network is Overwrite.       *)
(***************************************************************************)
EXTENDS HtsFungible_proofs, HtsLedger, FiniteSetTheorems

\* FungibleLedger for any token: ForkedLedger and CreatedLedger are two of it.
Ledger(t) == INSTANCE FungibleLedger WITH ledger <- LedgerOf(t), Unlimited <- WordMax

LEMMA AddressOfIs ==
    /\ \A i \in Ids : AddressOf[i] \in Addresses /\ AccountId[AddressOf[i]] = i
    /\ \A a \in Addresses : AccountId[a] \in Ids
<1>1. ASSUME NEW i \in Ids
      PROVE  AddressOf[i] \in Addresses /\ AccountId[AddressOf[i]] = i
  <2>1. \E a \in Addresses : AccountId[a] = i
    BY DEF Ids
  <2>2. AddressOf[i] = CHOOSE a \in Addresses : AccountId[a] = i
    BY DEF AddressOf
  <2> QED BY <2>1, <2>2
<1> QED BY <1>1 DEF Ids

-----------------------------------------------------------------------------
(* The ledger that a view and the rest of a token make.                    *)

Balances(v)     == [i \in Ids |-> v[BalanceSlot(AddressOf[i])]]
Allowances(v)   == [p \in Ids \X Ids |-> v[AllowanceSlot(AddressOf[p[1]], AddressOf[p[2]])]]
Associations(v) == {i \in Ids : v[AssociatedSlot(AddressOf[i])] = 1}

Entry(live, mintable, treasury, supply, balance, allowance, associated) ==
    [live |-> live, mintable |-> mintable, treasury |-> treasury, supply |-> supply,
     balance |-> balance, allowance |-> allowance, associated |-> associated]

Mintable(s) == s.supplyKey = "usable"
Live        == TRUE

Books(v, s) ==
    Entry(Live, Mintable(s), {AccountId[s.treasury]}, s.supply,
          Balances(v), Allowances(v), Associations(v))

LEMMA EntryFields ==
    ASSUME NEW live, NEW mintable, NEW treasury, NEW supply, NEW balance, NEW allowance, NEW associated,
           NEW e, e = Entry(live, mintable, treasury, supply, balance, allowance, associated)
    PROVE  /\ e.live = live /\ e.mintable = mintable /\ e.treasury = treasury
           /\ e.supply = supply /\ e.balance = balance /\ e.allowance = allowance
           /\ e.associated = associated
  BY DEF Entry

LEMMA LedgerIsBooks ==
    ASSUME IdsIdentifyAccounts, IInv, NEW t \in Tokens, Callable(t)
    PROVE  LedgerOf(t) = Books(View(t, token[t]), Opened(t))
<1>1. PICK v : v = View(t, token[t])
  OBVIOUS
<1>2. /\ \A a \in Addresses : v[BalanceSlot(a)] = BalanceSeen(t, token[t], a)
      /\ \A a \in Addresses : v[AssociatedSlot(a)] = AssociationSeen(t, token[t], a)
      /\ \A a, b \in Addresses : v[AllowanceSlot(a, b)] = AllowanceSeen(t, token[t], a, b)
  BY <1>1, ViewIs, IInvGood
<1>3. Balances(v) = [i \in Ids |-> BalanceSeen(t, token[t], AddressOf[i])]
  BY <1>2, AddressOfIs DEF Balances
<1>4. Allowances(v) = [p \in Ids \X Ids |->
          AllowanceSeen(t, token[t], AddressOf[p[1]], AddressOf[p[2]])]
  BY <1>2, AddressOfIs DEF Allowances
<1>5. Associations(v) = {i \in Ids : AssociationSeen(t, token[t], AddressOf[i]) = 1}
  BY <1>2, AddressOfIs DEF Associations
<1> QED BY <1>1, <1>3, <1>4, <1>5 DEF LedgerOf, Books, Entry, Mintable, Live

LEMMA BooksType ==
    ASSUME NEW v \in [Slots -> Word], NEW s, s \in TokenState, s.treasury \in Addresses, NEW t
    PROVE  /\ Balances(v) \in [Ids -> Nat] /\ Allowances(v) \in [Ids \X Ids -> Nat]
           /\ Associations(v) \in SUBSET Ids
           /\ Books(v, s) \in Ledger(t)!Ledgers
<1>1. \A x \in Slots : v[x] \in Nat
  BY WordFacts
<1>2. Balances(v) \in [Ids -> Nat]
  BY <1>1, AddressOfIs, SlotTypes DEF Balances
<1>3. Allowances(v) \in [Ids \X Ids -> Nat]
  BY <1>1, AddressOfIs, SlotTypes DEF Allowances
<1>4. Associations(v) \in SUBSET Ids
  BY DEF Associations
<1>5. {AccountId[s.treasury]} \in SUBSET Ids /\ s.supply \in Int
  BY AddressOfIs, WidthAssumption DEF TokenState
<1>6. (s.supplyKey = "usable") \in BOOLEAN
  OBVIOUS
<1> QED BY <1>2, <1>3, <1>4, <1>5, <1>6 DEF Books, Entry, Mintable, Live, Ledger!Ledgers

-----------------------------------------------------------------------------
(* Each change of a view, as a change of its ledger.                       *)

LEMMA SameAs ==
    ASSUME NEW a \in Addresses, NEW i \in Ids
    PROVE  Same(AddressOf[i], a) <=> i = AccountId[a]
  BY AddressOfIs DEF Same

\* A balance and an allowance, by id and by address.
LEMMA AtId ==
    ASSUME NEW v, NEW a \in Addresses, NEW b \in Addresses
    PROVE  /\ AccountId[a] \in Ids /\ AccountId[b] \in Ids
           /\ Balances(v)[AccountId[a]] = v[BalanceSlot(a)]
           /\ Allowances(v)[<<AccountId[a], AccountId[b]>>] = v[AllowanceSlot(a, b)]
<1>1. PICK i \in Ids, j \in Ids : i = AccountId[a] /\ j = AccountId[b]
  BY AddressOfIs
<1>2. BalanceSlot(AddressOf[i]) = BalanceSlot(a)
  BY <1>1, AddressOfIs DEF BalanceSlot
<1>3. AllowanceSlot(AddressOf[i], AddressOf[j]) = AllowanceSlot(a, b)
  BY <1>1, AddressOfIs DEF AllowanceSlot
<1>4. Balances(v)[i] = v[BalanceSlot(AddressOf[i])]
  BY DEF Balances
<1>5. Allowances(v)[<<i, j>>] = v[AllowanceSlot(AddressOf[i], AddressOf[j])]
  BY DEF Allowances
<1> QED BY <1>1, <1>2, <1>3, <1>4, <1>5

LEMMA PaidBooks ==
    ASSUME NEW v \in [Slots -> Int], NEW i \in Addresses, NEW j \in Addresses, NEW n \in Nat,
           NEW w, w = Paid(v, i, j, n), NEW t
    PROVE  /\ Balances(w) = Ledger(t)!Moved(Balances(v), AccountId[i], AccountId[j], n)
           /\ Allowances(w) = Allowances(v)
           /\ Associations(w) = Associations(v)
<1>1. /\ \A a \in Addresses : w[BalanceSlot(a)] = v[BalanceSlot(a)] - Share(a, i, n) + Share(a, j, n)
      /\ \A a, b \in Addresses : w[AllowanceSlot(a, b)] = v[AllowanceSlot(a, b)]
      /\ \A a \in Addresses : w[AssociatedSlot(a)] = v[AssociatedSlot(a)]
  BY PaidAt
<1>2. Allowances(w) = Allowances(v)
  BY <1>1, AddressOfIs DEF Allowances
<1>3. Associations(w) = Associations(v)
  BY <1>1, AddressOfIs DEF Associations
<1>4. ASSUME NEW x \in Ids
      PROVE  w[BalanceSlot(AddressOf[x])] =
                Balances(v)[x] - (IF x = AccountId[i] THEN n ELSE 0)
                               + (IF x = AccountId[j] THEN n ELSE 0)
  <2>1. Balances(v)[x] = v[BalanceSlot(AddressOf[x])]
    BY DEF Balances
  <2>2. /\ Share(AddressOf[x], i, n) = IF x = AccountId[i] THEN n ELSE 0
        /\ Share(AddressOf[x], j, n) = IF x = AccountId[j] THEN n ELSE 0
    BY SameAs DEF Share
  <2> QED BY <1>1, <2>1, <2>2, AddressOfIs
<1>5. Balances(w) = Ledger(t)!Moved(Balances(v), AccountId[i], AccountId[j], n)
  BY <1>4 DEF Balances, Ledger!Moved
<1> QED BY <1>2, <1>3, <1>5

LEMMA ChargedBooks ==
    ASSUME NEW v \in [Slots -> Word], NEW o \in Addresses, NEW p \in Addresses, NEW n \in Nat,
           v[AllowanceSlot(o, p)] >= n, NEW w, w = Charged(v, o, p, n), NEW t
    PROVE  /\ w \in [Slots -> Int]
           /\ Balances(w) = Balances(v)
           /\ Allowances(w) \in Ledger(t)!Charged(Allowances(v), AccountId[p], AccountId[o], n)
           /\ Associations(w) = Associations(v)
<1>1. v \in [Slots -> Int]
  BY WordFacts, WidthAssumption DEF Word
<1>2. /\ w \in [Slots -> Int]
      /\ \A a \in Addresses : w[BalanceSlot(a)] = v[BalanceSlot(a)]
      /\ \A a, b \in Addresses : w[AllowanceSlot(a, b)] = v[AllowanceSlot(a, b)] - UsedUp(v, a, b, o, p, n)
      /\ \A a \in Addresses : w[AssociatedSlot(a)] = v[AssociatedSlot(a)]
  BY <1>1, ChargedAt
<1>3. Balances(w) = Balances(v)
  BY <1>2, AddressOfIs DEF Balances
<1>4. Associations(w) = Associations(v)
  BY <1>2, AddressOfIs DEF Associations
<1>5. PICK i \in Ids, j \in Ids : i = AccountId[o] /\ j = AccountId[p]
  BY AddressOfIs
<1>6. Allowances(v)[<<i, j>>] = v[AllowanceSlot(o, p)]
  BY <1>5, AtId
<1>7. CASE v[AllowanceSlot(o, p)] = WordMax
  <2>1. w = v
    BY <1>7 DEF Charged
  <2> QED BY <1>2, <1>3, <1>4, <1>5, <1>6, <1>7, <2>1 DEF Ledger!Charged
<1>8. CASE v[AllowanceSlot(o, p)] # WordMax
  <2>1. ASSUME NEW q \in Ids \X Ids
        PROVE  Allowances(w)[q] = IF q = <<i, j>> THEN Allowances(v)[q] - n ELSE Allowances(v)[q]
    <3>1. PICK x \in Ids, y \in Ids : q = <<x, y>>
      OBVIOUS
    <3>2. /\ Allowances(w)[q] = w[AllowanceSlot(AddressOf[x], AddressOf[y])]
          /\ Allowances(v)[q] = v[AllowanceSlot(AddressOf[x], AddressOf[y])]
      BY <3>1 DEF Allowances
    <3>3. /\ AddressOf[x] \in Addresses /\ AddressOf[y] \in Addresses
          /\ v[AllowanceSlot(AddressOf[x], AddressOf[y])] \in Int
      BY <1>1, AddressOfIs, SlotTypes
    <3>4. UsedUp(v, AddressOf[x], AddressOf[y], o, p, n) = IF x = i /\ y = j THEN n ELSE 0
      BY <1>5, <1>8, SameAs DEF UsedUp
    <3> QED BY <1>2, <3>1, <3>2, <3>3, <3>4
  <2>2. Allowances(w) = [q \in Ids \X Ids |->
            IF q = <<i, j>> THEN Allowances(v)[q] - n ELSE Allowances(v)[q]]
    <3>1. Allowances(w) = [q \in Ids \X Ids |-> Allowances(w)[q]]
      BY DEF Allowances
    <3> QED BY <2>1, <3>1
  <2> QED BY <1>2, <1>3, <1>4, <1>5, <1>6, <2>2 DEF Ledger!Charged
<1> QED BY <1>7, <1>8

\* One transfer by c, in the words of the ledger.
Transferred(v, w, c, t) ==
    \E i, j \in Ids : \E n \in 0 .. Balances(v)[i] :
        /\ Balances(w) = Ledger(t)!Moved(Balances(v), i, j, n)
        /\ Allowances(w) \in Ledger(t)!Charged(Allowances(v), AccountId[c], i, n)

LEMMA MovesBooks ==
    ASSUME NEW v \in [Slots -> Word], NEW w, NEW c \in Addresses, TransfersAs(v, w, c), NEW t
    PROVE  Transferred(v, w, c, t) /\ Associations(w) = Associations(v)
<1>1. PICK i \in Addresses, j \in Addresses, n \in Nat : Moves(v, w, c, i, j, n)
  BY DEF TransfersAs
<1>2. v \in [Slots -> Int]
  BY WordFacts, WidthAssumption DEF Word
<1>3. n \in 0 .. Balances(v)[AccountId[i]] /\ AccountId[i] \in Ids /\ AccountId[j] \in Ids
  <2>1. Balances(v)[AccountId[i]] = v[BalanceSlot(i)] /\ v[BalanceSlot(i)] \in Int
    BY <1>2, AtId, SlotTypes
  <2> QED BY <1>1, <2>1, AddressOfIs DEF Moves
<1>4. CASE i = c /\ w = Paid(v, i, j, n)
  <2>1. /\ Balances(w) = Ledger(t)!Moved(Balances(v), AccountId[i], AccountId[j], n)
        /\ Allowances(w) = Allowances(v) /\ Associations(w) = Associations(v)
    BY <1>2, <1>4, PaidBooks
  <2>2. Allowances(w) \in Ledger(t)!Charged(Allowances(v), AccountId[c], AccountId[i], n)
    BY <1>4, <2>1 DEF Ledger!Charged
  <2> QED BY <1>3, <2>1, <2>2 DEF Transferred
<1>5. CASE v[AllowanceSlot(i, c)] >= n /\ w = Paid(Charged(v, i, c, n), i, j, n)
  <2>1. PICK u : u = Charged(v, i, c, n)
    OBVIOUS
  <2>2. /\ u \in [Slots -> Int] /\ Balances(u) = Balances(v)
        /\ Allowances(u) \in Ledger(t)!Charged(Allowances(v), AccountId[c], AccountId[i], n)
        /\ Associations(u) = Associations(v)
    BY <1>5, <2>1, ChargedBooks
  <2>3. /\ Balances(w) = Ledger(t)!Moved(Balances(u), AccountId[i], AccountId[j], n)
        /\ Allowances(w) = Allowances(u) /\ Associations(w) = Associations(u)
    BY <1>5, <2>1, <2>2, PaidBooks
  <2> QED BY <1>3, <2>2, <2>3 DEF Transferred
<1> QED BY <1>1, <1>4, <1>5 DEF Moves

-----------------------------------------------------------------------------
(* Steps of the ledger.                                                    *)

LEMMA SupplyStep ==
    ASSUME NEW v \in [Slots -> Word], NEW w \in [Slots -> Word],
           NEW s \in TokenState, NEW k \in TokenState, Supplies(v, w, s, k), NEW t
    PROVE  Ledger(t)!MintOrBurn(Books(v, s), Books(w, k))
<1>1. v \in [Slots -> Int]
  BY WordFacts, WidthAssumption DEF Word
<1>2. s.supply \in Nat /\ k.supply \in Nat
  BY WidthAssumption DEF TokenState
<1>3. PICK a \in Addresses : a = s.treasury
  BY DEF Supplies
<1>4. PICK n \in Int : k.supply = s.supply + n /\ w = Issued(v, a, n)
  <2>1. CASE Mints(v, w, s, k)
    BY <1>3, <2>1 DEF Mints
  <2>2. CASE Burns(v, w, s, k)
    <3>1. PICK m \in Nat : k.supply = s.supply - m /\ w = Issued(v, a, -m)
      BY <1>3, <2>2 DEF Burns
    <3>2. -m \in Int /\ s.supply - m = s.supply + -m
      BY <1>2
    <3> QED BY <3>1, <3>2
  <2> QED BY <2>1, <2>2 DEF Supplies
<1>5. n = k.supply - s.supply
  BY <1>2, <1>4
<1>6. /\ \A b \in Addresses : w[BalanceSlot(b)] = v[BalanceSlot(b)] + Share(b, a, n)
      /\ \A b, c \in Addresses : w[AllowanceSlot(b, c)] = v[AllowanceSlot(b, c)]
      /\ \A b \in Addresses : w[AssociatedSlot(b)] = v[AssociatedSlot(b)]
  BY <1>1, <1>4, IssuedAt
<1>7. Allowances(w) = Allowances(v) /\ Associations(w) = Associations(v)
  <2>1. Allowances(w) = Allowances(v)
    BY <1>6, AddressOfIs DEF Allowances
  <2>2. Associations(w) = Associations(v)
    BY <1>6, AddressOfIs DEF Associations
  <2> QED BY <2>1, <2>2
<1>8. Balances(w) = [x \in Ids |-> Balances(v)[x] + (IF x \in {AccountId[a]} THEN n ELSE 0)]
  <2>1. ASSUME NEW x \in Ids
        PROVE  w[BalanceSlot(AddressOf[x])] =
                  Balances(v)[x] + (IF x \in {AccountId[a]} THEN n ELSE 0)
    <3>1. Balances(v)[x] = v[BalanceSlot(AddressOf[x])]
      BY DEF Balances
    <3>2. Share(AddressOf[x], a, n) = IF x \in {AccountId[a]} THEN n ELSE 0
      BY SameAs DEF Share
    <3> QED BY <1>6, <3>1, <3>2, AddressOfIs
  <2> QED BY <2>1 DEF Balances
<1>9. \A x \in Ids : Balances(w)[x] >= 0
  <2>1. \A y \in Slots : w[y] \in Nat
    BY WordFacts
  <2> QED BY <2>1, AddressOfIs, SlotTypes DEF Balances
<1>10. /\ s.supplyKey = "usable" /\ k.supplyKey = "usable"
       /\ s.treasury = a /\ k.treasury = a
  BY <1>3 DEF Supplies, SameButSupply
<1>11. /\ Books(v, s).supply = s.supply /\ Books(v, s).balance = Balances(v)
       /\ Books(v, s).treasury = {AccountId[a]}
       /\ Books(w, k).supply = k.supply /\ Books(w, k).balance = Balances(w)
  BY <1>10, EntryFields DEF Books
<1>12. Books(v, s).mintable
  <2>1. Books(v, s).mintable = Mintable(s)
    BY EntryFields DEF Books
  <2> QED BY <1>10, <2>1 DEF Mintable
<1>13. Books(w, k) = Ledger(t)!Issued(Books(v, s), n)
  <2>1. Ledger(t)!Issued(Books(v, s), n) =
           [Books(v, s) EXCEPT !.supply = k.supply, !.balance = Balances(w)]
    BY <1>4, <1>8, <1>11 DEF Ledger!Issued
  <2>2. Mintable(k) = Mintable(s)
    BY <1>10 DEF Mintable
  <2>3. Books(w, k) = [[Books(v, s) EXCEPT !.supply = k.supply] EXCEPT !.balance = Balances(w)]
    <3>1. [Books(v, s) EXCEPT !.supply = k.supply] =
             Entry(Live, Mintable(s), {AccountId[s.treasury]}, k.supply,
                   Balances(v), Allowances(v), Associations(v))
      BY DEF Books, Entry
    <3>2. [Entry(Live, Mintable(s), {AccountId[s.treasury]}, k.supply,
                 Balances(v), Allowances(v), Associations(v)) EXCEPT !.balance = Balances(w)] =
             Entry(Live, Mintable(s), {AccountId[s.treasury]}, k.supply,
                   Balances(w), Allowances(v), Associations(v))
      BY DEF Entry
    <3>3. Books(w, k) = Entry(Live, Mintable(s), {AccountId[s.treasury]}, k.supply,
                              Balances(w), Allowances(v), Associations(v))
      BY <1>7, <1>10, <2>2 DEF Books
    <3> QED BY <3>1, <3>2, <3>3, Zenon
  <2>4. [Books(v, s) EXCEPT !.supply = k.supply, !.balance = Balances(w)] =
           [[Books(v, s) EXCEPT !.supply = k.supply] EXCEPT !.balance = Balances(w)]
    OBVIOUS
  <2> QED BY <2>1, <2>3, <2>4
<1> QED BY <1>2, <1>5, <1>9, <1>11, <1>12, <1>13 DEF Ledger!MintOrBurn

\* Ledgers that differ in one or two fields.
AllowanceDiffers(l, k)  == k = [l EXCEPT !.allowance = k.allowance]
AssociatedDiffers(l, k) == k = [l EXCEPT !.associated = k.associated]
TransferDiffers(l, k)   == k = [l EXCEPT !.balance = k.balance, !.allowance = k.allowance]

\* Two ledgers whose tokens differ in their slots only.
LEMMA SameInfoBooks ==
    ASSUME NEW v, NEW w, NEW s, NEW k, SameInfo(s, k)
    PROVE  /\ Balances(w) = Balances(v) /\ Associations(w) = Associations(v) =>
                 AllowanceDiffers(Books(v, s), Books(w, k))
           /\ Balances(w) = Balances(v) /\ Allowances(w) = Allowances(v) =>
                 AssociatedDiffers(Books(v, s), Books(w, k))
           /\ Associations(w) = Associations(v) =>
                 TransferDiffers(Books(v, s), Books(w, k))
<1>1. s.supplyKey = k.supplyKey /\ s.supply = k.supply /\ s.treasury = k.treasury
  BY DEF SameInfo
<1>2. Mintable(k) = Mintable(s)
  BY <1>1 DEF Mintable
<1>3. ASSUME Balances(w) = Balances(v), Associations(w) = Associations(v)
      PROVE  AllowanceDiffers(Books(v, s), Books(w, k))
  BY <1>1, <1>2, <1>3 DEF Books, Entry, AllowanceDiffers
<1>4. ASSUME Balances(w) = Balances(v), Allowances(w) = Allowances(v)
      PROVE  AssociatedDiffers(Books(v, s), Books(w, k))
  BY <1>1, <1>2, <1>4 DEF Books, Entry, AssociatedDiffers
<1>5. ASSUME Associations(w) = Associations(v)
      PROVE  TransferDiffers(Books(v, s), Books(w, k))
  <2>1. Books(w, k) = [[Books(v, s) EXCEPT !.balance = Books(w, k).balance]
                                    EXCEPT !.allowance = Books(w, k).allowance]
    <3>1. [Books(v, s) EXCEPT !.balance = Books(w, k).balance] =
             Entry(Live, Mintable(s), {AccountId[s.treasury]}, s.supply,
                   Balances(w), Allowances(v), Associations(v))
      BY DEF Books, Entry
    <3>2. [Entry(Live, Mintable(s), {AccountId[s.treasury]}, s.supply,
                 Balances(w), Allowances(v), Associations(v))
              EXCEPT !.allowance = Books(w, k).allowance] =
             Entry(Live, Mintable(s), {AccountId[s.treasury]}, s.supply,
                   Balances(w), Allowances(w), Associations(v))
      BY DEF Books, Entry
    <3>3. Books(w, k) = Entry(Live, Mintable(s), {AccountId[s.treasury]}, s.supply,
                              Balances(w), Allowances(w), Associations(v))
      BY <1>1, <1>2, <1>5 DEF Books
    <3> QED BY <3>1, <3>2, <3>3, Zenon
  <2>2. [Books(v, s) EXCEPT !.balance = Books(w, k).balance,
                            !.allowance = Books(w, k).allowance] =
           [[Books(v, s) EXCEPT !.balance = Books(w, k).balance]
                         EXCEPT !.allowance = Books(w, k).allowance]
    OBVIOUS
  <2> QED BY <2>1, <2>2 DEF TransferDiffers
<1> QED BY <1>3, <1>4, <1>5

LEMMA ShowsStep ==
    ASSUME NEW v \in [Slots -> Word], NEW w \in [Slots -> Word], NEW c \in Addresses,
           NEW s \in TokenState, NEW k \in TokenState, Shows(v, w, s, k, c), NEW t
    PROVE  \/ Books(w, k) = Books(v, s)
           \/ Ledger(t)!Step(Books(v, s), Books(w, k))
<1>2. /\ Books(v, s).balance = Balances(v) /\ Books(v, s).allowance = Allowances(v)
      /\ Books(v, s).associated = Associations(v)
      /\ Books(w, k).balance = Balances(w) /\ Books(w, k).allowance = Allowances(w)
      /\ Books(w, k).associated = Associations(w)
  BY EntryFields DEF Books
<1>l. Books(v, s).live
  <2>1. Books(v, s).live = Live
    BY EntryFields DEF Books
  <2> QED BY <2>1 DEF Live
<1>3. PICK i \in Ids : i = AccountId[c]
  BY AddressOfIs
<1>4. CASE Supplies(v, w, s, k)
  BY <1>l, <1>4, SupplyStep DEF Ledger!Step
<1>6. ASSUME SameInfo(s, k), w = v
      PROVE  Books(w, k) = Books(v, s)
  <2>1. Mintable(k) = Mintable(s)
    BY <1>6 DEF Mintable, SameInfo
  <2> QED BY <1>6, <2>1 DEF Books, SameInfo
<1>7. ASSUME SameInfo(s, k), Approves(v, w, c)
      PROVE  Ledger(t)!Approve(Books(v, s), Books(w, k), i)
  <2>1. PICK p \in Addresses, n \in Word : w = [v EXCEPT ![AllowanceSlot(c, p)] = n]
    BY <1>7 DEF Approves
  <2>2. PICK j \in Ids : j = AccountId[p]
    BY AddressOfIs
  <2>3. ASSUME NEW x \in Ids
        PROVE  /\ w[BalanceSlot(AddressOf[x])] = v[BalanceSlot(AddressOf[x])]
               /\ w[AssociatedSlot(AddressOf[x])] = v[AssociatedSlot(AddressOf[x])]
    <3>1. /\ AddressOf[x] \in Addresses /\ AllowanceSlot(c, p) \in Slots
          /\ BalanceSlot(AddressOf[x]) # AllowanceSlot(c, p)
          /\ AssociatedSlot(AddressOf[x]) # AllowanceSlot(c, p)
          /\ BalanceSlot(AddressOf[x]) \in Slots /\ AssociatedSlot(AddressOf[x]) \in Slots
      BY AddressOfIs, SlotsDiffer, SlotTypes
    <3> QED BY <2>1, <3>1
  <2>4. Balances(w) = Balances(v) /\ Associations(w) = Associations(v)
    BY <2>3 DEF Balances, Associations
  <2>5. ASSUME NEW x \in Ids, NEW y \in Ids, <<x, y>> # <<i, j>>
        PROVE  w[AllowanceSlot(AddressOf[x], AddressOf[y])] = v[AllowanceSlot(AddressOf[x], AddressOf[y])]
    <3>1. AddressOf[x] \in Addresses /\ AddressOf[y] \in Addresses
      BY AddressOfIs
    <3>2. AllowanceSlot(AddressOf[x], AddressOf[y]) # AllowanceSlot(c, p)
      BY <1>3, <2>2, <2>5, <3>1, AddressOfIs, SlotsDiffer
    <3> QED BY <2>1, <3>1, <3>2, SlotTypes
  <2>6. Allowances(w) = [q \in Ids \X Ids |->
            IF q = <<i, j>> THEN Allowances(w)[q] ELSE Allowances(v)[q]]
    <3>1. ASSUME NEW q \in Ids \X Ids
          PROVE  Allowances(w)[q] = IF q = <<i, j>> THEN Allowances(w)[q] ELSE Allowances(v)[q]
      BY <2>5, <3>1 DEF Allowances
    <3>2. Allowances(w) = [q \in Ids \X Ids |-> Allowances(w)[q]]
      BY DEF Allowances
    <3> QED BY <3>1, <3>2
  <2>7. Allowances(w)[<<i, j>>] \in 0 .. WordMax
    <3>1. Allowances(w)[<<i, j>>] = w[AllowanceSlot(c, p)]
      BY <1>3, <2>2, AtId
    <3> QED BY <3>1, SlotTypes DEF Word
  <2>8. AllowanceDiffers(Books(v, s), Books(w, k))
    BY <1>7, <2>4, SameInfoBooks
  <2>9. Books(w, k).allowance = [q \in Ids \X Ids |->
            IF q = <<i, j>> THEN Books(w, k).allowance[q] ELSE Books(v, s).allowance[q]]
    BY <1>2, <2>6
  <2> QED BY <1>2, <2>7, <2>8, <2>9 DEF Ledger!Approve, AllowanceDiffers
<1>8. ASSUME SameInfo(s, k), Associates(v, w, c)
      PROVE  Ledger(t)!Associate(Books(v, s), Books(w, k), i) \/ Ledger(t)!Dissociate(Books(v, s), Books(w, k), i)
  <2>1. PICK yes \in {0, 1} : w = [v EXCEPT ![AssociatedSlot(c)] = yes]
    BY <1>8 DEF Associates
  <2>2. ASSUME NEW a \in Addresses, NEW p \in Addresses
        PROVE  /\ w[BalanceSlot(a)] = v[BalanceSlot(a)]
               /\ w[AllowanceSlot(a, p)] = v[AllowanceSlot(a, p)]
               /\ w[AssociatedSlot(a)] = IF Same(a, c) THEN yes ELSE v[AssociatedSlot(a)]
    <3>1. /\ BalanceSlot(a) # AssociatedSlot(c) /\ AllowanceSlot(a, p) # AssociatedSlot(c)
          /\ AssociatedSlot(a) = AssociatedSlot(c) <=> Same(a, c)
          /\ BalanceSlot(a) \in Slots /\ AllowanceSlot(a, p) \in Slots /\ AssociatedSlot(a) \in Slots
      BY SlotsDiffer, SlotTypes DEF Same
    <3> QED BY <2>1, <3>1
  <2>3. Balances(w) = Balances(v) /\ Allowances(w) = Allowances(v)
    BY <2>2, AddressOfIs DEF Balances, Allowances
  <2>4. \A x \in Ids : x \in Associations(w) <=> IF x = i THEN yes = 1 ELSE x \in Associations(v)
    BY <1>3, <2>2, AddressOfIs, SameAs DEF Associations
  <2>5. Associations(w) = IF yes = 1 THEN Associations(v) \cup {i} ELSE Associations(v) \ {i}
    BY <2>4 DEF Associations
  <2>6. AssociatedDiffers(Books(v, s), Books(w, k))
    BY <1>8, <2>3, SameInfoBooks
  <2> QED BY <1>2, <2>5, <2>6 DEF Ledger!Associate, Ledger!Dissociate, AssociatedDiffers
<1>9. ASSUME SameInfo(s, k), TransfersAs(v, w, c)
      PROVE  Ledger(t)!Transfer(Books(v, s), Books(w, k), i)
  <2>1. Transferred(v, w, c, t) /\ Associations(w) = Associations(v)
    BY <1>9, MovesBooks
  <2>2. TransferDiffers(Books(v, s), Books(w, k))
    BY <1>2, <1>9, <2>1, SameInfoBooks
  <2> QED BY <1>2, <1>3, <2>1, <2>2 DEF Ledger!Transfer, Transferred, TransferDiffers
<1>10. ASSUME SameInfo(s, k), NEW u \in [Slots -> Word], TransfersAs(v, u, c), TransfersAs(u, w, c)
       PROVE  Ledger(t)!TransferTwice(Books(v, s), Books(w, k), i)
  <2>1. Transferred(v, u, c, t) /\ Associations(u) = Associations(v)
    BY <1>10, MovesBooks
  <2>2. Transferred(u, w, c, t) /\ Associations(w) = Associations(u)
    BY <1>10, MovesBooks
  <2>3. TransferDiffers(Books(v, s), Books(w, k))
    BY <1>2, <1>10, <2>1, <2>2, SameInfoBooks
  <2> QED BY <1>2, <1>3, <2>1, <2>2, <2>3 DEF Ledger!TransferTwice, Transferred, TransferDiffers
<1> QED BY <1>l, <1>4, <1>6, <1>7, <1>8, <1>9, <1>10 DEF Shows, Ledger!Step

\* A new token: its whole supply is its treasury's.
LEMMA CreateStep ==
    ASSUME NEW a \in Addresses, NEW n \in Nat, NEW w, w = Issued(Nothing, a, n),
           NEW k, k.supply = n, k.treasury = a, NEW t
    PROVE  Ledger(t)!Create(Ledger(t)!Blank, Books(w, k))
<1>1. Nothing \in [Slots -> Int] /\ \A x \in Slots : Nothing[x] = 0
  BY DEF Nothing
<1>2. /\ \A b \in Addresses : w[BalanceSlot(b)] = Share(b, a, n)
      /\ \A b, c \in Addresses : w[AllowanceSlot(b, c)] = 0
      /\ \A b \in Addresses : w[AssociatedSlot(b)] = 0
  <2>1. /\ \A b \in Addresses : w[BalanceSlot(b)] = Nothing[BalanceSlot(b)] + Share(b, a, n)
        /\ \A b, c \in Addresses : w[AllowanceSlot(b, c)] = Nothing[AllowanceSlot(b, c)]
        /\ \A b \in Addresses : w[AssociatedSlot(b)] = Nothing[AssociatedSlot(b)]
    BY <1>1, IssuedAt
  <2>2. \A b \in Addresses : Share(b, a, n) \in Int
    BY DEF Share
  <2> QED BY <1>1, <2>1, <2>2, SlotTypes
<1>3. PICK i \in Ids : i = AccountId[a]
  BY AddressOfIs
<1>4. Balances(w) = [x \in Ids |-> 0 + (IF x \in {i} THEN n ELSE 0)]
  <2>1. \A x \in Ids : w[BalanceSlot(AddressOf[x])] = 0 + (IF x \in {i} THEN n ELSE 0)
    BY <1>2, <1>3, AddressOfIs, SameAs DEF Share
  <2> QED BY <2>1 DEF Balances
<1>5. Allowances(w) = [p \in Ids \X Ids |-> 0]
  BY <1>2, AddressOfIs DEF Allowances
<1>6. Associations(w) = {}
  BY <1>2, AddressOfIs DEF Associations
<1>7. Books(w, k) = Entry(Live, Mintable(k), {i}, n, Balances(w), Allowances(w), Associations(w))
  BY <1>3 DEF Books
<1>8. /\ Books(w, k).mintable = Mintable(k) /\ Books(w, k).supply = n
  BY <1>7, EntryFields
<1>9. PICK m : m = Mintable(k)
  OBVIOUS
<1>h. PICK h : h = Associations(w)
  OBVIOUS
<1>10. PICK e : e = [Ledger(t)!Blank EXCEPT !.live = TRUE, !.treasury = {i}, !.mintable = m,
                                            !.associated = h]
  OBVIOUS
<1>z. PICK f, g : f = [x \in Ids |-> 0] /\ g = [p \in Ids \X Ids |-> 0]
  OBVIOUS
<1>11. e = Entry(Live, m, {i}, 0, f, g, {})
  BY <1>6, <1>h, <1>10, <1>z DEF Ledger!Blank, Entry, Live
<1>12. Ledger(t)!Issued(e, n) = Books(w, k)
  <2>1. /\ e.supply = 0 /\ e.treasury = {i} /\ e.balance = [x \in Ids |-> 0]
    BY <1>11, <1>z, EntryFields
  <2>2. [x \in Ids |-> e.balance[x] + (IF x \in e.treasury THEN n ELSE 0)] = Balances(w)
    BY <1>4, <2>1
  <2>3. e.supply + n = n
    BY <2>1
  <2>4. Ledger(t)!Issued(e, n) = [e EXCEPT !.supply = n, !.balance = Balances(w)]
    BY <2>2, <2>3 DEF Ledger!Issued
  <2>5. [e EXCEPT !.supply = n, !.balance = Balances(w)] =
           [[e EXCEPT !.supply = n] EXCEPT !.balance = Balances(w)]
    OBVIOUS
  <2>6. [Entry(Live, m, {i}, 0, f, g, {})
            EXCEPT !.supply = n] =
           Entry(Live, m, {i}, n, f, g, {})
    BY DEF Entry
  <2>7. [Entry(Live, m, {i}, n, f, g, {})
            EXCEPT !.balance = Balances(w)] =
           Entry(Live, m, {i}, n, Balances(w), g, {})
    BY DEF Entry
  <2>8. [[e EXCEPT !.supply = n] EXCEPT !.balance = Balances(w)] =
           Entry(Live, m, {i}, n, Balances(w), g, {})
    BY <1>11, <2>6, <2>7, Zenon
  <2>9. Books(w, k) = Entry(Live, m, {i}, n, Balances(w), g, {})
    BY <1>5, <1>6, <1>7, <1>9, <1>z
  <2> QED BY <2>4, <2>5, <2>8, <2>9
<1>13. Books(w, k).associated = h /\ h \subseteq {i}
  BY <1>6, <1>7, <1>h, EntryFields
<1> QED BY <1>3, <1>8, <1>9, <1>10, <1>12, <1>13, Zenon DEF Ledger!Create

-----------------------------------------------------------------------------
(* The refinement.                                                         *)

LEMMA BlankUntilCallable ==
    ASSUME NEW t, ~Callable(t)
    PROVE  LedgerOf(t) = Ledger(t)!Blank
  BY DEF LedgerOf, Ledger!Blank

LEMMA TreasuryOpened ==
    ASSUME IInv, CreatedOnce, NEW t \in Tokens, Callable(t)
    PROVE  Opened(t).treasury \in Addresses
<1>1. token[t] \in TokenState
  BY IInvGood DEF Good
<1>2. CASE token[t].initialized
  BY <1>2 DEF Opened, CreatedOnce
<1>3. CASE ~token[t].initialized
  <2>1. Mirror[t].treasury \in Addresses
    BY <1>3, MirrorAssumption DEF Callable, MirrorToken
  <2> QED BY <1>1, <1>3, <2>1 DEF Opened, TokenState
<1> QED BY <1>2, <1>3

\* Whatever the Mirror Node answers makes a ledger.
LEMMA InitLedger ==
    ASSUME IdsIdentifyAccounts, Init, NEW t \in Tokens
    PROVE  Ledger(t)!Init
<1>1. IInv /\ CreatedOnce
  BY InitIInv, InitCreatedOnce
<1>2. CASE ~Callable(t)
  <2>1. LedgerOf(t) = Ledger(t)!Blank
    BY <1>2, BlankUntilCallable
  <2>2. Ledger(t)!Blank \in Ledger(t)!Ledgers
    BY DEF Ledger!Blank, Ledger!Ledgers
  <2> QED BY <2>1, <2>2 DEF Ledger!Init
<1>3. CASE Callable(t)
  <2>1. LedgerOf(t) = Books(View(t, token[t]), Opened(t))
    BY <1>1, <1>3, LedgerIsBooks
  <2>2. View(t, token[t]) \in [Slots -> Word] /\ Opened(t) \in TokenState
        /\ Opened(t).treasury \in Addresses
    BY <1>1, <1>3, ViewIs, IInvGood, OpenedView, TreasuryOpened DEF Good
  <2>3. LedgerOf(t) \in Ledger(t)!Ledgers
    BY <2>1, <2>2, BooksType
  <2>4. LedgerOf(t).live
    BY <1>3 DEF LedgerOf
  <2> QED BY <2>3, <2>4 DEF Ledger!Init
<1> QED BY <1>2, <1>3

LEMMA LedgerIsBooksNext ==
    ASSUME IdsIdentifyAccounts, IInv', NEW t \in Tokens, token'[t].initialized
    PROVE  LedgerOf(t)' = Books(View(t, token'[t]), token'[t])
<1>1. PICK k : k = token'[t]
  OBVIOUS
<1>2. PICK v : v = View(t, k)
  OBVIOUS
<1>3. /\ \A a \in Addresses : v[BalanceSlot(a)] = BalanceSeen(t, k, a)
      /\ \A a \in Addresses : v[AssociatedSlot(a)] = AssociationSeen(t, k, a)
      /\ \A a, b \in Addresses : v[AllowanceSlot(a, b)] = AllowanceSeen(t, k, a, b)
  BY <1>1, <1>2, ViewIs, IInvGoodNext
<1>4. Balances(v) = [i \in Ids |-> BalanceSeen(t, k, AddressOf[i])]
  BY <1>3, AddressOfIs DEF Balances
<1>5. Allowances(v) = [p \in Ids \X Ids |-> AllowanceSeen(t, k, AddressOf[p[1]], AddressOf[p[2]])]
  BY <1>3, AddressOfIs DEF Allowances
<1>6. Associations(v) = {i \in Ids : AssociationSeen(t, k, AddressOf[i]) = 1}
  BY <1>3, AddressOfIs DEF Associations
<1>7. Opened(t)' = k /\ Callable(t)'
  BY <1>1 DEF Opened, Callable
<1>8. LedgerOf(t)' = [live |-> TRUE, mintable |-> k.supplyKey = "usable",
          treasury |-> {AccountId[k.treasury]}, supply |-> k.supply,
          balance |-> [i \in Ids |-> BalanceSeen(t, k, AddressOf[i])],
          allowance |-> [p \in Ids \X Ids |-> AllowanceSeen(t, k, AddressOf[p[1]], AddressOf[p[2]])],
          associated |-> {i \in Ids : AssociationSeen(t, k, AddressOf[i]) = 1}]
  BY <1>1, <1>7 DEF LedgerOf
<1> QED BY <1>1, <1>2, <1>4, <1>5, <1>6, <1>8 DEF Books, Entry, Mintable, Live

\* A token created at the address of another one: what it keeps is in the slots
\* that were fetched.
LEMMA ReplaceStep ==
    ASSUME IdsIdentifyAccounts, IInv, IInv', CreatedOnce, NEW t \in Tokens, Replaces(t)
    PROVE  Overwrite(t)
<1>1. PICK a \in Addresses, n \in Nat :
         /\ token'[t].initialized /\ token'[t].supply = n /\ token'[t].treasury = a
         /\ View(t, token'[t]) = Issued(token[t].storage, a, n)
  BY DEF Replaces, Starts
<1>2. PICK u, v, w : u = token[t].storage /\ v = View(t, token[t]) /\ w = View(t, token'[t])
  OBVIOUS
<1>3. PICK l, k : l = LedgerOf(t) /\ k = LedgerOf(t)'
  OBVIOUS
<1>4. Callable(t) /\ ~token[t].local
  BY DEF Replaces, IsReplaced, Replaced, Callable
<1>5. /\ u \in [Slots -> Int] /\ v \in [Slots -> Word]
      /\ \A x \in Slots : u[x] \in {0, v[x]}
  <2>1. Good(token[t]) /\ v \in [Slots -> Word]
    BY <1>2, ViewIs, IInvGood
  <2>2. u \in [Slots -> Word] /\ u \in [Slots -> Int]
    BY <1>2, <2>1, WordFacts, WidthAssumption DEF Good, TokenState, Word
  <2>3. \A x \in Slots : u[x] \in {0, v[x]}
    BY <1>2, <1>4, <2>1 DEF Good, FetchedFirst, View, Seen
  <2> QED BY <2>1, <2>2, <2>3
<1>6. w = Issued(u, a, n)
  BY <1>1, <1>2
<1>7. /\ \A b \in Addresses : w[BalanceSlot(b)] = u[BalanceSlot(b)] + Share(b, a, n)
      /\ \A b, c \in Addresses : w[AllowanceSlot(b, c)] = u[AllowanceSlot(b, c)]
      /\ \A b \in Addresses : w[AssociatedSlot(b)] = u[AssociatedSlot(b)]
  <2>1. n \in Int
    OBVIOUS
  <2>2. /\ \A b \in Addresses : Issued(u, a, n)[BalanceSlot(b)] = u[BalanceSlot(b)] + Share(b, a, n)
        /\ \A b, c \in Addresses : Issued(u, a, n)[AllowanceSlot(b, c)] = u[AllowanceSlot(b, c)]
        /\ \A b \in Addresses : Issued(u, a, n)[AssociatedSlot(b)] = u[AssociatedSlot(b)]
    BY <1>5, <2>1, IssuedAt
  <2> QED BY <1>6, <2>2
<1>8. l = Books(v, Opened(t)) /\ k = Books(w, token'[t])
  BY <1>1, <1>2, <1>3, <1>4, LedgerIsBooks, LedgerIsBooksNext
<1>9. PICK i \in Ids : i = AccountId[a]
  BY AddressOfIs
<1>10. /\ l.balance = Balances(v) /\ l.allowance = Allowances(v) /\ l.associated = Associations(v)
       /\ k.balance = Balances(w) /\ k.allowance = Allowances(w) /\ k.associated = Associations(w)
       /\ k.live = Live /\ k.treasury = {i} /\ k.supply = n
  BY <1>1, <1>8, <1>9, EntryFields DEF Books
<1>11. ASSUME NEW x \in Ids
       PROVE  k.balance[x] - (IF x = i THEN k.supply ELSE 0) \in {0, l.balance[x]}
  <2>1. AddressOf[x] \in Addresses /\ BalanceSlot(AddressOf[x]) \in Slots
    BY AddressOfIs, SlotTypes
  <2>2. /\ k.balance[x] = w[BalanceSlot(AddressOf[x])]
        /\ l.balance[x] = v[BalanceSlot(AddressOf[x])]
    BY <1>10 DEF Balances
  <2>3. Share(AddressOf[x], a, n) = IF x = i THEN n ELSE 0
    BY <1>9, SameAs DEF Share
  <2>4. /\ w[BalanceSlot(AddressOf[x])] = u[BalanceSlot(AddressOf[x])] + (IF x = i THEN n ELSE 0)
        /\ u[BalanceSlot(AddressOf[x])] \in Int
        /\ u[BalanceSlot(AddressOf[x])] \in {0, v[BalanceSlot(AddressOf[x])]}
    BY <1>5, <1>7, <2>1, <2>3
  <2>5. w[BalanceSlot(AddressOf[x])] - (IF x = i THEN n ELSE 0) = u[BalanceSlot(AddressOf[x])]
    BY <2>4
  <2> QED BY <1>10, <2>2, <2>4, <2>5
<1>12. ASSUME NEW p \in Ids \X Ids
       PROVE  k.allowance[p] \in {0, l.allowance[p]}
  <2>1. PICK x \in Ids, y \in Ids : p = <<x, y>>
    OBVIOUS
  <2>2. /\ AddressOf[x] \in Addresses /\ AddressOf[y] \in Addresses
        /\ AllowanceSlot(AddressOf[x], AddressOf[y]) \in Slots
    BY AddressOfIs, SlotTypes
  <2>3. /\ k.allowance[p] = w[AllowanceSlot(AddressOf[x], AddressOf[y])]
        /\ l.allowance[p] = v[AllowanceSlot(AddressOf[x], AddressOf[y])]
    BY <1>10, <2>1 DEF Allowances
  <2> QED BY <1>5, <1>7, <2>2, <2>3
<1>13. k.associated \subseteq l.associated
  <2>1. ASSUME NEW x \in Ids, w[AssociatedSlot(AddressOf[x])] = 1
        PROVE  v[AssociatedSlot(AddressOf[x])] = 1
    <3>1. AddressOf[x] \in Addresses /\ AssociatedSlot(AddressOf[x]) \in Slots
      BY AddressOfIs, SlotTypes
    <3> QED BY <1>5, <1>7, <2>1, <3>1
  <2> QED BY <1>10, <2>1 DEF Associations
<1>14. k.live /\ k.supply >= 0
  BY <1>10 DEF Live
<1>15. Overwritten(l, k)
  BY <1>10, <1>11, <1>12, <1>13, <1>14 DEF Overwritten
<1> QED BY <1>3, <1>15 DEF Overwrite, Replaces

LEMMA ChangesLedger ==
    ASSUME IdsIdentifyAccounts, IInv, IInv', CreatedOnce, NEW t \in Tokens, Changes(t)
    PROVE  \/ LedgerOf(t)' = LedgerOf(t)
           \/ Ledger(t)!Step(LedgerOf(t), LedgerOf(t)')
           \/ Overwrite(t)
<1>1. CASE token'[t] = token[t]
  BY <1>1 DEF LedgerOf, Callable, Opened
<1>2. CASE Creates(t)
  <2>1. PICK a \in Addresses, n \in Nat :
           /\ token'[t].initialized /\ token'[t].supply = n /\ token'[t].treasury = a
           /\ View(t, token'[t]) = Issued(Nothing, a, n)
    BY <1>2 DEF Creates, Starts
  <2>2. LedgerOf(t) = Ledger(t)!Blank
    BY <1>2, BlankUntilCallable DEF Creates
  <2>3. LedgerOf(t)' = Books(View(t, token'[t]), token'[t])
    BY <2>1, LedgerIsBooksNext
  <2>4. Ledger(t)!Create(LedgerOf(t), LedgerOf(t)')
    BY <2>1, <2>2, <2>3, CreateStep
  <2> QED BY <2>4 DEF Ledger!Step
<1>3. ASSUME NEW c \in Addresses, Callable(t),
             Shows(View(t, token[t]), View(t, token'[t]), Opened(t), token'[t], c)
      PROVE  LedgerOf(t)' = LedgerOf(t) \/ Ledger(t)!Step(LedgerOf(t), LedgerOf(t)')
  <2>1. /\ View(t, token[t]) \in [Slots -> Word] /\ View(t, token'[t]) \in [Slots -> Word]
        /\ Opened(t) \in TokenState /\ token'[t] \in TokenState /\ Opened(t).initialized
    BY <1>3, ViewIs, IInvGood, IInvGoodNext, OpenedView DEF Good
  <2>2. token'[t].initialized
    BY <1>3, <2>1 DEF Shows, Supplies, SameInfo, SameButSupply
  <2>3. LedgerOf(t) = Books(View(t, token[t]), Opened(t))
    BY <1>3, LedgerIsBooks
  <2>4. LedgerOf(t)' = Books(View(t, token'[t]), token'[t])
    BY <2>2, LedgerIsBooksNext
  <2> QED BY <1>3, <2>1, <2>3, <2>4, ShowsStep
<1> QED BY <1>1, <1>2, <1>3, ReplaceStep DEF Changes

LEMMA LedgerNext ==
    ASSUME IdsIdentifyAccounts, IInv, IInv', CreatedOnce, [Next]_vars,
           NEW t \in Tokens
    PROVE  [Ledger(t)!Next \/ Overwrite(t)]_(LedgerOf(t))
<1>1. CASE UNCHANGED vars
  BY <1>1 DEF vars, LedgerOf, Callable, Opened
<1>2. CASE Next
  <2>1. Changes(t)
    BY <1>2, NextChanges
  <2> QED BY <2>1, ChangesLedger DEF Ledger!Next
<1> QED BY <1>1, <1>2

LEMMA CreatedOnceKept ==
    IdsIdentifyAccounts =>
        (CreatedOnce /\ IInv /\ [Next]_vars => CreatedOnce')
<1>1. ASSUME UNCHANGED vars, CreatedOnce
      PROVE  CreatedOnce'
  BY <1>1 DEF vars, CreatedOnce
<1> QED BY <1>1, NextChanges

\* Every token, of the network or created, implements the ledger; the one other
\* step there is overwrites a token of the network, and by IsReplaced just once.
THEOREM LedgerImplemented ==
    ASSUME IdsIdentifyAccounts, NEW t \in Tokens
    PROVE  Spec => Ledger(t)!Init /\ [][Ledger(t)!Next \/ Overwrite(t)]_(LedgerOf(t))
<1>1. Init => Ledger(t)!Init
  BY InitLedger
<1>2. IInv /\ IInv' /\ CreatedOnce /\ [Next]_vars => [Ledger(t)!Next \/ Overwrite(t)]_(LedgerOf(t))
  BY LedgerNext
<1>3. CreatedOnce /\ IInv /\ [Next]_vars => CreatedOnce'
  BY CreatedOnceKept
<1> QED BY <1>1, <1>2, <1>3, InitIInv, NextIInv, InitCreatedOnce, PTL DEF Spec

\* The token of the network that a run checks: no read, and no order of first uses,
\* is seen by its users.
THEOREM ForkedTokenImplements ==
    ASSUME IdsIdentifyAccounts
    PROVE  Spec => ForkedTokenIsLedger
<1>1. /\ Init => Ledger(Forked)!Init
      /\ IInv /\ IInv' /\ CreatedOnce /\ [Next]_vars =>
             [Ledger(Forked)!Next \/ Overwrite(Forked)]_(LedgerOf(Forked))
  BY LedgerAssumption, InitLedger, LedgerNext
<1>2. Ledger(Forked)!Init => ForkedLedger!Init
  BY DEF Ledger!Init, Ledger!Ledgers, Ledger!Blank, ForkedLedger!Init, ForkedLedger!Ledgers, ForkedLedger!Blank
<1>3. [Ledger(Forked)!Next \/ Overwrite(Forked)]_(LedgerOf(Forked)) =>
         [ForkedLedger!Next \/ Overwrite(Forked)]_(LedgerOf(Forked))
  BY Zenon
     DEF
       Ledger!Next, Ledger!Step, Ledger!Create, Ledger!Blank, Ledger!Issued,
       Ledger!MintOrBurn, Ledger!Associate, Ledger!Dissociate, Ledger!Approve,
       Ledger!Transfer, Ledger!Moved, Ledger!Charged, Ledger!TransferTwice,
       ForkedLedger!Next, ForkedLedger!Step, ForkedLedger!Create, ForkedLedger!Blank,
       ForkedLedger!Issued, ForkedLedger!MintOrBurn, ForkedLedger!Associate,
       ForkedLedger!Dissociate, ForkedLedger!Approve, ForkedLedger!Transfer,
       ForkedLedger!Moved, ForkedLedger!Charged, ForkedLedger!TransferTwice
<1>4. CreatedOnce /\ IInv /\ [Next]_vars => CreatedOnce'
  BY CreatedOnceKept
<1> QED BY <1>1, <1>2, <1>3, <1>4, InitIInv, NextIInv, InitCreatedOnce, PTL
        DEF Spec, ForkedTokenIsLedger

\* The created token that the same run checks.
THEOREM CreatedTokenImplements ==
    ASSUME IdsIdentifyAccounts
    PROVE  Spec => CreatedTokenIsLedger
<1>1. /\ Init => Ledger(Created)!Init
      /\ IInv /\ IInv' /\ CreatedOnce /\ [Next]_vars =>
             [Ledger(Created)!Next \/ Overwrite(Created)]_(LedgerOf(Created))
  BY LedgerAssumption, InitLedger, LedgerNext
<1>2. Ledger(Created)!Init => CreatedLedger!Init
  BY DEF Ledger!Init, Ledger!Ledgers, Ledger!Blank, CreatedLedger!Init, CreatedLedger!Ledgers, CreatedLedger!Blank
<1>3. [Ledger(Created)!Next \/ Overwrite(Created)]_(LedgerOf(Created)) =>
         [CreatedLedger!Next \/ Overwrite(Created)]_(LedgerOf(Created))
  BY Zenon
     DEF
       Ledger!Next, Ledger!Step, Ledger!Create, Ledger!Blank, Ledger!Issued,
       Ledger!MintOrBurn, Ledger!Associate, Ledger!Dissociate, Ledger!Approve,
       Ledger!Transfer, Ledger!Moved, Ledger!Charged, Ledger!TransferTwice,
       CreatedLedger!Next, CreatedLedger!Step, CreatedLedger!Create, CreatedLedger!Blank,
       CreatedLedger!Issued, CreatedLedger!MintOrBurn, CreatedLedger!Associate,
       CreatedLedger!Dissociate, CreatedLedger!Approve, CreatedLedger!Transfer,
       CreatedLedger!Moved, CreatedLedger!Charged, CreatedLedger!TransferTwice
<1>4. CreatedOnce /\ IInv /\ [Next]_vars => CreatedOnce'
  BY CreatedOnceKept
<1> QED BY <1>1, <1>2, <1>3, <1>4, InitIInv, NextIInv, InitCreatedOnce, PTL
        DEF Spec, CreatedTokenIsLedger

-----------------------------------------------------------------------------
(* The books of every token balance: the balances that are shown add up to *)
(* the supply, for every finite set of addresses and every number of       *)
(* tokens.  Each step of HtsFungible is a step of FungibleLedger on each   *)
(* token, so what is left is that the steps of FungibleLedger keep a sum.  *)
(*                                                                         *)
(* A sum is a fold, a function defined by recursion over subsets.  That it *)
(* exists, and what it returns, is shown with smallest counterexamples:    *)
(* sets of subsets stand for the predicates of an induction.               *)


-----------------------------------------------------------------------------
(* Induction over the subsets of a finite set: the sets of which a claim   *)
(* fails, if any, have a smallest one.                                     *)

LEMMA Smallest ==
  ASSUME NEW S, IsFiniteSet(S), NEW Bad, Bad \subseteq SUBSET S, Bad # {}
  PROVE  \E s \in Bad : \A t \in SUBSET s : t # s => t \notin Bad
<1>1. IsWellFoundedOn(StrictSubsetOrdering(S), SUBSET S)
  BY FS_StrictSubsetOrderingWellFounded, FS_FiniteSubsetsOfFinite
<1>2. PICK s \in Bad : \A t \in Bad : ~(<<t, s>> \in StrictSubsetOrdering(S))
  BY <1>1, WFMin
<1>3. ASSUME NEW t \in Bad, t \subseteq s, t # s PROVE FALSE
  <2>1. <<t, s>> \in StrictSubsetOrdering(S)
    BY <1>3 DEF StrictSubsetOrdering
  <2> QED BY <2>1, <1>2
<1> QED BY <1>2, <1>3

-----------------------------------------------------------------------------
(* SumFunctionOnSet is a fold over the subsets of its set.                 *)

Some(s) == CHOOSE x \in s : TRUE
Rest(s) == s \ {Some(s)}
Sums(f, S, g) ==
    g = [s \in SUBSET S |-> IF s = {} THEN 0 ELSE f[Some(s)] + g[Rest(s)]]

LEMMA SumUnfolded ==
  ASSUME NEW f, NEW S
  PROVE  SumFunctionOnSet(f, S) = (CHOOSE g : Sums(f, S, g))[S]
  BY DEF SumFunctionOnSet, FoldFunctionOnSet, MapThenFoldSet, Sums, Rest, Some

LEMMA SomeIn ==
  ASSUME NEW s, s # {}
  PROVE  Some(s) \in s /\ Rest(s) \subseteq s /\ Rest(s) # s
  BY DEF Some, Rest

LEMMA SumsAt ==
  ASSUME NEW f, NEW S, NEW g, Sums(f, S, g), NEW s \in SUBSET S
  PROVE  /\ s = {} => g[s] = 0
         /\ s # {} => g[s] = f[Some(s)] + g[Rest(s)]
  BY DEF Sums

LEMMA SumsAgree ==
  ASSUME NEW f, NEW S, IsFiniteSet(S), NEW g, Sums(f, S, g), NEW R, NEW h, Sums(f, R, h), S \subseteq R
  PROVE  \A s \in SUBSET S : g[s] = h[s]
<1> DEFINE Bad == {s \in SUBSET S : g[s] # h[s]}
<1>1. SUFFICES ASSUME Bad # {} PROVE FALSE
  OBVIOUS
<1>2. PICK s \in Bad : \A t \in SUBSET s : t # s => t \notin Bad
  <2> HIDE DEF Bad
  <2>1. Bad \subseteq SUBSET S
    BY DEF Bad
  <2> QED BY <1>1, <2>1, Smallest
<1>3. s \in SUBSET S /\ s \in SUBSET R /\ g[s] # h[s]
  OBVIOUS
<1>4. CASE s = {}
  BY <1>3, <1>4, SumsAt
<1>5. CASE s # {}
  <2>1. Rest(s) \in SUBSET s /\ Rest(s) # s
    BY <1>5, SomeIn
  <2>2. g[Rest(s)] = h[Rest(s)]
    BY <1>2, <1>3, <2>1
  <2>3. g[s] = f[Some(s)] + g[Rest(s)] /\ h[s] = f[Some(s)] + h[Rest(s)]
    BY <1>3, <1>5, SumsAt
  <2> QED BY <1>3, <2>2, <2>3
<1> QED BY <1>4, <1>5

\* The sums over the subsets of s, from those over the subsets of a larger set.
LEMMA SumsOfSubset ==
  ASSUME NEW f, NEW S, NEW g, Sums(f, S, g), NEW s \in SUBSET S
  PROVE  Sums(f, s, [t \in SUBSET s |-> g[t]])
<1> DEFINE h == [t \in SUBSET s |-> g[t]]
<1>1. ASSUME NEW t \in SUBSET s
      PROVE  h[t] = IF t = {} THEN 0 ELSE f[Some(t)] + h[Rest(t)]
  <2>1. t \in SUBSET S /\ Rest(t) \in SUBSET s
    BY DEF Rest
  <2>2. h[t] = g[t] /\ h[Rest(t)] = g[Rest(t)]
    BY <2>1
  <2> QED BY <2>1, <2>2, SumsAt
<1>2. h = [t \in SUBSET s |-> IF t = {} THEN 0 ELSE f[Some(t)] + h[Rest(t)]]
  BY <1>1
<1> HIDE DEF h
<1>3. Sums(f, s, h)
  BY <1>2 DEF Sums
<1> QED BY <1>3 DEF h

LEMMA SumsExist ==
  ASSUME NEW f, NEW S, IsFiniteSet(S)
  PROVE  \E g : Sums(f, S, g)
<1> DEFINE Bad == {s \in SUBSET S : ~ \E g : Sums(f, s, g)}
<1>1. SUFFICES ASSUME Bad # {} PROVE FALSE
  OBVIOUS
<1>2. PICK s \in Bad : \A t \in SUBSET s : t # s => t \notin Bad
  <2> HIDE DEF Bad
  <2>1. Bad \subseteq SUBSET S
    BY DEF Bad
  <2> QED BY <1>1, <2>1, Smallest
<1> DEFINE Fun(t) == CHOOSE g : Sums(f, t, g)
           Val(t) == IF t = s /\ s # {} THEN f[Some(s)] + Fun(Rest(s))[Rest(s)]
                     ELSE IF t = {} THEN 0 ELSE Fun(t)[t]
           h == [t \in SUBSET s |-> Val(t)]
<1>3. s \in SUBSET S /\ ~ \E g : Sums(f, s, g)
  OBVIOUS
<1>4. ASSUME NEW t \in SUBSET s, t # s
      PROVE  Sums(f, t, Fun(t)) /\ IsFiniteSet(t)
  <2>1. t \in SUBSET S
    BY <1>3
  <2>2. \E g : Sums(f, t, g)
    BY <1>2, <1>4, <2>1
  <2> QED BY <2>1, <2>2, FS_Subset
<1>5. ASSUME NEW t \in SUBSET s
      PROVE  h[t] = IF t = {} THEN 0 ELSE f[Some(t)] + h[Rest(t)]
  <2>1. CASE t = {}
    BY <2>1
  <2>2. CASE t # {}
    <3>1. Rest(t) \in SUBSET t /\ Rest(t) # t /\ Rest(t) \in SUBSET s /\ Rest(t) # s
      BY <2>2, SomeIn
    <3>2. Sums(f, Rest(t), Fun(Rest(t))) /\ IsFiniteSet(Rest(t))
      BY <1>4, <3>1
    <3> HIDE DEF Fun
    <3>3. h[Rest(t)] = Fun(Rest(t))[Rest(t)]
      <4>1. Rest(t) = {} => Fun(Rest(t))[Rest(t)] = 0
        BY <3>2, SumsAt
      <4> QED BY <3>1, <4>1
    <3>4. CASE t = s
      BY <2>2, <3>3, <3>4
    <3>5. CASE t # s
      <4>1. Sums(f, t, Fun(t))
        BY <1>4, <3>5
      <4>2. Fun(t)[t] = f[Some(t)] + Fun(t)[Rest(t)]
        BY <2>2, <4>1, SumsAt
      <4>3. Fun(Rest(t))[Rest(t)] = Fun(t)[Rest(t)]
        BY <3>1, <3>2, <4>1, SumsAgree
      <4>4. h[t] = Fun(t)[t]
        BY <2>2, <3>5
      <4> QED BY <2>2, <3>3, <4>2, <4>3, <4>4
    <3> QED BY <3>4, <3>5
  <2> QED BY <2>1, <2>2
<1>6. h = [t \in SUBSET s |-> IF t = {} THEN 0 ELSE f[Some(t)] + h[Rest(t)]]
  <2> HIDE DEF Val
  <2>1. h = [t \in SUBSET s |-> h[t]]
    OBVIOUS
  <2> HIDE DEF h
  <2> QED BY <2>1, <1>5
<1>7. Sums(f, s, h)
  <2> HIDE DEF h
  <2> QED BY <1>6 DEF Sums
<1> QED BY <1>3, <1>7

\* What the fold returns.
LEMMA SumStep ==
  ASSUME NEW f, NEW S, IsFiniteSet(S)
  PROVE  /\ S = {} => SumFunctionOnSet(f, S) = 0
         /\ S # {} => SumFunctionOnSet(f, S) = f[Some(S)] + SumFunctionOnSet(f, Rest(S))
<1> DEFINE Fun(t) == CHOOSE g : Sums(f, t, g)
<1>1. \A T : IsFiniteSet(T) => Sums(f, T, Fun(T))
  BY SumsExist
<1>2. \A T : SumFunctionOnSet(f, T) = Fun(T)[T]
  BY SumUnfolded
<1> HIDE DEF Fun
<1>3. S = {} => Fun(S)[S] = 0
  BY <1>1, SumsAt
<1>4. ASSUME S # {} PROVE Fun(S)[S] = f[Some(S)] + Fun(Rest(S))[Rest(S)]
  <2>1. Rest(S) \in SUBSET S /\ IsFiniteSet(Rest(S))
    BY FS_Subset DEF Rest
  <2>2. Sums(f, S, Fun(S)) /\ Sums(f, Rest(S), Fun(Rest(S)))
    BY <1>1, <2>1
  <2>3. Fun(Rest(S))[Rest(S)] = Fun(S)[Rest(S)]
    BY <2>1, <2>2, SumsAgree
  <2>4. Fun(S)[S] = f[Some(S)] + Fun(S)[Rest(S)]
    BY <1>4, <2>2, SumsAt
  <2> QED BY <2>3, <2>4
<1> QED BY <1>2, <1>3, <1>4

LEMMA SumType ==
  ASSUME NEW S, IsFiniteSet(S), NEW f \in [S -> Int], NEW T \in SUBSET S
  PROVE  SumFunctionOnSet(f, T) \in Int
<1> DEFINE Bad == {s \in SUBSET S : SumFunctionOnSet(f, s) \notin Int}
<1>1. SUFFICES ASSUME Bad # {} PROVE FALSE
  OBVIOUS
<1>2. PICK s \in Bad : \A t \in SUBSET s : t # s => t \notin Bad
  <2> HIDE DEF Bad
  <2>1. Bad \subseteq SUBSET S
    BY DEF Bad
  <2> QED BY <1>1, <2>1, Smallest
<1>3. s \in SUBSET S /\ IsFiniteSet(s) /\ SumFunctionOnSet(f, s) \notin Int
  BY FS_Subset
<1>4. s # {}
  <2>1. s = {} => SumFunctionOnSet(f, s) = 0
    BY <1>3, SumStep
  <2> QED BY <1>3, <2>1
<1>5. Some(s) \in S /\ Rest(s) \in SUBSET s /\ Rest(s) # s
  BY <1>3, <1>4, SomeIn
<1>6. SumFunctionOnSet(f, Rest(s)) \in Int
  BY <1>2, <1>3, <1>5
<1>7. SumFunctionOnSet(f, s) = f[Some(s)] + SumFunctionOnSet(f, Rest(s))
  BY <1>3, <1>4, SumStep
<1> QED BY <1>3, <1>5, <1>6, <1>7

\* A sum does not depend on the order in which the fold takes the elements.
LEMMA SumTake ==
  ASSUME NEW S, IsFiniteSet(S), NEW f \in [S -> Int], NEW T \in SUBSET S, NEW x \in T
  PROVE  SumFunctionOnSet(f, T) = f[x] + SumFunctionOnSet(f, T \ {x})
<1> DEFINE Sum(s) == SumFunctionOnSet(f, s)
           Bad == {s \in SUBSET S : \E y \in s : Sum(s) # f[y] + Sum(s \ {y})}
<1>1. SUFFICES ASSUME Bad # {} PROVE FALSE
  OBVIOUS
<1>2. PICK s \in Bad : \A t \in SUBSET s : t # s => t \notin Bad
  <2> HIDE DEF Bad
  <2>1. Bad \subseteq SUBSET S
    BY DEF Bad
  <2> QED BY <1>1, <2>1, Smallest
<1>3. PICK y \in s : Sum(s) # f[y] + Sum(s \ {y})
  OBVIOUS
<1>4. s \in SUBSET S /\ IsFiniteSet(s) /\ \A t \in SUBSET s : IsFiniteSet(t) /\ Sum(t) \in Int
  BY FS_Subset, SumType
<1> DEFINE z == Some(s)
<1>5. z \in s /\ Rest(s) = s \ {z} /\ Sum(s) = f[z] + Sum(s \ {z})
  BY <1>4, SumStep, SomeIn DEF Rest
<1>6. z # y
  BY <1>3, <1>5
<1>7. Sum(s \ {z}) = f[y] + Sum((s \ {z}) \ {y})
  <2> HIDE DEF z, Sum
  <2>1. s \ {z} \in SUBSET s /\ s \ {z} # s /\ y \in s \ {z} /\ s \ {z} \in SUBSET S
    BY <1>4, <1>5, <1>6
  <2> QED BY <1>2, <2>1
<1>8. Sum(s \ {y}) = f[z] + Sum((s \ {y}) \ {z})
  <2> HIDE DEF z, Sum
  <2>1. s \ {y} \in SUBSET s /\ s \ {y} # s /\ z \in s \ {y} /\ s \ {y} \in SUBSET S
    BY <1>4, <1>5, <1>6
  <2> QED BY <1>2, <2>1
<1>9. (s \ {z}) \ {y} = (s \ {y}) \ {z} /\ (s \ {y}) \ {z} \in SUBSET s
  OBVIOUS
<1> HIDE DEF z, Sum
<1>10. f[y] \in Int /\ f[z] \in Int /\ Sum((s \ {y}) \ {z}) \in Int
  BY <1>4, <1>5, <1>9
<1> QED BY <1>3, <1>5, <1>7, <1>8, <1>9, <1>10

LEMMA SumSame ==
  ASSUME NEW S, IsFiniteSet(S), NEW f \in [S -> Int], NEW g \in [S -> Int],
         NEW T \in SUBSET S, \A x \in T : f[x] = g[x]
  PROVE  SumFunctionOnSet(f, T) = SumFunctionOnSet(g, T)
<1> DEFINE Bad == {s \in SUBSET T : SumFunctionOnSet(f, s) # SumFunctionOnSet(g, s)}
<1>0. IsFiniteSet(T)
  BY FS_Subset
<1>1. SUFFICES ASSUME Bad # {} PROVE FALSE
  OBVIOUS
<1>2. PICK s \in Bad : \A t \in SUBSET s : t # s => t \notin Bad
  <2> HIDE DEF Bad
  <2>1. Bad \subseteq SUBSET T
    BY DEF Bad
  <2> QED BY <1>0, <1>1, <2>1, Smallest
<1>3. s \in SUBSET T /\ IsFiniteSet(s) /\ SumFunctionOnSet(f, s) # SumFunctionOnSet(g, s)
  BY <1>0, FS_Subset
<1>4. s # {}
  BY <1>3, SumStep
<1>5. Some(s) \in T /\ Rest(s) \in SUBSET s /\ Rest(s) # s
  BY <1>3, <1>4, SomeIn
<1>6. SumFunctionOnSet(f, Rest(s)) = SumFunctionOnSet(g, Rest(s))
  BY <1>2, <1>3, <1>5
<1>7. /\ SumFunctionOnSet(f, s) = f[Some(s)] + SumFunctionOnSet(f, Rest(s))
      /\ SumFunctionOnSet(g, s) = g[Some(s)] + SumFunctionOnSet(g, Rest(s))
  BY <1>3, <1>4, SumStep
<1> QED BY <1>3, <1>5, <1>6, <1>7

\* One value more or less is as much more or less in the sum.
LEMMA SumChange ==
  ASSUME NEW S, IsFiniteSet(S), NEW f \in [S -> Int], NEW g \in [S -> Int], NEW x \in S,
         \A y \in S \ {x} : g[y] = f[y]
  PROVE  SumFunction(g) = SumFunction(f) + g[x] - f[x]
<1>1. SumFunction(f) = SumFunctionOnSet(f, S) /\ SumFunction(g) = SumFunctionOnSet(g, S)
  BY DEF SumFunction
<1>2. /\ SumFunctionOnSet(f, S) = f[x] + SumFunctionOnSet(f, S \ {x})
      /\ SumFunctionOnSet(g, S) = g[x] + SumFunctionOnSet(g, S \ {x})
  BY SumTake
<1>3. SumFunctionOnSet(f, S \ {x}) = SumFunctionOnSet(g, S \ {x})
  BY SumSame
<1>4. SumFunctionOnSet(f, S \ {x}) \in Int /\ f[x] \in Int /\ g[x] \in Int
  BY SumType
<1> QED BY <1>1, <1>2, <1>3, <1>4

LEMMA SumZero ==
  ASSUME NEW S, IsFiniteSet(S), NEW f \in [S -> Int], \A x \in S : f[x] = 0
  PROVE  SumFunction(f) = 0
<1> DEFINE Bad == {s \in SUBSET S : SumFunctionOnSet(f, s) # 0}
<1>1. SUFFICES ASSUME Bad # {} PROVE FALSE
  BY DEF SumFunction
<1>2. PICK s \in Bad : \A t \in SUBSET s : t # s => t \notin Bad
  <2> HIDE DEF Bad
  <2>1. Bad \subseteq SUBSET S
    BY DEF Bad
  <2> QED BY <1>1, <2>1, Smallest
<1>3. s \in SUBSET S /\ IsFiniteSet(s) /\ SumFunctionOnSet(f, s) # 0
  BY FS_Subset
<1>4. s # {}
  BY <1>3, SumStep
<1>5. Some(s) \in S /\ Rest(s) \in SUBSET s /\ Rest(s) # s
  BY <1>3, <1>4, SomeIn
<1>6. SumFunctionOnSet(f, Rest(s)) = 0
  BY <1>2, <1>3, <1>5
<1>7. SumFunctionOnSet(f, s) = f[Some(s)] + SumFunctionOnSet(f, Rest(s))
  BY <1>3, <1>4, SumStep
<1> QED BY <1>3, <1>5, <1>6, <1>7

LEMMA SumNat ==
  ASSUME NEW S, IsFiniteSet(S), NEW f \in [S -> Int], \A x \in S : f[x] >= 0
  PROVE  SumFunction(f) >= 0
<1> DEFINE Bad == {s \in SUBSET S : ~(SumFunctionOnSet(f, s) >= 0)}
<1>1. SUFFICES ASSUME Bad # {} PROVE FALSE
  BY DEF SumFunction
<1>2. PICK s \in Bad : \A t \in SUBSET s : t # s => t \notin Bad
  <2> HIDE DEF Bad
  <2>1. Bad \subseteq SUBSET S
    BY DEF Bad
  <2> QED BY <1>1, <2>1, Smallest
<1>3. s \in SUBSET S /\ IsFiniteSet(s) /\ ~(SumFunctionOnSet(f, s) >= 0)
  BY FS_Subset
<1>4. s # {}
  <2>1. s = {} => SumFunctionOnSet(f, s) = 0
    BY <1>3, SumStep
  <2> QED BY <1>3, <2>1
<1>5. Some(s) \in S /\ Rest(s) \in SUBSET s /\ Rest(s) # s
  BY <1>3, <1>4, SomeIn
<1>6. SumFunctionOnSet(f, Rest(s)) >= 0 /\ SumFunctionOnSet(f, Rest(s)) \in Int
  BY <1>2, <1>3, <1>5, SumType
<1>7. SumFunctionOnSet(f, s) = f[Some(s)] + SumFunctionOnSet(f, Rest(s))
  BY <1>3, <1>4, SumStep
<1> QED BY <1>3, <1>5, <1>6, <1>7
-----------------------------------------------------------------------------
(* The steps of the ledger.                                                *)

LEMMA MovedSum ==
  ASSUME IsFiniteSet(Ids), NEW t, NEW b \in [Ids -> Int], NEW i \in Ids, NEW j \in Ids, NEW n \in Int
  PROVE  /\ Ledger(t)!Moved(b, i, j, n) \in [Ids -> Int]
         /\ SumFunction(Ledger(t)!Moved(b, i, j, n)) = SumFunction(b)
<1> DEFINE m == [x \in Ids |-> b[x] - (IF x = i THEN n ELSE 0)]
           e == [x \in Ids |-> b[x] - (IF x = i THEN n ELSE 0) + (IF x = j THEN n ELSE 0)]
<1>1. m \in [Ids -> Int] /\ e \in [Ids -> Int]
  OBVIOUS
<1>2. m[i] = b[i] - n /\ \A x \in Ids \ {i} : m[x] = b[x]
  OBVIOUS
<1>3. e[j] = m[j] + n /\ \A x \in Ids \ {j} : e[x] = m[x]
  OBVIOUS
<1>4. e = Ledger(t)!Moved(b, i, j, n)
  BY DEF Ledger!Moved
<1> HIDE DEF m, e
<1>5. SumFunction(m) = SumFunction(b) + m[i] - b[i]
  BY <1>1, <1>2, SumChange
<1>6. SumFunction(e) = SumFunction(m) + e[j] - m[j]
  BY <1>1, <1>3, SumChange
<1>7. SumFunction(b) \in Int /\ b[i] \in Int /\ m[j] \in Int
  BY <1>1, SumType DEF SumFunction
<1> QED BY <1>1, <1>2, <1>3, <1>4, <1>5, <1>6, <1>7

\* A token that is live has one treasury.
Typed(t, l) == /\ l \in Ledger(t)!Ledgers
               /\ l.live => \E i \in Ids : l.treasury = {i}

\* What the balances of a ledger hold beyond its supply.
Surplus(l) == SumFunction(l.balance) - l.supply

LEMMA IssuedTo ==
  ASSUME NEW t, NEW l \in Ledger(t)!Ledgers, NEW n \in Int, NEW i \in Ids, l.treasury = {i}
  PROVE  /\ Ledger(t)!Issued(l, n).supply = l.supply + n
         /\ Ledger(t)!Issued(l, n).balance[i] = l.balance[i] + n
         /\ \A x \in Ids \ {i} : Ledger(t)!Issued(l, n).balance[x] = l.balance[x]
<1> DEFINE b == [x \in Ids |-> l.balance[x] + (IF x \in l.treasury THEN n ELSE 0)]
<1>1. b[i] = l.balance[i] + n /\ \A x \in Ids \ {i} : b[x] = l.balance[x] + 0
  OBVIOUS
<1>2. \A x \in Ids : l.balance[x] \in Int
  BY DEF Ledger!Ledgers
<1>3. Ledger(t)!Issued(l, n) = [l EXCEPT !.supply = l.supply + n, !.balance = b]
  BY DEF Ledger!Issued
<1> HIDE DEF b
<1>4. Ledger(t)!Issued(l, n).supply = l.supply + n /\ Ledger(t)!Issued(l, n).balance = b
  BY <1>3 DEF Ledger!Ledgers
<1> QED BY <1>1, <1>2, <1>4

LEMMA StepBalanced ==
  ASSUME IsFiniteSet(Ids), NEW t, NEW l, NEW k,
         Typed(t, l), Typed(t, k),
         Ledger(t)!Step(l, k)
  PROVE  Surplus(k) = Surplus(l)
<1>0. /\ l.balance \in [Ids -> Int] /\ k.balance \in [Ids -> Int]
      /\ l.supply \in Int /\ k.supply \in Int /\ l \in Ledger(t)!Ledgers
  BY DEF Typed, Ledger!Ledgers
<1>1. CASE Ledger(t)!Create(l, k)
  <2>1. PICK i \in Ids : k = Ledger(t)!Issued(
            [Ledger(t)!Blank EXCEPT !.live = TRUE, !.treasury = {i}, !.mintable = k.mintable,
                                    !.associated = k.associated], k.supply)
    BY <1>1 DEF Ledger!Create
  <2>2. l.supply = 0 /\ \A x \in Ids : l.balance[x] = 0
    BY <1>1 DEF Ledger!Create, Ledger!Blank
  <2> DEFINE fresh == [Ledger(t)!Blank EXCEPT !.live = TRUE, !.treasury = {i},
                                              !.mintable = k.mintable,
                                              !.associated = k.associated]
  <2>6. /\ fresh \in Ledger(t)!Ledgers /\ fresh.treasury = {i}
        /\ \A x \in Ids : fresh.balance[x] = 0
    <3>1. k.mintable \in BOOLEAN /\ k.associated \in SUBSET Ids
      BY DEF Typed, Ledger!Ledgers
    <3>2. /\ Ledger(t)!Blank \in Ledger(t)!Ledgers
          /\ \A x \in Ids : Ledger(t)!Blank.balance[x] = 0
      BY DEF Ledger!Blank, Ledger!Ledgers
    <3> QED BY <3>1, <3>2 DEF Ledger!Ledgers
  <2>7. k = Ledger(t)!Issued(fresh, k.supply)
    BY <2>1
  <2> HIDE DEF fresh
  <2>3. k.balance[i] = 0 + k.supply /\ \A x \in Ids \ {i} : k.balance[x] = 0
    BY <1>0, <2>6, <2>7, IssuedTo
  <2>4. SumFunction(k.balance) = SumFunction(l.balance) + k.balance[i] - l.balance[i]
    BY <1>0, <2>2, <2>3, SumChange
  <2>5. SumFunction(l.balance) = 0
    BY <1>0, <2>2, SumZero
  <2> QED BY <1>0, <2>2, <2>3, <2>4, <2>5 DEF Surplus
<1>2. CASE l.live /\ Ledger(t)!MintOrBurn(l, k)
  <2>1. PICK i \in Ids : l.treasury = {i}
    BY <1>2 DEF Typed
  <2> DEFINE n == k.supply - l.supply
  <2>2. n \in Int /\ k.supply = l.supply + n /\ k = Ledger(t)!Issued(l, n)
    BY <1>0, <1>2 DEF Ledger!MintOrBurn
  <2> HIDE DEF n
  <2>4. k.balance[i] = l.balance[i] + n /\ \A x \in Ids \ {i} : k.balance[x] = l.balance[x]
    BY <1>0, <2>1, <2>2, IssuedTo
  <2>5. SumFunction(k.balance) = SumFunction(l.balance) + k.balance[i] - l.balance[i]
    BY <1>0, <2>4, SumChange
  <2>6. l.balance[i] \in Int /\ SumFunction(l.balance) \in Int
    BY <1>0, SumType DEF SumFunction
  <2> QED BY <1>0, <2>2, <2>4, <2>5, <2>6 DEF Surplus
<1>3. CASE \E c \in Ids : \/ Ledger(t)!Associate(l, k, c)
                          \/ Ledger(t)!Dissociate(l, k, c)
                          \/ Ledger(t)!Approve(l, k, c)
  <2>1. k.supply = l.supply /\ k.balance = l.balance
    BY <1>0, <1>3 DEF Ledger!Associate, Ledger!Dissociate, Ledger!Approve, Ledger!Ledgers
  <2> QED BY <2>1 DEF Surplus
<1>4. ASSUME NEW c \in Ids, Ledger(t)!Transfer(l, k, c)
      PROVE  Surplus(k) = Surplus(l)
  <2>1. PICK i \in Ids, j \in Ids, n \in Int :
            /\ k.balance = Ledger(t)!Moved(l.balance, i, j, n)
            /\ k = [l EXCEPT !.balance = k.balance, !.allowance = k.allowance]
    BY <1>0, <1>4 DEF Ledger!Transfer
  <2>2. k.supply = l.supply
    BY <1>0, <2>1 DEF Ledger!Ledgers
  <2> QED BY <1>0, <2>1, <2>2, MovedSum DEF Surplus
<1>5. ASSUME NEW c \in Ids, Ledger(t)!TransferTwice(l, k, c)
      PROVE  Surplus(k) = Surplus(l)
  <2>1. PICK i \in Ids, j \in Ids, n \in Int :
            LET b == Ledger(t)!Moved(l.balance, i, j, n)
            IN  \E p, q \in Ids : \E m \in 0 .. b[p] :
                    /\ k.balance = Ledger(t)!Moved(b, p, q, m)
                    /\ k = [l EXCEPT !.balance = k.balance, !.allowance = k.allowance]
    BY <1>0, <1>5 DEF Ledger!TransferTwice
  <2> DEFINE b == Ledger(t)!Moved(l.balance, i, j, n)
  <2>2. k.supply = l.supply
    BY <1>0, <2>1 DEF Ledger!Ledgers
  <2>3. PICK p \in Ids, q \in Ids, m \in Int : k.balance = Ledger(t)!Moved(b, p, q, m)
    BY <2>1
  <2>4. b \in [Ids -> Int] /\ SumFunction(b) = SumFunction(l.balance)
    BY <1>0, <2>1, MovedSum
  <2> HIDE DEF b
  <2>5. SumFunction(k.balance) = SumFunction(b)
    BY <2>3, <2>4, MovedSum
  <2> QED BY <2>2, <2>4, <2>5 DEF Surplus
<1> QED BY <1>1, <1>2, <1>3, <1>4, <1>5 DEF Ledger!Step

\* What is left of a token that another one overwrites is not negative.
LEMMA OverwrittenSurplus ==
  ASSUME IsFiniteSet(Ids), NEW t, NEW l, NEW k, Typed(t, l), Typed(t, k), Overwritten(l, k)
  PROVE  Surplus(k) >= 0
<1>1. PICK i \in Ids :
        \A x \in Ids : k.balance[x] - (IF x = i THEN k.supply ELSE 0) \in {0, l.balance[x]}
  BY DEF Overwritten
<1> DEFINE left == [x \in Ids |-> k.balance[x] - (IF x = i THEN k.supply ELSE 0)]
<1>2. /\ k.balance \in [Ids -> Int] /\ k.supply \in Int
      /\ \A x \in Ids : l.balance[x] \in Nat
  BY DEF Typed, Ledger!Ledgers
<1>3. /\ left \in [Ids -> Int] /\ \A x \in Ids : left[x] >= 0
      /\ left[i] = k.balance[i] - k.supply
      /\ \A x \in Ids \ {i} : k.balance[x] = left[x]
  BY <1>1, <1>2
<1> HIDE DEF left
<1>4. SumFunction(k.balance) = SumFunction(left) + k.balance[i] - left[i]
  BY <1>2, <1>3, SumChange
<1>5. SumFunction(left) >= 0
  BY <1>3, SumNat
<1>6. SumFunction(left) \in Int /\ k.balance[i] \in Int
  BY <1>2, <1>3, SumType DEF SumFunction
<1> QED BY <1>2, <1>3, <1>4, <1>5, <1>6 DEF Surplus

-----------------------------------------------------------------------------
(* The tokens.                                                             *)

LEMMA IdsFinite ==
  ASSUME IsFiniteSet(Addresses)
  PROVE  IsFiniteSet(Ids)
<1> DEFINE f == [a \in Addresses |-> AccountId[a]]
<1>1. f \in Surjection(Addresses, Ids)
  BY DEF Ids, Surjection
<1> QED BY <1>1, FS_Surjection

LEMMA LedgerTypes ==
  ASSUME IdsIdentifyAccounts, IInv, CreatedOnce, NEW t \in Tokens
  PROVE  Typed(t, LedgerOf(t))
<1>1. CASE ~Callable(t)
  <2>1. LedgerOf(t) = Ledger(t)!Blank
    BY <1>1, BlankUntilCallable
  <2>2. Ledger(t)!Blank \in Ledger(t)!Ledgers /\ ~Ledger(t)!Blank.live
    BY DEF Ledger!Blank, Ledger!Ledgers
  <2> QED BY <2>1, <2>2 DEF Typed
<1>2. CASE Callable(t)
  <2>1. LedgerOf(t) = Books(View(t, token[t]), Opened(t))
    BY <1>2, LedgerIsBooks
  <2>2. View(t, token[t]) \in [Slots -> Word] /\ Opened(t) \in TokenState
        /\ Opened(t).treasury \in Addresses
    BY <1>2, ViewIs, IInvGood, OpenedView, TreasuryOpened DEF Good
  <2>3. LedgerOf(t) \in Ledger(t)!Ledgers
    BY <2>1, <2>2, BooksType
  <2>4. LedgerOf(t).treasury = {AccountId[Opened(t).treasury]}
    BY <1>2 DEF LedgerOf
  <2> QED BY <2>2, <2>3, <2>4, AddressOfIs DEF Typed
<1> QED BY <1>1, <1>2

\* What Conservation says of one token.
Settled(t) == IF Replaced(t) THEN Surplus(LedgerOf(t)) >= 0 ELSE Surplus(LedgerOf(t)) = 0

LEMMA LedgerSums ==
  ASSUME IsFiniteSet(Ids), NEW t, Typed(t, LedgerOf(t))
  PROVE  LedgerOf(t).supply \in Int /\ SumFunction(LedgerOf(t).balance) \in Int
<1>1. LedgerOf(t).balance \in [Ids -> Int] /\ LedgerOf(t).supply \in Int
  BY DEF Typed, Ledger!Ledgers
<1> QED BY <1>1, SumType DEF SumFunction

LEMMA LedgerOfToken ==
  ASSUME IsFiniteSet(Ids), \A t \in Tokens : Typed(t, LedgerOf(t))
  PROVE  Conservation <=> \A t \in Tokens : Callable(t) => Settled(t)
<1>1. ASSUME NEW t \in Tokens, Callable(t)
      PROVE  Settled(t) <=>
               LET held == SumFunction([i \in Ids |-> BalanceSeen(t, token[t], AddressOf[i])])
               IN  IF Replaced(t) THEN Opened(t).supply <= held ELSE Opened(t).supply = held
  <2>1. /\ LedgerOf(t).supply = Opened(t).supply
        /\ LedgerOf(t).balance = [i \in Ids |-> BalanceSeen(t, token[t], AddressOf[i])]
    BY <1>1 DEF LedgerOf
  <2>2. PICK n, m : n = Opened(t).supply
                    /\ m = SumFunction([i \in Ids |-> BalanceSeen(t, token[t], AddressOf[i])])
    OBVIOUS
  <2>3. n \in Int /\ m \in Int /\ Surplus(LedgerOf(t)) = m - n
    BY <2>1, <2>2, LedgerSums DEF Surplus
  <2>4. /\ m - n >= 0 <=> n <= m
        /\ m - n = 0 <=> n = m
    BY <2>3
  <2> QED BY <2>2, <2>3, <2>4 DEF Settled
<1> QED BY <1>1 DEF Conservation

LEMMA BlankSettled ==
  ASSUME IsFiniteSet(Ids), NEW t, ~Callable(t)
  PROVE  Settled(t)
<1>1. LedgerOf(t).supply = 0 /\ LedgerOf(t).balance = [i \in Ids |-> 0]
  BY DEF LedgerOf
<1> DEFINE none == [i \in Ids |-> 0]
<1>2. none \in [Ids -> Int] /\ \A i \in Ids : none[i] = 0
  OBVIOUS
<1> HIDE DEF none
<1>3. SumFunction(none) = 0
  BY <1>2, SumZero
<1>4. Surplus(LedgerOf(t)) = 0
  BY <1>1, <1>3 DEF Surplus, none
<1> QED BY <1>4 DEF Settled

\* A token is replaced for good.
LEMMA StaysReplaced ==
  ASSUME IdsIdentifyAccounts, IInv, NEW t \in Tokens, Changes(t), Replaced(t)
  PROVE  Replaced(t)'
<1>1. token[t].local /\ t \in RemoteTokens
  BY DEF Replaced
<1>2. ~Creates(t)
  BY <1>1 DEF Creates, EmptyToken
<1>3. ASSUME NEW c \in Addresses, Callable(t),
             Shows(View(t, token[t]), View(t, token'[t]), Opened(t), token'[t], c)
      PROVE  token'[t].local
  <2>1. Opened(t).local
    BY <1>1, <1>3, OpenedView
  <2> QED BY <1>3, <2>1 DEF Shows, Supplies, SameInfo, SameButSupply
<1>4. token'[t].local
  BY <1>1, <1>2, <1>3 DEF Changes, Replaces, IsReplaced, Replaced
<1> QED BY <1>1, <1>4 DEF Replaced

LEMMA SettledKept ==
  ASSUME IsFiniteSet(Ids), IdsIdentifyAccounts, IInv, IInv', CreatedOnce, [Next]_vars,
         NEW t \in Tokens, Settled(t), Typed(t, LedgerOf(t)), Typed(t, LedgerOf(t)')
  PROVE  Settled(t)'
<1>1. PICK l, k : l = LedgerOf(t) /\ k = LedgerOf(t)'
  OBVIOUS
<1>2. Replaced(t) => Replaced(t)'
  <2>1. CASE Next
    BY <2>1, NextChanges, StaysReplaced
  <2>2. CASE UNCHANGED vars
    BY <2>2 DEF vars, Replaced
  <2> QED BY <2>1, <2>2
<1>3. k = l \/ Ledger(t)!Step(l, k) \/ Overwrite(t)
  BY <1>1, LedgerNext DEF Ledger!Next
<1>4. CASE k = l \/ Ledger(t)!Step(l, k)
  <2>1. Surplus(k) = Surplus(l)
    BY <1>1, <1>4, StepBalanced
  <2> QED BY <1>1, <1>2, <2>1 DEF Settled, Surplus
<1>5. CASE Overwrite(t)
  <2>1. Surplus(k) >= 0
    BY <1>1, <1>5, OverwrittenSurplus DEF Overwrite
  <2> QED BY <1>1, <1>5, <2>1 DEF Settled, Surplus, Overwrite, IsReplaced
<1> QED BY <1>3, <1>4, <1>5

\* At the start every balance is the network's.
LEMMA InitConserves ==
  ASSUME MirrorConserves, Init
  PROVE  Conservation
<1>1. ASSUME NEW t \in Tokens, Callable(t)
      PROVE  /\ t \in RemoteTokens /\ Opened(t).supply = Mirror[t].supply
             /\ \A a \in Addresses : BalanceSeen(t, token[t], a) = getBalance(t, a)
             /\ ~Replaced(t)
  BY <1>1 DEF Init, Callable, Opened, EmptyToken, BalanceSeen, Seen, Replaced
<1>2. ASSUME NEW t \in Tokens, Callable(t)
      PROVE  Opened(t).supply =
                 SumFunction([i \in Ids |-> BalanceSeen(t, token[t], AddressOf[i])])
  <2>1. [i \in Ids |-> BalanceSeen(t, token[t], AddressOf[i])] =
            [i \in Ids |-> getBalance(t, AddressOf[i])]
    BY <1>1, <1>2, AddressOfIs
  <2> QED BY <1>1, <1>2, <2>1 DEF MirrorConserves
<1> QED BY <1>1, <1>2 DEF Conservation

\* The balances of every token add up to its supply, for every finite set of
\* addresses, if those of the network did when it was forked.  Those of a token
\* created at the address of another one add up to its supply and more.
THEOREM Conserved ==
  ASSUME IsFiniteSet(Addresses), IdsIdentifyAccounts, MirrorConserves
  PROVE  Spec => []Conservation
<1> DEFINE Books0 == \A t \in Tokens : Settled(t)
           Types0 == \A t \in Tokens : Typed(t, LedgerOf(t))
<1>0. IsFiniteSet(Ids)
  BY IdsFinite
<1>1. IInv /\ CreatedOnce => Types0
  BY LedgerTypes
<1>2. Init => Books0
  <2>1. Init => Types0
    BY <1>1, InitIInv, InitCreatedOnce
  <2> QED BY <1>0, <2>1, InitConserves, LedgerOfToken, BlankSettled
<1>3. IInv /\ IInv' /\ CreatedOnce /\ [Next]_vars /\ Books0 /\ Types0 /\ Types0' => Books0'
  <2> SUFFICES ASSUME IInv, IInv', CreatedOnce, [Next]_vars, Books0, Types0, Types0', NEW t \in Tokens
               PROVE  Settled(t)'
    OBVIOUS
  <2>1. Settled(t) /\ Typed(t, LedgerOf(t)) /\ Typed(t, LedgerOf(t)')
    BY DEF Typed
  <2> QED BY <1>0, <2>1, SettledKept
<1>4. CreatedOnce /\ IInv /\ [Next]_vars => CreatedOnce'
  BY CreatedOnceKept
<1>5. Types0 /\ Books0 => Conservation
  BY <1>0, LedgerOfToken
<1> HIDE DEF Books0, Types0
<1> QED BY <1>1, <1>2, <1>3, <1>4, <1>5, InitIInv, NextIInv, InitCreatedOnce, PTL DEF Spec
=============================================================================
