------------------------------- MODULE MCTerms -------------------------------
(***************************************************************************)
(* Small instances of Terms: payment, contract and composite roots, and    *)
(* requests that vary one group of terms at a time.                        *)
(***************************************************************************)
EXTENDS Terms

CONSTANTS shop, cafe, dex, call

MCAddresses == {shop, cafe, dex, Usdc}
MCSelectors == {call, Approve, Increase, Transfer}

Bare == [pay |-> None, contract |-> None, expiry |-> None, maxUses |-> None,
         perTxMax |-> None, merchants |-> None, subcards |-> TRUE]

PayOnly(p, l) == [period |-> p, lifetime |-> l]

Scope(ts, ss, tok, max) == [targets |-> ts, selectors |-> ss, tokens |-> tok, perTradeMax |-> max]

Scopes ==
  {Scope({dex}, {call}, None, None), Scope({dex}, {call}, {Usdc}, None),
   Scope({dex, Usdc}, {call, Approve}, None, None), Scope({dex, Usdc}, {call, Approve}, {Usdc}, 2),
   Scope({dex, Usdc}, {call, Approve}, None, 1), Scope({dex, Usdc}, {Increase}, None, None)}

MCRoots ==
  {[Bare EXCEPT !.pay = [period |-> 5, lifetime |-> 6], !.maxUses = 2, !.perTxMax = 2,
                !.merchants = {shop}, !.expiry = 1],
   [Bare EXCEPT !.pay = [period |-> 4, lifetime |-> None], !.perTxMax = 2],
   [Bare EXCEPT !.pay = [period |-> None, lifetime |-> 6],
                !.contract = Normalized(Scope({dex}, {call}, {Usdc}, 1)), !.maxUses = 1],
   [Bare EXCEPT !.contract = Scope({dex, Usdc}, {call, Approve, Increase}, None, 2), !.expiry = 1, !.maxUses = 2],
   [Bare EXCEPT !.contract = Scope({dex}, {call}, None, None), !.subcards = FALSE]}

MCRequests ==
  {[Bare EXCEPT !.expiry = 2, !.merchants = {shop}], [Bare EXCEPT !.perTxMax = 3],
   [Bare EXCEPT !.perTxMax = 1, !.merchants = {cafe}]}
  \cup {[Bare EXCEPT !.pay = PayOnly(3, None), !.maxUses = 1], [Bare EXCEPT !.pay = PayOnly(7, None)],
        [Bare EXCEPT !.pay = PayOnly(None, 4)]}
  \cup {[Bare EXCEPT !.contract = c] : c \in Scopes}

Pay(to, n) == [mode |-> "pay", to |-> to, amount |-> n, calls |-> <<>>]
Run(es) == [mode |-> "execute", to |-> None, amount |-> 0, calls |-> es]

Use == Execution(dex, call, None, 0)
Grant(sel, token, spender, n) == Execution(token, sel, spender, n)

MCRedemptions ==
  {Pay(shop, 1), Pay(shop, 2), Pay(cafe, 3),
   Run(<<Use, Use, Use, Use, Use>>),
   Run(<<Grant(Approve, Usdc, dex, 1), Use>>), Run(<<Use, Grant(Approve, Usdc, dex, 2)>>),
   Run(<<Grant(Increase, Usdc, dex, 2)>>), Run(<<Grant(Approve, dex, shop, 1)>>)}
=============================================================================
