---------------------------- MODULE MCChainState ----------------------------
(***************************************************************************)
(* Accounts and blocks of ChainState for TLC.                               *)
(***************************************************************************)
EXTENDS ChainState, TLC

CONSTANTS alice, bob, carol

\* Carol has no account to begin with.
TwoAccounts == (alice :> 2) @@ (bob :> 1)

Transfers(senders, amounts, nonces) ==
  {[kind |-> "Transfer", sender |-> s, to |-> t, amount |-> n, nonce |-> m] :
     s \in senders, t \in Addresses, n \in amounts, m \in nonces}

Other(kind, s, m) == [kind |-> kind, sender |-> s, to |-> s, amount |-> 0, nonce |-> m]

Txs ==
  Transfers({alice, bob}, {1, 2}, {0, 1})
    \cup {Other("TechGnosDeploy", s, m) : s \in {alice, bob}, m \in {0, 1}}
    \cup {Other("TechGnosCall", bob, 0), Other("Governance", alice, 1),
          Other("Governance", carol, 0), Other("TechGnosCall", carol, 0)}

BlocksOfTwo == {<<t>> : t \in Txs} \cup {<<t, u>> : t \in Txs, u \in Txs}

=============================================================================
