------------------------------- MODULE Scripts -------------------------------
(***************************************************************************)
(* The verification of a transaction: which scripts the node runs for it.  *)
(***************************************************************************)
EXTENDS TypeScript, LockScript, TokenScripts

\* Every script of the transaction accepts it.  User locks, and the issuer's,
\* accept whatever their owner signed.
ScriptsAccept(tx, stale) ==
    /\ \A lock \in LockScripts(tx) :
          lock.code = "udtswap_lock" => lock_main(tx, lock)
    /\ \A s \in TypeScripts(tx) :
          /\ s.code = "udtswap" => udtswap_main(tx, s, stale)
          /\ s.code = "liquidity" => liquidity_main(tx, s)
          /\ s.code = "udt" => test_udt_main(tx, s)

==============================================================================
