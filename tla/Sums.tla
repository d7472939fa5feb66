------------------------------- MODULE Sums -------------------------------
(***************************************************************************)
(* The sum of an integer function over 1..n, written as a recursive        *)
(* function so that the proofs can use it (module BrokerProofs).           *)
(***************************************************************************)
EXTENDS Integers

(* f[1] + ... + f[n]. *)
SumTo(f, n) ==
    LET s[i \in 0..n] == IF i = 0 THEN 0 ELSE s[i-1] + f[i]
    IN  s[n]
=============================================================================
