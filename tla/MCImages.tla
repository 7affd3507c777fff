------------------------------ MODULE MCImages ------------------------------
(* Instances of Images for TLC.                                             *)
EXTENDS Images

\* Image 1 is the base, 2 a layer on it, and the others are layers on 2.
Tree == [n \in Images |-> IF n <= 2 THEN [i \in 1..n |-> i] ELSE <<1, 2, n>>]

\* One process builds on what is enough for the other.
ThreeAndTwo == [j \in Jobs |-> IF j = "a" THEN 3 ELSE 2]

\* A temporary file that nobody has in use is emptied before it is used again, and
\* why a record cannot be read makes no difference unless somebody has it open: TLC
\* need not tell such states apart.
InUse(n) == \E j \in Jobs : open[j] # "no" /\ Name(j) = n

View ==
    <<image, up, open, shared, lock, job, prune, unlocked,
      [n \in Images |-> IF InUse(n) THEN part[n] ELSE "none"],
      [n \in Images |-> IF InUse(n) \/ n \in meta THEN record[n] ELSE "none"]>>
=============================================================================
