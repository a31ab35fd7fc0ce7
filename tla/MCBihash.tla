------------------------------ MODULE MCBihash ------------------------------
EXTENDS Bihash, TLC

CONSTANTS k1, k2, k3, k4, v1, v2, w1, w2

Hash(a, b, c, d) == k1 :> a @@ k2 :> b @@ k3 :> c @@ k4 :> d

\* Tables that grow, two buckets and a writer: keys that part at the first, the
\* second and the fourth bit behind that of the bucket, and some that never do.
Growing ==
  [hash : {Hash(0, 2, 1, 4), Hash(0, 8, 1, 16), Hash(0, 0, 0, 4)},
   values : {{v1}}, writers : {{w1}}, searched : {{}}]

\* A table with two writers: another key in the bucket of the one that is searched
\* for, and one in the other bucket.
Searched ==
  [hash : {k1 :> 0 @@ k2 :> 2 @@ k3 :> 1},
   values : {{v1}}, writers : {{w1, w2}}, searched : {{k1}}]

\* Values that are replaced.
Replaced ==
  [hash : {k1 :> 0 @@ k2 :> 2},
   values : {{v1, v2}}, writers : {{w1}}, searched : {{k1, k2}}]

SomeTables == Growing \cup Searched \cup Replaced
=============================================================================
