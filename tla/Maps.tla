-------------------------------- MODULE Maps --------------------------------
(* Functions with a finite domain, as the maps of the code. *)

\* f without the keys ks
Drop(f, ks) == [k \in DOMAIN f \ ks |-> f[k]]

\* f with the values of g where g has some
Over(g, f) == [k \in DOMAIN g \union DOMAIN f |-> IF k \in DOMAIN g THEN g[k] ELSE f[k]]

\* f with v for k
With(f, k, v) == Over([x \in {k} |-> v], f)
=============================================================================
