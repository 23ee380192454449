--------------------------- MODULE RouteLookupMC ----------------------------
(* Two-bit addresses and two metrics: every table of up to two routes,       *)
(* canonical or not, and every canonical table of three.                     *)
EXTENDS RouteLookup

SmallRoutes == [network : Address, prefix_length : 0..(AddressBits + 1), metric : {1, 2}]
CanonicalSmall == {r \in SmallRoutes : Canonical(r)}
SmallTables == {<<>>} \cup {<<a>> : a \in SmallRoutes}
               \cup {<<a, b>> : a \in SmallRoutes, b \in SmallRoutes}
               \cup {<<a, b, c>> : a \in CanonicalSmall, b \in CanonicalSmall,
                                   c \in CanonicalSmall}
=============================================================================
