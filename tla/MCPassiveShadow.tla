--------------------------- MODULE MCPassiveShadow ---------------------------
\* Manifests: an intent that waits for a rise and one in a unit no row has; an
\* inert one and one that waits for a fall; and a file out of order.
EXTENDS PassiveShadow

Intent(inert, positive, unit, window) ==
    [inert |-> inert, positive |-> positive, boundary |-> 1, unit |-> unit, window |-> window]
Entry(pos, intent) == [pos |-> pos, intent |-> intent]
Rise == Intent(FALSE, TRUE, "proportion", 1)
Fall == [Intent(FALSE, FALSE, "proportion", 0) EXCEPT !.boundary = 0]
Inert == Intent(TRUE, TRUE, "proportion", 1)
Foreign == Intent(FALSE, TRUE, "USD", 1)

MCManifests == {
    << Entry(1, Rise), Entry(2, Foreign) >>,
    << Entry(1, Inert), Entry(2, Fall) >>,
    << Entry(2, Rise), Entry(1, Fall) >> }
=============================================================================
