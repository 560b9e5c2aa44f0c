-------------------------------- MODULE Geo ---------------------------------
(***************************************************************************)
(* storage/geo.go: points as scores of a sorted set.  A coordinate is      *)
(* counted in cells from the south pole or from -180 degrees, Cells of     *)
(* them to the north pole or to +180; where in its cell a point lies is    *)
(* left out, and so is the distance of points on different meridians,      *)
(* which is floating-point arithmetic.                                     *)
(***************************************************************************)
EXTENDS Integers, Sequences, FiniteSets, FiniteSetsExt, SequencesExt

CONSTANTS Member,
          Steps,        \* geoHashStep, the bits of a coordinate: 26
          Lat, Lon,     \* the coordinates of the instance, beyond the range included
          MaxPoints     \* bound on the points of one GEOADD

VARIABLES score,        \* the score of every member, or NoScore
          point         \* the coordinates last given for it

geoVars == <<score, point>>

GeoConstants == Steps \in Nat /\ Lat \subseteq Int /\ Lon \subseteq Int

NoScore == -1
Nowhere == [lat |-> -1, lon |-> -1]
Cells == 2 ^ Steps

Bit(n, i) == (n \div 2 ^ i) % 2

\* geohashEncode: the low Steps bits, longitude in even positions.
geohashEncode(p) ==
    MapThenSumSet(LAMBDA i : Bit(p.lon, i) * 2 ^ (2 * i) + Bit(p.lat, i) * 2 ^ (2 * i + 1),
                  0 .. Steps - 1)

geohashDecode(h) ==
    [lat |-> MapThenSumSet(LAMBDA i : Bit(h, 2 * i + 1) * 2 ^ i, 0 .. Steps - 1),
     lon |-> MapThenSumSet(LAMBDA i : Bit(h, 2 * i) * 2 ^ i, 0 .. Steps - 1)]

\* isValidCoordinate
Valid(p) == p.lat \in 0 .. Cells /\ p.lon \in 0 .. Cells

\* GeoPos and the decoding of GeoDist, GeoRadius and GeoRadiusByMember.
GeoPos(m) == geohashDecode(score[m])

\* GeoRadius, for members on the meridian of the centre: the candidates are a range of
\* scores, two for every cell of the radius, and are then filtered by distance.
GeoRadius(p, radius) ==
    LET center    == geohashEncode(p)
        hashRange == 2 * radius
    IN {m \in Member :
          /\ Valid(p)
          /\ score[m] # NoScore
          /\ score[m] \in center - hashRange .. center + hashRange
          /\ GeoPos(m).lon = p.lon
          /\ GeoPos(m).lat - p.lat \in -radius .. radius}

-----------------------------------------------------------------------------
Init ==
    /\ score = [m \in Member |-> NoScore]
    /\ point = [m \in Member |-> Nowhere]

\* GeoAdd: one invalid point and nothing is added.
GeoAdd(points) ==
    \/ /\ \A i \in DOMAIN points : Valid(points[i])
       /\ score' = FoldLeft(LAMBDA s, p : [s EXCEPT ![p.member] = geohashEncode(p)], score, points)
       /\ point' = FoldLeft(LAMBDA s, p : [s EXCEPT ![p.member] = [lat |-> p.lat, lon |-> p.lon]],
                            point, points)
    \/ /\ \E i \in DOMAIN points : ~Valid(points[i])
       /\ UNCHANGED geoVars

Points == [member : Member, lat : Lat, lon : Lon]

Next == \E points \in BoundedSeq(Points, MaxPoints) \ {<<>>} : GeoAdd(points)

Spec == Init /\ [][Next]_geoVars

-----------------------------------------------------------------------------
(* Properties.                                                              *)

\* GEOPOS answers the cell of the point last added, whatever was added beside it, but for
\* the northern and the eastern end, which have one bit more than is kept and come back as
\* the southern and the western one (geohashEncode, geohashDecode, GeoAdd).
GeoPosExact ==
    \A m \in Member :
        score[m] # NoScore => GeoPos(m) = [lat |-> point[m].lat % Cells,
                                           lon |-> point[m].lon % Cells]

\* docs/geospatial.md:245 "Given a center point and radius, find all locations within that
\* distance": violated, because a cell further north may be far away in the order of scores.
RadiusComplete ==
    \A m, n \in Member, radius \in 1 .. Cells :
        /\ score[m] # NoScore /\ score[n] # NoScore
        /\ GeoPos(n).lon = GeoPos(m).lon
        /\ GeoPos(n).lat - GeoPos(m).lat \in -radius .. radius
        => n \in GeoRadius(GeoPos(m), radius)
=============================================================================
