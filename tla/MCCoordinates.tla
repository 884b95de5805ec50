----------------------------- MODULE MCCoordinates -----------------------------
(* TLC instance of Coordinates: numbers of seventeen bits' precision, all of *)
(* them normal from 1.0 on, as degrees are; positions up to sixteen degrees, *)
(* at and next to every minute of some degrees and at single seconds, and    *)
(* coordinates at and next to every whole degree and some minutes.           *)
EXTENDS Coordinates

Degrees == {0, 1, 3, 7, 8, 12, 15}

MCPositions ==
    UNION {{x - 2 * One, x, -x} : x \in
        UNION {{base - n * Spacing(base, DoubleSignificant), base + n * Spacing(base, DoubleSignificant)} :
            base \in {Double(2 * One + e * One + (k * One) \div 60, 1) : e \in Degrees, k \in 0 .. 60},
            n \in 0 .. 2}}
MCArriving ==
    {-One, 0} \cup
    UNION {{Double(k * 100 * One + n * One, 1) + j * Spacing(k * 100 * One + n * One, DoubleSignificant) : j \in -2 .. 2} :
        k \in 1 .. 15, n \in {0, 1, 30, 59, 60}}
MCTextSizes == {1, 2, 3, 4, 5, 8, 15, 16, 17, 18, 32}
=============================================================================
