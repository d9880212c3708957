---------------------------- MODULE SoftTopology ----------------------------
(***************************************************************************)
(* The topology of the cycle simulator: sim/src/soft_backend.h (Topology,  *)
(* routingTableFor) and soft_backend.cpp (the Hilbert placement, the       *)
(* connection points of the memory interfaces, buildRouter).  A            *)
(* configuration c is a record [numPU, numMC, clusterSize]; the code fixes *)
(* clusterSize at 16 and refuses what IsTopology excludes.                 *)
(***************************************************************************)
EXTENDS Integers, FiniteSets, Sequences

Dist(a, b) == (IF a > b THEN a - b ELSE b - a)

IsSqrt(s, n) == s * s <= n /\ n < (s + 1) * (s + 1)
Sqrt(n) == CHOOSE s \in 0 .. n : IsSqrt(s, n)

\* gridDims: columns and rows, 1:1 or 2:1.
GridDims(n) ==
    LET s == Sqrt(n)
    IN  IF s * s = n THEN <<s, s>> ELSE <<2 * Sqrt(n \div 2), Sqrt(n \div 2)>>

IsTopology(c) ==
    LET g == GridDims(c.numPU)
    IN  /\ g[1] * g[2] = c.numPU
        /\ g[1] \in {2, 4, 8, 16, 32, 64}
        /\ c.numPU % c.clusterSize = 0
        /\ (c.numPU \div c.clusterSize) % c.numMC = 0

HilbertNoFlip(n, d) ==  \* mutant: the quadrant is transposed, never reversed
    LET at[s \in {1, 2, 4, 8, 16, 32, 64}] ==
            IF s = 1 THEN <<0, 0>>
            ELSE LET h == s \div 2
                     t == d \div (h * h)
                     rx == (t \div 2) % 2
                     ry == (t + rx) % 2
                     p == at[h]
                     q == IF ry = 0 THEN <<p[2], p[1]>> ELSE p
                 IN  <<q[1] + h * rx, q[2] + h * ry>>
    IN  at[n]

\* hilbertD2xy: the position <<row, column>> of the d-th point of the curve
\* in an n by n square; at[s] is <<x, y>> when the loop has reached s.
HilbertD2xy(n, d) ==
    LET at[s \in {1, 2, 4, 8, 16, 32, 64}] ==
            IF s = 1 THEN <<0, 0>>
            ELSE LET h == s \div 2
                     t == d \div (h * h)
                     rx == (t \div 2) % 2
                     ry == (t + rx) % 2
                     p == at[h]
                     flip == IF rx = 1 THEN <<h - 1 - p[1], h - 1 - p[2]>> ELSE p
                     q == IF ry = 0 THEN <<flip[2], flip[1]>> ELSE p
                 IN  <<q[1] + h * rx, q[2] + h * ry>>
    IN  at[n]

PUs(c) == 1 .. c.numPU
Memifs(c) == 0 .. c.numMC           \* 0 is the peripheral interface

\* Column and row of each PU; a 2:1 grid is the first half of the square.
PuToCoord(c) ==
    LET w == GridDims(c.numPU)[1]
    IN  [id \in PUs(c) |->
            LET p == HilbertD2xy(w, id - 1) IN [col |-> p[2], row |-> p[1]]]

\* The directions that have a link: 0 North, 1 East, 2 South, 3 West.
MeshDirs(g, p) ==
    LET there(dir) == CASE dir = 0 -> p.row > 0
                        [] dir = 1 -> p.col + 1 < g[1]
                        [] dir = 2 -> p.row + 1 < g[2]
                        [] dir = 3 -> p.col > 0
    IN  SelectSeq(<<0, 1, 2, 3>>, there)

\* The PU of a cluster closest to the centre of the grid, the first of
\* several (distances doubled, to stay with integers).
BestConn(c, g, coord, cluster) ==
    LET members == cluster * c.clusterSize + 1 .. (cluster + 1) * c.clusterSize
        d(pu) == Dist(2 * coord[pu].row, g[2]) + Dist(2 * coord[pu].col, g[1])
    IN  CHOOSE pu \in members : \A q \in members :
            d(pu) < d(q) \/ (d(pu) = d(q) /\ pu <= q)

\* The PUs with a request port of each interface, by port.
MemifReqAt(c, g, coord) ==
    LET perMC == (c.numPU \div c.clusterSize) \div c.numMC
    IN  [m \in Memifs(c) |->
            IF m = 0 THEN <<1>>
            ELSE [i \in 1 .. perMC |-> BestConn(c, g, coord, (m - 1) * perMC + i - 1)]]

\* The interface and port (from 0) at a PU; the constructor throws when two
\* interfaces want one PU.
PuMemif(req, pu) ==
    UNION {{[memif |-> m, port |-> i - 1] : i \in {j \in DOMAIN req[m] : req[m][j] = pu}} :
              m \in DOMAIN req}

\* The constructor. Only the first port of an interface injects.
Topology(c) ==
    LET g == GridDims(c.numPU)
        coord == PuToCoord(c)
        req == MemifReqAt(c, g, coord)
        memif == [pu \in PUs(c) |-> PuMemif(req, pu)]
    IN  [w |-> g[1], h |-> g[2],
         pu_to_coord |-> coord,
         coord_to_pu |-> [p \in {coord[i] : i \in PUs(c)} |->
                             {i \in PUs(c) : coord[i] = p}],
         pu_mesh_dirs |-> [pu \in PUs(c) |-> MeshDirs(g, coord[pu])],
         memif_req_at |-> req,
         pu_memif |-> memif,
         pu_memif_inject |-> [pu \in PUs(c) |->
                                 {x.memif : x \in {y \in memif[pu] : y.port = 0}}]]

----------------------------------------------------------------------------
(* routingTableFor and buildRouter, on a topology t                        *)

\* The request port of an interface nearest to a PU, the first of several.
NearestPort(t, pu, m) ==
    LET ports == t.memif_req_at[m]
        here == t.pu_to_coord[pu]
        d(i) == Dist(t.pu_to_coord[ports[i]].col, here.col)
                    + Dist(t.pu_to_coord[ports[i]].row, here.row)
        best == CHOOSE i \in DOMAIN ports : \A j \in DOMAIN ports :
                    d(i) < d(j) \/ (d(i) = d(j) /\ i <= j)
    IN  ports[best]

Step(p, dir) ==
    CASE dir = 0 -> [p EXCEPT !.row = @ - 1]
      [] dir = 1 -> [p EXCEPT !.col = @ + 1]
      [] dir = 2 -> [p EXCEPT !.row = @ + 1]
      [] dir = 3 -> [p EXCEPT !.col = @ - 1]

\* links.forwards: the neighbour in the direction of link k, and the number
\* of the link back in the neighbour's own list.
Forward(t, pu, k) ==
    LET dir == t.pu_mesh_dirs[pu][k + 1]
        n == CHOOSE q \in t.coord_to_pu[Step(t.pu_to_coord[pu], dir)] : TRUE
        dirs == t.pu_mesh_dirs[n]
    IN  [pu |-> n, port |-> (CHOOSE i \in DOMAIN dirs : dirs[i] = (dir + 2) % 4) - 1]

\* XY routing: columns first.
XYDir(from, to) ==
    IF to.col # from.col THEN IF to.col < from.col THEN 3 ELSE 1
    ELSE IF to.row < from.row THEN 0 ELSE 2

NumForwards(t, pu) == Len(t.pu_mesh_dirs[pu])

\* The output port for a destination [mem, idx]: the links of the mesh first,
\* then the core, then the memory interface.
Route(t, pu, dst) ==
    LET nf == NumForwards(t, pu)
        tgt == IF dst.mem THEN NearestPort(t, pu, dst.idx) ELSE dst.idx
        dir == XYDir(t.pu_to_coord[pu], t.pu_to_coord[tgt])
    IN  IF tgt \in {0, pu} THEN IF dst.mem THEN nf + 1 ELSE nf
        ELSE (CHOOSE i \in 1 .. nf : t.pu_mesh_dirs[pu][i] = dir) - 1

NumInputs(t, pu) == NumForwards(t, pu) + 1 + Cardinality(t.pu_memif_inject[pu])
NumOutputs(t, pu) == NumForwards(t, pu) + 1 + Cardinality(t.pu_memif[pu])

----------------------------------------------------------------------------
(* Work distribution over host threads                                     *)

PuWorkRange(n, threads, t) == (t * n) \div threads + 1 .. ((t + 1) * n) \div threads

PuOwnerEven(n, threads, pu) == (pu - 1) \div (n \div threads) \* mutant: equal shares
PuOwner(n, threads, pu) == (pu * threads - 1) \div n

----------------------------------------------------------------------------
(* What a topology must satisfy                                            *)

MeshDist(t, a, b) ==
    Dist(t.pu_to_coord[a].col, t.pu_to_coord[b].col)
        + Dist(t.pu_to_coord[a].row, t.pu_to_coord[b].row)

Destinations(t) ==
    {[mem |-> FALSE, idx |-> i] : i \in DOMAIN t.pu_memif}
        \cup {[mem |-> TRUE, idx |-> m] : m \in DOMAIN t.memif_req_at}

\* The PU where a flit for dst that starts at pu is after k hops.
Walk(t, pu, dst, hops) ==
    LET at[k \in 0 .. hops] ==
            IF k = 0 THEN pu
            ELSE LET here == at[k - 1]
                     o == Route(t, here, dst)
                 IN  IF o < NumForwards(t, here) THEN Forward(t, here, o).pu ELSE here
    IN  at[hops]

\* Ids follow one another along a path through the grid that visits each
\* cell once: neighbours in number are neighbours in the mesh.
PlacementIsPath(t) ==
    /\ \A p \in DOMAIN t.coord_to_pu : Cardinality(t.coord_to_pu[p]) = 1
    /\ \A i \in DOMAIN t.pu_memif : i > 1 => MeshDist(t, i, i - 1) = 1

\* Every flit leaves the mesh where its destination is, by a shortest path,
\* though each router on the way picks the nearest port for itself.
RoutesReach(t) ==
    \A pu \in DOMAIN t.pu_memif, dst \in Destinations(t) :
        LET goal == IF dst.mem THEN NearestPort(t, pu, dst.idx) ELSE dst.idx
            last == Walk(t, pu, dst, MeshDist(t, pu, goal))
            nf == NumForwards(t, last)
        IN  IF dst.mem
            THEN /\ Route(t, last, dst) = nf + 1
                 /\ \E mp \in t.pu_memif[last] : mp.memif = dst.idx
            ELSE /\ Route(t, last, dst) = nf
                 /\ last = dst.idx

\* No PU hosts two interfaces, every request port is at a PU, and links come
\* in pairs: what the constructor and buildRouter throw about.
LinksPair(t) ==
    /\ \A m \in DOMAIN t.memif_req_at : t.memif_req_at[m] \in Seq(DOMAIN t.pu_memif)
    /\ \A pu \in DOMAIN t.pu_memif :
         /\ \A x, y \in t.pu_memif[pu] : x = y
         /\ NumForwards(t, pu) \in 0 .. 4
         /\ \A k \in 0 .. NumForwards(t, pu) - 1 :
              LET f == Forward(t, pu, k)
              IN  /\ f.pu \in DOMAIN t.pu_memif
                  /\ f.port \in 0 .. NumForwards(t, f.pu) - 1
                  /\ Forward(t, f.pu, f.port) = [pu |-> pu, port |-> k]

\* puOwner names the thread whose range holds the PU.
OwnersAgree(n, threads) ==
    \A t \in 0 .. threads - 1, pu \in 1 .. n :
        pu \in PuWorkRange(n, threads, t) <=> PuOwner(n, threads, pu) = t

\* Of each configuration: flits find their way, and each PU has one thread.
Sound(c) ==
    LET t == Topology(c)
    IN  /\ PlacementIsPath(t) /\ RoutesReach(t) /\ LinksPair(t)
        /\ \A threads \in 1 .. c.numPU : OwnersAgree(c.numPU, threads)

=============================================================================
