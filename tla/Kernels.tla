------------------------------- MODULE Kernels -------------------------------
(***************************************************************************)
(* What the ULTs of the repository's applications read and write: cg       *)
(* (cg_argobots_fixed) and jac3d (jac3d_argobots_fixed), whose OpenMP      *)
(* loops have become functions that NUM_THREADS ULTs execute, each on its  *)
(* slice of the arrays.  The values are left out.                          *)
(***************************************************************************)
EXTENDS Integers, Sequences

CONSTANTS
    NUM_THREADS,  \* reduction_context.num_threads
    NA,           \* the order of the matrix of cg
    ROWS          \* L of jac3d: the length of the edges of the cube

Id == 0 .. NUM_THREADS - 1

work == (NA + NUM_THREADS - 1) \div NUM_THREADS

(* No ULT is without rows of the matrix.                                   *)
KernelConstants ==
    /\ NUM_THREADS \in Nat \ {0} /\ NA \in Nat /\ ROWS \in Nat
    /\ (NUM_THREADS - 1) * work < NA
    /\ NUM_THREADS <= ROWS - 2

-----------------------------------------------------------------------------
(* Slices of the indices from 0 on.                                        *)

(* Mutant of Slice: each slice ends with the first index of the next.      *)
SliceLong(n, t) ==
    t * (n \div NUM_THREADS) ..
        (IF t = NUM_THREADS - 1 THEN n - 1 ELSE (t + 1) * (n \div NUM_THREADS))

(* j_start .. j_stop - 1 of n iterations: the last ULT takes what the      *)
(* division leaves.                                                        *)
Slice(n, t) ==
    t * (n \div NUM_THREADS) ..
        (IF t = NUM_THREADS - 1 THEN n ELSE (t + 1) * (n \div NUM_THREADS)) - 1

(* ilow .. ihigh - 1, of makea and sparse: the last ULT may get less.      *)
Block(t) == work * t .. (IF work * (t + 1) > NA THEN NA ELSE work * (t + 1)) - 1

Columns == 0 .. NA - 1

After(S) == {j + 1 : j \in S}

On(arrays, S) == arrays \X S

Use(r, w) == [reads |-> r, writes |-> w]

(* Every ULT does the same, with its own slices.                           *)
Each(use(_)) == [t \in Id |-> use(t)]

-----------------------------------------------------------------------------
(* The parts of init_random_number_generator_thread, between two waits on  *)
(* the barrier or between two loops.  Elements of a, v, iv and colidx are  *)
(* counted by the row they belong to.                                      *)

Generate(t) == Use({}, On({"arow", "acol", "aelt"}, Block(t)))

CountTriples(t) ==
    Use(On({"arow", "acol"}, Columns),
        On({"rowstr"}, After(Block(t)) \cup (IF t = 0 THEN {0} ELSE {}))
            \cup On({"last_n"}, {t}))

ShiftRows(t) ==
    Use(On({"last_n"}, 0 .. t - 1),
        IF t = 0 THEN {} ELSE On({"rowstr"}, After(Block(t))))

Fill(t) ==
    Use(On({"arow", "acol", "aelt"}, Columns)
            \cup On({"rowstr"}, Block(t) \cup After(Block(t)) \cup {NA}),
        On({"v", "iv", "nzloc"}, Block(t)))

CountDuplicates(t) == Use({}, On({"nzloc"}, Block(t)) \cup On({"last_n"}, {t}))

ShiftDuplicates(t) ==
    Use(On({"last_n"}, 0 .. t - 1), IF t = 0 THEN {} ELSE On({"nzloc"}, Block(t)))

Compact(t) ==
    LET S == Slice(NA, t) IN
    Use(On({"rowstr"}, S \cup After(S)) \cup On({"v", "iv"}, S)
            \cup On({"nzloc"}, S \cup {j \in Columns : j + 1 \in S}),
        On({"a", "colidx"}, S))

AdjustRows(t) ==
    Use(On({"nzloc"}, Slice(NA, t)), On({"rowstr"}, After(Slice(NA, t))))

StartVectors(t) ==
    LET S == Slice(NA, t) IN
    Use(On({"rowstr"}, S \cup After(S)),
        On({"colidx"}, S) \cup On({"x"}, Slice(NA + 1, t)) \cup On({"q", "z", "r", "p"}, S))

-----------------------------------------------------------------------------
(* The loops of conj_grad and of the main iteration of cg.                 *)

Ones(t) == Use({}, On({"x"}, Slice(NA + 1, t)))

NormTemps(t) == Use(On({"x", "z"}, Slice(NA, t)), On({"norm_temp1", "norm_temp2"}, {t}))

Normalize(t) == Use(On({"z"}, Slice(NA, t)), On({"x"}, Slice(NA, t)))

InitVectors(t) ==
    Use(On({"x"}, Slice(NA + 1, t)) \cup On({"args"}, {t}),
        On({"q", "z", "r", "p"}, Slice(NA + 1, t)))

Rho(t) == Use(On({"r"}, Slice(NA, t)) \cup On({"args"}, {t}), On({"rho"}, {t}))

MatrixVector(t) ==
    LET S == Slice(NA, t) IN
    Use(On({"rowstr"}, S \cup After(S)) \cup On({"a", "colidx"}, S)
            \cup On({"p"}, Columns) \cup On({"args"}, {t}),
        On({"q"}, S))

Dot(t) == Use(On({"p", "q"}, Slice(NA, t)) \cup On({"args"}, {t}), On({"d"}, {t}))

Update(t) ==
    Use(On({"p", "q"}, Slice(NA, t)) \cup On({"args"}, {t}),
        On({"z", "r"}, Slice(NA, t)) \cup On({"rho"}, {t}))

Direction(t) ==
    Use(On({"r"}, Slice(NA, t)) \cup On({"args"}, {t}), On({"p"}, Slice(NA, t)))

Final(t) == Use(On({"x", "r"}, Slice(NA, t)) \cup On({"args"}, {t}), On({"sum"}, {t}))

-----------------------------------------------------------------------------
(* The loops of jac3d, by planes of the cubes.                             *)

Planes(t) == After(Slice(ROWS - 2, t))

UpdateA(t) == Use(On({"B"}, Planes(t)), On({"A"}, Planes(t)) \cup On({"eps"}, {t}))

UpdateB(t) ==
    Use(On({"A"}, {i \in 0 .. ROWS - 1 : {i - 1, i, i + 1} \cap Planes(t) # {}}),
        On({"B"}, Planes(t)))

-----------------------------------------------------------------------------

(* The function of a ULT is a sequence of parts...                         *)
Kernel == [
    makea |-> <<Each(Generate), Each(CountTriples), Each(ShiftRows), Each(Fill),
                Each(CountDuplicates), Each(ShiftDuplicates), Each(Compact),
                Each(AdjustRows), Each(StartVectors)>>,
    ones |-> <<Each(Ones)>>,
    norm_temps |-> <<Each(NormTemps)>>,
    normalize_z |-> <<Each(Normalize)>>,
    init |-> <<Each(InitVectors)>>,
    rho |-> <<Each(Rho)>>,
    q |-> <<Each(MatrixVector)>>,
    d |-> <<Each(Dot)>>,
    update |-> <<Each(Update)>>,
    p |-> <<Each(Direction)>>,
    final |-> <<Each(Final)>>,
    update_A |-> <<Each(UpdateA)>>,
    update_B |-> <<Each(UpdateB)>>]

(* ...and it waits on the barrier after these.                             *)
WaitsAfter(kernel) == IF kernel = "makea" THEN {1, 2, 3, 4, 5, 6, 8} ELSE {}

(* What main does with the results of a loop that it has joined: reduce_.. *)
(* reads those of all threads, conj_grad frees its arrays at the end.      *)
Afterwards(kernel) ==
    CASE kernel \in {"rho", "update"} -> Use(On({"rho"}, Id), {})
      [] kernel = "d" -> Use(On({"d"}, Id), {})
      [] kernel = "norm_temps" -> Use(On({"norm_temp1", "norm_temp2"}, Id), {})
      [] kernel = "final" -> Use({}, On({"sum", "rho", "d", "args"}, Id))
      [] kernel = "update_A" -> Use(On({"eps"}, Id), {})
      [] OTHER -> Use({}, {})

Conflict(u1, u2) ==
    \/ u1.writes \cap (u2.reads \cup u2.writes) # {}
    \/ u2.writes \cap u1.reads # {}
=============================================================================
