---------------------------- MODULE ToeplitzEngine ----------------------------
(***************************************************************************)
(* Circular of src/encoding/utils/toeplitz/cir.go and ExtendPolyEval of    *)
(* src/encoding/rs/cpu/extend_poly.go: products and extensions computed    *)
(* with gnark-crypto's FFT.  Field elements of BN254's scalar field are    *)
(* abstracted to GF(Prime) with Omega a primitive N-th root of unity; the *)
(* algebra used (the convolution theorem, bit reversals) is the same in   *)
(* every such field.  Vectors are functions on 0..n-1, as Go slices are.  *)
(* One behaviour is one call on one input.                                *)
(***************************************************************************)
EXTENDS Naturals, FiniteSets

CONSTANTS
    Prime,      \* the field's characteristic
    N,          \* length of V: a power of two
    Omega,      \* primitive N-th root of unity of GF(Prime): the Domain's generator
    Values,     \* field elements the inputs are built from
    CodingRate  \* the RS coding rate: N / CodingRate data coefficients

Idx(n) == 0..(n - 1)
Vec(n) == [Idx(n) -> Values]

\* The data's coefficients, padded with zeros to the extended length N.
NumData == N \div CodingRate
PaddedVec == {a \in Vec(N) : \A i \in Idx(N) : i >= NumData => a[i] = 0}
Len0(a) == IF DOMAIN a = {} THEN 0 ELSE 1 + (CHOOSE m \in DOMAIN a : \A k \in DOMAIN a : k <= m)

RECURSIVE PowMod(_, _)
PowMod(b, e) == IF e = 0 THEN 1 ELSE (b * PowMod(b, e - 1)) % Prime

RECURSIVE SumMod(_, _)
SumMod(f, S) ==
    IF S = {} THEN 0
    ELSE LET k == CHOOSE k \in S : TRUE IN (f[k] + SumMod(f, S \ {k})) % Prime

RECURSIVE Log2(_)
Log2(n) == IF n <= 1 THEN 0 ELSE 1 + Log2(n \div 2)

\* The index i with its Log2(n) low bits in reverse order.
RECURSIVE RevBits(_, _)
RevBits(i, bits) ==
    IF bits = 0 THEN 0 ELSE (i % 2) * 2^(bits - 1) + RevBits(i \div 2, bits - 1)

-----------------------------------------------------------------------------
(***************************************************************************)
(* gnark-crypto's fft package, not under src/, from its documented       *)
(* contract: BitReverse permutes a slice by bit-reversed index; with DIT  *)
(* decimation FFT expects its input in bit-reversed order and leaves the *)
(* transform in natural order; FFTInverse likewise, scaled by 1/n.       *)
(***************************************************************************)
BitReverse(a) == [i \in DOMAIN a |-> a[RevBits(i, Log2(Len0(a)))]]

DFT(a, w) ==
    [k \in DOMAIN a |-> SumMod([j \in DOMAIN a |-> a[j] * PowMod(w, j * k)], DOMAIN a)]

FFT_DIT(a) == DFT(BitReverse(a), Omega)

FFTInverse_DIT(a) ==
    LET t == DFT(BitReverse(a), PowMod(Omega, N - 1))
    IN  [k \in DOMAIN a |-> (t[k] * PowMod(Len0(a), Prime - 2)) % Prime]

-----------------------------------------------------------------------------
\* Lines 29-32, 62-65 and 76-79: the first column of the circular matrix.
ColV(v) == [i \in DOMAIN v |-> v[(Len0(v) - i) % Len0(v)]]

\* Lines 84-93 (the length check cannot fail where it is called).
Hadamard(a, b) == [i \in DOMAIN a |-> (a[i] * b[i]) % Prime]

(* Lines 23-56.  The caller's x is transformed in place (lines 34, 35,    *)
(* 40); the result is u.                                                 *)
Multiply(v, x) ==
    LET xT == BitReverse(BitReverse(FFT_DIT(x)))
        cT == BitReverse(BitReverse(FFT_DIT(ColV(v))))
    IN  [x |-> xT, u |-> BitReverse(FFTInverse_DIT(Hadamard(xT, cT)))]

\* Lines 59-70.
GetFFTCoeff(v) == BitReverse(FFT_DIT(ColV(v)))

\* extend_poly.go lines 19-23: FFT with DIT, then BitReverse, in place.
ExtendPolyEval(coeffs) == BitReverse(FFT_DIT(coeffs))

-----------------------------------------------------------------------------
VARIABLES
    op,         \* the method called
    v,          \* Circular.V (NewCircular, lines 15-20)
    x0,         \* the argument as the caller passed it
    x,          \* the caller's slice, which the call may overwrite
    result,     \* the slice returned
    err,        \* "none" or "dimension"
    pc          \* "call" or "done"

vars == <<op, v, x0, x, result, err, pc>>

Ops == {"Multiply", "GetFFTCoeff", "GetCoeff", "ExtendPolyEval"}

\* The argument of Multiply may have the wrong length; the others take V
\* or a slice of the domain's size; ExtendPolyEval gets the data's
\* coefficients padded with zeros to N (spec.md 4.2).
Init ==
    /\ op \in Ops
    /\ v \in Vec(N)
    /\ x0 \in CASE op = "Multiply"       -> Vec(N) \cup Vec(N \div 2)
               [] op = "ExtendPolyEval" -> PaddedVec
               [] OTHER                 -> Vec(N)
    /\ x = x0
    /\ result = [i \in {} |-> 0]
    /\ err = "none"
    /\ pc = "call"

Return(r, xAfter) ==
    /\ result' = r
    /\ x' = xAfter
    /\ pc' = "done"
    /\ UNCHANGED <<op, v, x0, err>>

\* Lines 24-26: a length mismatch is refused before anything is touched.
MultiplyCall ==
    /\ pc = "call" /\ op = "Multiply"
    /\ IF DOMAIN x # DOMAIN v
         THEN /\ err' = "dimension" /\ pc' = "done"
              /\ UNCHANGED <<op, v, x0, x, result>>
         ELSE LET m == Multiply(v, x) IN Return(m.u, m.x)

GetFFTCoeffCall == pc = "call" /\ op = "GetFFTCoeff" /\ Return(GetFFTCoeff(v), x)

GetCoeffCall == pc = "call" /\ op = "GetCoeff" /\ Return(ColV(v), x)

ExtendPolyEvalCall ==
    pc = "call" /\ op = "ExtendPolyEval" /\ Return(ExtendPolyEval(x), ExtendPolyEval(x))

Next == MultiplyCall \/ GetFFTCoeffCall \/ GetCoeffCall \/ ExtendPolyEvalCall

Spec == Init /\ [][Next]_vars

-----------------------------------------------------------------------------
\* The product of the circular matrix whose first row is V (first column
\* ColV(V)) with x, computed directly.
Circulant(a, b) ==
    [i \in DOMAIN b |-> SumMod([j \in DOMAIN b |-> a[(j - i + Len0(a)) % Len0(a)] * b[j]], DOMAIN b)]

\* spec.md 4.3: Multiply(x) is the circular matrix-vector product,
\* computed by the convolution theorem.  gnark's DIT FFT wants bit-reversed
\* input; Multiply feeds it x and colV in natural order (lines 34, 37) and
\* the inverse likewise (line 50).
MultiplyIsCirculant ==
    (pc = "done" /\ op = "Multiply" /\ err = "none") => result = Circulant(v, x0)

\* spec.md 4.2: the extension is a Reed-Solomon code, so any NumData of
\* the N symbols ExtendPolyEval returns determine the data: no other
\* padded input agrees with this one on NumData positions.  The code runs
\* the DIT FFT on coefficients in natural order, then bit-reverses.
ExtendIsReedSolomon ==
    (pc = "done" /\ op = "ExtendPolyEval") =>
        \A y \in PaddedVec \ {x0} :
            \A S \in {P \in SUBSET Idx(N) : Cardinality(P) = NumData} :
                \E i \in S : ExtendPolyEval(y)[i] # result[i]

================================================================================
