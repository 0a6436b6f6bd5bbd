-------------------------- MODULE ExtrinsicsProofs --------------------------
(***************************************************************************)
(* What holds of the two programs for every calibration and every mounting.*)
(***************************************************************************)
EXTENDS ExtrinsicsSnapshot, FiniteSetTheorems, WellFoundedInduction, TLAPS

(***************************************************************************)
(* Vectors, their product and the columns of a matrix.                     *)
(***************************************************************************)
Dot(x, y) == x[1] * y[1] + x[2] * y[2] + x[3] * y[3]
Column(r, j) == [i \in 1 .. 3 |-> r[3 * i - 3 + j]]

(***************************************************************************)
(* The entries of a product of matrices.                                   *)
(***************************************************************************)
LEMMA ProductEntries ==
  ASSUME NEW a \in Matrix, NEW b \in Matrix
  PROVE  /\ Product(a, b) \in Matrix
         /\ \A i, j \in 1 .. 3 :
              Product(a, b)[3 * i - 3 + j] =
                a[3 * i - 2] * b[j] + a[3 * i - 1] * b[j + 3] + a[3 * i] * b[j + 6]
<1> DEFINE Entry(i, j) == a[i + 1] * b[j + 1] + a[i + 2] * b[j + 4] + a[i + 3] * b[j + 7]
<1>1. \A i \in {0, 3, 6}, j \in {0, 1, 2} : Entry(i, j) \in Int
  BY DEF Matrix
<1>2. \A k \in 1 .. 9 : 3 * ((k - 1) \div 3) \in {0, 3, 6} /\ (k - 1) % 3 \in {0, 1, 2}
  OBVIOUS
<1>3. Product(a, b) = [k \in 1 .. 9 |-> Entry(3 * ((k - 1) \div 3), (k - 1) % 3)]
  BY DEF Product
<1>4. Product(a, b) \in Matrix
  BY <1>1, <1>2, <1>3 DEF Matrix
<1>5. \A k \in 1 .. 9 : Product(a, b)[k] = Entry(3 * ((k - 1) \div 3), (k - 1) % 3)
  BY <1>3
<1>6. ASSUME NEW i \in 1 .. 3, NEW j \in 1 .. 3
      PROVE  Product(a, b)[3 * i - 3 + j] = Entry(3 * i - 3, j - 1)
  <2>1. 3 * i - 3 + j \in 1 .. 9
    OBVIOUS
  <2>2. 3 * ((3 * i - 3 + j - 1) \div 3) = 3 * i - 3 /\ (3 * i - 3 + j - 1) % 3 = j - 1
    OBVIOUS
  <2> HIDE DEF Entry
  <2> QED BY <1>5, <2>1, <2>2
<1> QED BY <1>4, <1>6

(***************************************************************************)
(* The columns of a product are those of its second factor, turned.        *)
(***************************************************************************)
LEMMA ProductColumn ==
  ASSUME NEW a \in Matrix, NEW b \in Matrix, NEW j \in 1 .. 3
  PROVE  /\ Column(b, j) \in Vector
         /\ Column(Product(a, b), j) = Apply(a, Column(b, j))
BY ProductEntries DEF Column, Apply, Matrix, Vector

(***************************************************************************)
(* The entries of a transposed matrix.                                     *)
(***************************************************************************)
LEMMA TransposeEntries ==
  ASSUME NEW r \in Matrix
  PROVE  /\ Transpose(r) \in Matrix
         /\ Transpose(r)[1] = r[1] /\ Transpose(r)[2] = r[4] /\ Transpose(r)[3] = r[7]
         /\ Transpose(r)[4] = r[2] /\ Transpose(r)[5] = r[5] /\ Transpose(r)[6] = r[8]
         /\ Transpose(r)[7] = r[3] /\ Transpose(r)[8] = r[6] /\ Transpose(r)[9] = r[9]
<1>1. \A k \in 1 .. 9 : 3 * ((k - 1) % 3) + (k - 1) \div 3 + 1 \in 1 .. 9
  OBVIOUS
<1>2. Transpose(r) \in Matrix
  BY <1>1 DEF Transpose, Matrix
<1>3. \A k \in 1 .. 9 : Transpose(r)[k] = r[3 * ((k - 1) % 3) + (k - 1) \div 3 + 1]
  BY DEF Transpose
<1> QED BY <1>2, <1>3

(***************************************************************************)
(* The columns of a rotation have length one and stand upright.            *)
(***************************************************************************)
LEMMA RotationColumns ==
  ASSUME NEW r \in Matrix
  PROVE  IsRotation(r) <=>
           /\ \A i, j \in 1 .. 3 : Dot(Column(r, i), Column(r, j)) = IF i = j THEN 1 ELSE 0
           /\ Det(r) = 1
<1> DEFINE t == Transpose(r)   p == Product(t, r)
<1>1. t \in Matrix /\ p \in Matrix
  BY TransposeEntries, ProductEntries
<1>2. p = Identity <=> \A k \in 1 .. 9 : p[k] = Identity[k]
  BY <1>1 DEF Identity, Matrix
<1>3. ASSUME NEW i \in 1 .. 3, NEW j \in 1 .. 3
      PROVE  /\ p[3 * i - 3 + j] = Dot(Column(r, i), Column(r, j))
             /\ Identity[3 * i - 3 + j] = IF i = j THEN 1 ELSE 0
  <2>1. p[3 * i - 3 + j] = t[3 * i - 2] * r[j] + t[3 * i - 1] * r[j + 3] + t[3 * i] * r[j + 6]
    BY <1>1, ProductEntries
  <2>2. /\ t[3 * i - 2] = r[i] /\ t[3 * i - 1] = r[i + 3] /\ t[3 * i] = r[i + 6]
        /\ Identity[3 * i - 3 + j] = IF i = j THEN 1 ELSE 0
    <3>1. (i = 1 \/ i = 2 \/ i = 3) /\ (j = 1 \/ j = 2 \/ j = 3)
      OBVIOUS
    <3> HIDE DEF t
    <3> QED BY <3>1, TransposeEntries DEF t, Identity
  <2> HIDE DEF p, t
  <2> QED BY <2>1, <2>2 DEF Dot, Column
<1>4. \A k \in 1 .. 9 : \E i, j \in 1 .. 3 : k = 3 * i - 3 + j
  OBVIOUS
<1>5. \A i, j \in 1 .. 3 : 3 * i - 3 + j \in 1 .. 9
  OBVIOUS
<1> HIDE DEF p, t
<1> QED BY <1>2, <1>3, <1>4, <1>5 DEF IsRotation, p, t

(***************************************************************************)
(* A rotation preserves the product of two vectors.                        *)
(***************************************************************************)
LEMMA Isometry ==
  ASSUME NEW a \in Matrix, IsRotation(a), NEW x \in Vector, NEW y \in Vector
  PROVE  Dot(Apply(a, x), Apply(a, y)) = Dot(x, y)
<1> DEFINE a1 == a[1]   a2 == a[2]   a3 == a[3]
           a4 == a[4]   a5 == a[5]   a6 == a[6]
           a7 == a[7]   a8 == a[8]   a9 == a[9]
           x1 == x[1]   x2 == x[2]   x3 == x[3]
           y1 == y[1]   y2 == y[2]   y3 == y[3]
<1>1. /\ a1 \in Int /\ a2 \in Int /\ a3 \in Int
      /\ a4 \in Int /\ a5 \in Int /\ a6 \in Int
      /\ a7 \in Int /\ a8 \in Int /\ a9 \in Int
      /\ x1 \in Int /\ x2 \in Int /\ x3 \in Int
      /\ y1 \in Int /\ y2 \in Int /\ y3 \in Int
  BY DEF Matrix, Vector
<1>2. /\ Dot(Column(a, 1), Column(a, 1)) = 1 /\ Dot(Column(a, 2), Column(a, 2)) = 1
      /\ Dot(Column(a, 3), Column(a, 3)) = 1 /\ Dot(Column(a, 1), Column(a, 2)) = 0
      /\ Dot(Column(a, 1), Column(a, 3)) = 0 /\ Dot(Column(a, 2), Column(a, 3)) = 0
  BY RotationColumns
<1>3. /\ a1 * a1 + a4 * a4 + a7 * a7 = 1 /\ a2 * a2 + a5 * a5 + a8 * a8 = 1
      /\ a3 * a3 + a6 * a6 + a9 * a9 = 1 /\ a1 * a2 + a4 * a5 + a7 * a8 = 0
      /\ a1 * a3 + a4 * a6 + a7 * a9 = 0 /\ a2 * a3 + a5 * a6 + a8 * a9 = 0
  BY <1>2 DEF Dot, Column
<1>4. Dot(Apply(a, x), Apply(a, y)) =
        (a1 * x1 + a2 * x2 + a3 * x3) * (a1 * y1 + a2 * y2 + a3 * y3)
        + (a4 * x1 + a5 * x2 + a6 * x3) * (a4 * y1 + a5 * y2 + a6 * y3)
        + (a7 * x1 + a8 * x2 + a9 * x3) * (a7 * y1 + a8 * y2 + a9 * y3)
  BY DEF Dot, Apply
<1>5. Dot(x, y) = x1 * y1 + x2 * y2 + x3 * y3
  BY DEF Dot
<1> HIDE DEF a1, a2, a3, a4, a5, a6, a7, a8, a9, x1, x2, x3, y1, y2, y3
<1>6. (a1 * x1 + a2 * x2 + a3 * x3) * (a1 * y1 + a2 * y2 + a3 * y3)
      + (a4 * x1 + a5 * x2 + a6 * x3) * (a4 * y1 + a5 * y2 + a6 * y3)
      + (a7 * x1 + a8 * x2 + a9 * x3) * (a7 * y1 + a8 * y2 + a9 * y3)
      = (a1 * a1 + a4 * a4 + a7 * a7) * (x1 * y1) + (a2 * a2 + a5 * a5 + a8 * a8) * (x2 * y2)
        + (a3 * a3 + a6 * a6 + a9 * a9) * (x3 * y3)
        + (a1 * a2 + a4 * a5 + a7 * a8) * (x1 * y2 + x2 * y1)
        + (a1 * a3 + a4 * a6 + a7 * a9) * (x1 * y3 + x3 * y1)
        + (a2 * a3 + a5 * a6 + a8 * a9) * (x2 * y3 + x3 * y2)
  BY <1>1
<1>7. @ = x1 * y1 + x2 * y2 + x3 * y3
  BY <1>1, <1>3
<1> QED BY <1>4, <1>5, <1>6, <1>7

(***************************************************************************)
(* Compose makes rotations of rotations.                                   *)
(***************************************************************************)
LEMMA ProductIsRotation ==
  ASSUME NEW a \in Matrix, NEW b \in Matrix, IsRotation(a), IsRotation(b)
  PROVE  Product(a, b) \in Matrix /\ IsRotation(Product(a, b))
<1> DEFINE p == Product(a, b)
<1>1. p \in Matrix
  BY ProductEntries
<1>2. \A k \in 1 .. 9 : a[k] \in Int /\ b[k] \in Int
  BY DEF Matrix
<1>3. ASSUME NEW i \in 1 .. 3, NEW j \in 1 .. 3
      PROVE  Dot(Column(p, i), Column(p, j)) = IF i = j THEN 1 ELSE 0
  BY ProductColumn, Isometry, RotationColumns
<1>4. Det(p) = Det(a) * Det(b)
  <2> DEFINE a1 == a[1]   a2 == a[2]   a3 == a[3]
             a4 == a[4]   a5 == a[5]   a6 == a[6]
             a7 == a[7]   a8 == a[8]   a9 == a[9]
             b1 == b[1]   b2 == b[2]   b3 == b[3]
             b4 == b[4]   b5 == b[5]   b6 == b[6]
             b7 == b[7]   b8 == b[8]   b9 == b[9]
  <2>2. /\ a1 \in Int /\ a2 \in Int /\ a3 \in Int
        /\ a4 \in Int /\ a5 \in Int /\ a6 \in Int
        /\ a7 \in Int /\ a8 \in Int /\ a9 \in Int
        /\ b1 \in Int /\ b2 \in Int /\ b3 \in Int
        /\ b4 \in Int /\ b5 \in Int /\ b6 \in Int
        /\ b7 \in Int /\ b8 \in Int /\ b9 \in Int
    BY <1>2
  <2>3. /\ p[1] = a1 * b1 + a2 * b4 + a3 * b7
        /\ p[2] = a1 * b2 + a2 * b5 + a3 * b8
        /\ p[3] = a1 * b3 + a2 * b6 + a3 * b9
        /\ p[4] = a4 * b1 + a5 * b4 + a6 * b7
        /\ p[5] = a4 * b2 + a5 * b5 + a6 * b8
        /\ p[6] = a4 * b3 + a5 * b6 + a6 * b9
        /\ p[7] = a7 * b1 + a8 * b4 + a9 * b7
        /\ p[8] = a7 * b2 + a8 * b5 + a9 * b8
        /\ p[9] = a7 * b3 + a8 * b6 + a9 * b9
    <3>1. \A i, j \in 1 .. 3 :
            p[3 * i - 3 + j] = a[3 * i - 2] * b[j] + a[3 * i - 1] * b[j + 3] + a[3 * i] * b[j + 6]
      BY ProductEntries DEF p
    <3> QED BY <3>1
  <2>4. Det(a) = a1 * (a5 * a9 - a6 * a8) - a2 * (a4 * a9 - a6 * a7) + a3 * (a4 * a8 - a5 * a7)
    BY DEF Det
  <2>5. Det(b) = b1 * (b5 * b9 - b6 * b8) - b2 * (b4 * b9 - b6 * b7) + b3 * (b4 * b8 - b5 * b7)
    BY DEF Det
  <2> HIDE DEF a1, a2, a3, a4, a5, a6, a7, a8, a9, b1, b2, b3, b4, b5, b6, b7, b8, b9
  <2> QED BY <2>2, <2>3, <2>4, <2>5 DEF Det
<1>5. Det(p) = 1
  BY <1>4 DEF IsRotation
<1> HIDE DEF p
<1> QED BY <1>1, <1>3, <1>5, RotationColumns DEF p

(***************************************************************************)
(* Three axes of which one is upright on both others: it is their cross    *)
(* product.                                                                *)
(***************************************************************************)
LEMMA ThirdAxis ==
  ASSUME NEW x \in Vector, NEW y \in Vector, NEW z \in Vector,
         Dot(x, x) = 1, Dot(x, y) = 0, Dot(x, z) = 0, Dot(x, Cross(y, z)) = 1
  PROVE  /\ x[1] = y[2] * z[3] - y[3] * z[2]
         /\ x[2] = y[3] * z[1] - y[1] * z[3]
         /\ x[3] = y[1] * z[2] - y[2] * z[1]
<1> DEFINE x1 == x[1]   x2 == x[2]   x3 == x[3]
           y1 == y[1]   y2 == y[2]   y3 == y[3]
           z1 == z[1]   z2 == z[2]   z3 == z[3]
<1>1. /\ x1 \in Int /\ x2 \in Int /\ x3 \in Int
      /\ y1 \in Int /\ y2 \in Int /\ y3 \in Int
      /\ z1 \in Int /\ z2 \in Int /\ z3 \in Int
  BY DEF Vector
<1> DEFINE u == y2 * z3 - y3 * z2
           v == y3 * z1 - y1 * z3
           w == y1 * z2 - y2 * z1
           xx == x1 * x1 + x2 * x2 + x3 * x3
           xy == x1 * y1 + x2 * y2 + x3 * y3
           xz == x1 * z1 + x2 * z2 + x3 * z3
           det == x1 * u + x2 * v + x3 * w
<1>2. xx = 1 /\ xy = 0 /\ xz = 0 /\ det = 1
  BY DEF Dot, Cross
<1> HIDE DEF x1, x2, x3, y1, y2, y3, z1, z2, z3
<1>3. x1 * det = xx * u + xy * (x3 * z2 - x2 * z3) + xz * (x2 * y3 - x3 * y2)
  BY <1>1
<1>4. x2 * det = xx * v + xy * (x1 * z3 - x3 * z1) + xz * (x3 * y1 - x1 * y3)
  BY <1>1
<1>5. x3 * det = xx * w + xy * (x2 * z1 - x1 * z2) + xz * (x1 * y2 - x2 * y1)
  BY <1>1
<1>6. u \in Int /\ v \in Int /\ w \in Int
  BY <1>1
<1>7. x1 = u /\ x2 = v /\ x3 = w
  <2> HIDE DEF u, v, w, det, xx, xy, xz
  <2> QED BY <1>1, <1>2, <1>3, <1>4, <1>5, <1>6
<1> QED BY <1>7 DEF x1, x2, x3, y1, y2, y3, z1, z2, z3

(***************************************************************************)
(* A rotation is the matrix of its cofactors.                              *)
(***************************************************************************)
LEMMA Cofactors ==
  ASSUME NEW r \in Matrix, IsRotation(r)
  PROVE  /\ r[1] = r[5] * r[9] - r[8] * r[6]
         /\ r[4] = r[8] * r[3] - r[2] * r[9]
         /\ r[7] = r[2] * r[6] - r[5] * r[3]
         /\ r[2] = r[6] * r[7] - r[9] * r[4]
         /\ r[5] = r[9] * r[1] - r[3] * r[7]
         /\ r[8] = r[3] * r[4] - r[6] * r[1]
         /\ r[3] = r[4] * r[8] - r[7] * r[5]
         /\ r[6] = r[7] * r[2] - r[1] * r[8]
         /\ r[9] = r[1] * r[5] - r[4] * r[2]
<1> DEFINE x == Column(r, 1)   y == Column(r, 2)   z == Column(r, 3)
<1>1. /\ x \in Vector /\ y \in Vector /\ z \in Vector
      /\ x[1] = r[1] /\ x[2] = r[4] /\ x[3] = r[7]
      /\ y[1] = r[2] /\ y[2] = r[5] /\ y[3] = r[8]
      /\ z[1] = r[3] /\ z[2] = r[6] /\ z[3] = r[9]
  BY DEF Column, Matrix, Vector
<1>2. /\ Dot(x, x) = 1 /\ Dot(y, y) = 1 /\ Dot(z, z) = 1
      /\ Dot(x, y) = 0 /\ Dot(x, z) = 0 /\ Dot(y, z) = 0
      /\ Dot(y, x) = 0 /\ Dot(z, x) = 0 /\ Dot(z, y) = 0
  BY RotationColumns
<1>3. Dot(x, Cross(y, z)) = 1 /\ Dot(y, Cross(z, x)) = 1 /\ Dot(z, Cross(x, y)) = 1
  <2> DEFINE a1 == r[1]   a2 == r[2]   a3 == r[3]
             a4 == r[4]   a5 == r[5]   a6 == r[6]
             a7 == r[7]   a8 == r[8]   a9 == r[9]
  <2>1. /\ a1 \in Int /\ a2 \in Int /\ a3 \in Int
        /\ a4 \in Int /\ a5 \in Int /\ a6 \in Int
        /\ a7 \in Int /\ a8 \in Int /\ a9 \in Int
    BY DEF Matrix
  <2>2. a1 * (a5 * a9 - a6 * a8) - a2 * (a4 * a9 - a6 * a7) + a3 * (a4 * a8 - a5 * a7) = 1
    BY DEF IsRotation, Det
  <2>3. /\ Dot(x, Cross(y, z)) = a1 * (a5 * a9 - a8 * a6) + a4 * (a8 * a3 - a2 * a9)
                                   + a7 * (a2 * a6 - a5 * a3)
        /\ Dot(y, Cross(z, x)) = a2 * (a6 * a7 - a9 * a4) + a5 * (a9 * a1 - a3 * a7)
                                   + a8 * (a3 * a4 - a6 * a1)
        /\ Dot(z, Cross(x, y)) = a3 * (a4 * a8 - a7 * a5) + a6 * (a7 * a2 - a1 * a8)
                                   + a9 * (a1 * a5 - a4 * a2)
    <3> HIDE DEF x, y, z
    <3> QED BY <1>1 DEF Dot, Cross
  <2> HIDE DEF a1, a2, a3, a4, a5, a6, a7, a8, a9
  <2> QED BY <2>1, <2>2, <2>3
<1> HIDE DEF x, y, z
<1>4. /\ x[1] = y[2] * z[3] - y[3] * z[2]
      /\ x[2] = y[3] * z[1] - y[1] * z[3]
      /\ x[3] = y[1] * z[2] - y[2] * z[1]
  BY <1>1, <1>2, <1>3, ThirdAxis
<1>5. /\ y[1] = z[2] * x[3] - z[3] * x[2]
      /\ y[2] = z[3] * x[1] - z[1] * x[3]
      /\ y[3] = z[1] * x[2] - z[2] * x[1]
  BY <1>1, <1>2, <1>3, ThirdAxis
<1>6. /\ z[1] = x[2] * y[3] - x[3] * y[2]
      /\ z[2] = x[3] * y[1] - x[1] * y[3]
      /\ z[3] = x[1] * y[2] - x[2] * y[1]
  BY <1>1, <1>2, <1>3, ThirdAxis
<1> QED BY <1>1, <1>4, <1>5, <1>6

(***************************************************************************)
(* Inverted makes a rotation of a rotation: its rows stand upright too.    *)
(***************************************************************************)
LEMMA TransposeIsRotation ==
  ASSUME NEW r \in Matrix, IsRotation(r)
  PROVE  Transpose(r) \in Matrix /\ IsRotation(Transpose(r))
<1> DEFINE t == Transpose(r)
<1>1. t \in Matrix
  BY TransposeEntries
<1> DEFINE a1 == r[1]   a2 == r[2]   a3 == r[3]
           a4 == r[4]   a5 == r[5]   a6 == r[6]
           a7 == r[7]   a8 == r[8]   a9 == r[9]
<1>2. /\ a1 \in Int /\ a2 \in Int /\ a3 \in Int
      /\ a4 \in Int /\ a5 \in Int /\ a6 \in Int
      /\ a7 \in Int /\ a8 \in Int /\ a9 \in Int
  BY DEF Matrix
<1>3. /\ a1 = a5 * a9 - a8 * a6 /\ a4 = a8 * a3 - a2 * a9 /\ a7 = a2 * a6 - a5 * a3
      /\ a2 = a6 * a7 - a9 * a4 /\ a5 = a9 * a1 - a3 * a7 /\ a8 = a3 * a4 - a6 * a1
      /\ a3 = a4 * a8 - a7 * a5 /\ a6 = a7 * a2 - a1 * a8 /\ a9 = a1 * a5 - a4 * a2
  BY Cofactors
<1>4. a1 * (a5 * a9 - a6 * a8) - a2 * (a4 * a9 - a6 * a7) + a3 * (a4 * a8 - a5 * a7) = 1
  BY DEF IsRotation, Det
<1>5. /\ t[1] = a1 /\ t[2] = a4 /\ t[3] = a7 /\ t[4] = a2 /\ t[5] = a5 /\ t[6] = a8
      /\ t[7] = a3 /\ t[8] = a6 /\ t[9] = a9
  BY TransposeEntries
<1> HIDE DEF t, a1, a2, a3, a4, a5, a6, a7, a8, a9
<1> DEFINE c1 == a5 * a9 - a8 * a6   c4 == a8 * a3 - a2 * a9   c7 == a2 * a6 - a5 * a3
           c2 == a6 * a7 - a9 * a4   c5 == a9 * a1 - a3 * a7   c8 == a3 * a4 - a6 * a1
           c3 == a4 * a8 - a7 * a5   c6 == a7 * a2 - a1 * a8   c9 == a1 * a5 - a4 * a2
<1>6. /\ a1 * c1 + a2 * c2 + a3 * c3 = 1
      /\ a4 * c4 + a5 * c5 + a6 * c6 = 1
      /\ a7 * c7 + a8 * c8 + a9 * c9 = 1
  BY <1>2, <1>4
<1>7. /\ c1 * a4 + c2 * a5 + c3 * a6 = 0
      /\ c1 * a7 + c2 * a8 + c3 * a9 = 0
      /\ c4 * a7 + c5 * a8 + c6 * a9 = 0
  BY <1>2
<1>8. /\ a1 = c1 /\ a2 = c2 /\ a3 = c3 /\ a4 = c4 /\ a5 = c5 /\ a6 = c6
      /\ a7 = c7 /\ a8 = c8 /\ a9 = c9
  BY <1>3
<1> HIDE DEF c1, c2, c3, c4, c5, c6, c7, c8, c9
<1>9. /\ a1 * a1 + a2 * a2 + a3 * a3 = 1
      /\ a4 * a4 + a5 * a5 + a6 * a6 = 1
      /\ a7 * a7 + a8 * a8 + a9 * a9 = 1
  BY <1>6, <1>8
<1>10. /\ a1 * a4 + a2 * a5 + a3 * a6 = 0
       /\ a1 * a7 + a2 * a8 + a3 * a9 = 0
       /\ a4 * a7 + a5 * a8 + a6 * a9 = 0
  BY <1>7, <1>8
<1>11. Det(t) = 1
  BY <1>2, <1>4, <1>5 DEF Det
<1>12. ASSUME NEW i \in 1 .. 3, NEW j \in 1 .. 3
       PROVE  Dot(Column(t, i), Column(t, j)) = IF i = j THEN 1 ELSE 0
  <2>1. /\ Column(t, 1)[1] = a1 /\ Column(t, 1)[2] = a2 /\ Column(t, 1)[3] = a3
        /\ Column(t, 2)[1] = a4 /\ Column(t, 2)[2] = a5 /\ Column(t, 2)[3] = a6
        /\ Column(t, 3)[1] = a7 /\ Column(t, 3)[2] = a8 /\ Column(t, 3)[3] = a9
    BY <1>5 DEF Column
  <2>2. (i = 1 \/ i = 2 \/ i = 3) /\ (j = 1 \/ j = 2 \/ j = 3)
    OBVIOUS
  <2> QED BY <1>2, <1>9, <1>10, <2>1, <2>2 DEF Dot
<1> QED BY <1>1, <1>11, <1>12, RotationColumns DEF t

(***************************************************************************)
(* Quaternion divides by the largest component, which is never zero.       *)
(***************************************************************************)
LEMMA TurnedQuaternion ==
  ASSUME NEW m \in Matrix
  PROVE Quaternion(m) # <<0,0,0,0>>
<1> DEFINE squared == <<1 + m[1] - m[5] - m[9], 1 - m[1] + m[5] - m[9],
                   1 - m[1] - m[5] + m[9], 1 + m[1] + m[5] + m[9]>>
           k == FirstLargest(squared)
<1>1. squared \in [1 .. 4 -> Int] /\ squared[1] + squared[2] + squared[3] + squared[4] = 4
  BY DEF Matrix
<1>2. \E n \in 1 .. 4 : /\ \A j \in 1 .. 4 : squared[j] <= squared[n]
                        /\ \A j \in 1 .. n - 1 : squared[j] < squared[n]
  <2> HIDE DEF squared
  <2> QED BY <1>1
<1>3. DOMAIN squared = 1 .. 4
  OBVIOUS
<1>4. k \in 1 .. 4 /\ \A j \in 1 .. 4 : squared[j] <= squared[k]
  <2> HIDE DEF squared
  <2> QED BY <1>2, <1>3 DEF FirstLargest
<1>5. squared[k] > 0
  <2> HIDE DEF squared, k
  <2> QED BY <1>1, <1>4
<1>6. Quaternion(m)[k] = 1
  <2>1. CASE k = 1
    BY <1>5, <2>1 DEF Quaternion, Signs, Sign
  <2>2. CASE k = 2
    BY <1>5, <2>2 DEF Quaternion, Signs, Sign
  <2>3. CASE k = 3
    BY <1>5, <2>3 DEF Quaternion, Signs, Sign
  <2>4. CASE k = 4
    BY <1>5, <2>4 DEF Quaternion, Signs, Sign
  <2> QED BY <1>4, <2>1, <2>2, <2>3, <2>4
<1> HIDE DEF k
<1> QED BY <1>4, <1>6

-----------------------------------------------------------------------------
(***************************************************************************)
(* The inductive invariant of the output file: before it is opened it is   *)
(* as it was found, it is only written where there was none, and a program *)
(* that is still running has no status.                                    *)
(***************************************************************************)
ExportInv ==
  /\ found \in {Absent, Earlier}
  /\ at \in [step : {"configure", "fetch", "mount", "use", "write", "close", "done"},
             status : {None, 0, 1, 3}]
  /\ at.step # "done" => at.status = None
  /\ at.step \in {"configure", "fetch", "mount", "use"} => file = found
  /\ at.step = "write" => IsExport /\ found = Absent /\ file \in 0 .. Parts - 1
  /\ at.step = "close" => IsExport /\ found = Absent /\ file = Parts
  /\ ExportIsWhole

(***************************************************************************)
(* Every step of either program keeps it.                                  *)
(***************************************************************************)
LEMMA ExportInvStep == ExportInv /\ [Next]_vars => ExportInv'
<1> SUFFICES ASSUME ExportInv, [Next]_vars
             PROVE  ExportInv'
  OBVIOUS
<1> USE OutcomeAssumption, PartsAssumption DEF ExportInv, ExportIsWhole, IsExport, Ended, GoTo
<1>1. CASE Configure
  BY <1>1 DEF Configure
<1>2. CASE FetchFails
  BY <1>2 DEF FetchFails
<1>3. CASE Build
  BY <1>3 DEF Build
<1>4. CASE Mount
  BY <1>4 DEF Mount
<1>5. CASE Broadcast
  BY <1>5 DEF Broadcast
<1>6. CASE Open
  BY <1>6 DEF Open
<1>7. CASE Write
  BY <1>7 DEF Write
<1>8. CASE OutputFails
  BY <1>8 DEF OutputFails
<1>9. CASE Interrupted
  BY <1>9 DEF Interrupted, vars
<1>10. CASE Close
  BY <1>10 DEF Close
<1>11. CASE Killed
  BY <1>11 DEF Killed
<1>12. CASE UNCHANGED vars
  BY <1>12 DEF vars
<1> QED BY <1>1, <1>2, <1>3, <1>4, <1>5, <1>6, <1>7, <1>8, <1>9, <1>10, <1>11, <1>12 DEF Next

(***************************************************************************)
(* "existing files are never overwritten" (--help): whenever it is killed  *)
(* or an operation fails, the exporter leaves somebody else's file alone,  *)
(* says that it succeeded only when its own is whole and, when it reports  *)
(* a failure, leaves no part of it.                                        *)
(***************************************************************************)
THEOREM ExportNeverHalf == Spec => []ExportIsWhole
<1>1. Init => ExportInv
  BY OutcomeAssumption DEF Init, ExportInv, ExportIsWhole, IsExport
<1>2. ExportInv => ExportIsWhole
  BY DEF ExportInv
<1> QED BY <1>1, <1>2, ExportInvStep, PTL DEF Spec

-----------------------------------------------------------------------------
(***************************************************************************)
(* Every set of numbers has a least one, for inductions over the frames of *)
(* a tree and over the cameras of a rig.                                   *)
(***************************************************************************)
LEMMA LeastNatural ==
  ASSUME NEW T \in SUBSET Nat, T # {}
  PROVE  \E x \in T : \A y \in T : x <= y
<1> DEFINE less == {ss \in Nat \X Nat : ss[1] < ss[2]}
<1>1. IsWellFoundedOn(less, Nat)
  BY NatLessThanWellFounded DEF OpToRel
<1>2. \A x, y \in Nat : y < x => <<y, x>> \in less
  OBVIOUS
<1> HIDE DEF less
<1>3. PICK x \in T : \A y \in T : ~ (<<y, x>> \in less)
  BY <1>1, WFMin
<1>4. ASSUME NEW y \in T
      PROVE  x <= y
  <2>1. x \in Nat /\ y \in Nat
    OBVIOUS
  <2>2. ~ (y < x)
    BY <1>2, <1>3, <2>1
  <2> QED BY <2>1, <2>2
<1> QED BY <1>4

(***************************************************************************)
(* What AncestorsOf climbs: the frames up to n edges above f.              *)
(***************************************************************************)
Above(parent, seen) == seen \cup {parent[g] : g \in seen \cap DOMAIN parent}

IsClimb(h, parent, f, N) ==
  h = [n \in 0 .. N |-> IF n = 0 THEN {f} ELSE Above(parent, h[n - 1])]

LEMMA ClimbExists ==
  ASSUME NEW parent, NEW f, NEW N \in Nat
  PROVE  \E h : IsClimb(h, parent, f, N)
<1> DEFINE T == {m \in Nat : ~ \E h : IsClimb(h, parent, f, m)}
<1> SUFFICES ASSUME T # {}
             PROVE  FALSE
  OBVIOUS
<1>1. PICK x \in T : \A y \in T : x <= y
  BY LeastNatural
<1>2. CASE x = 0
  <2> DEFINE g == [n \in 0 .. 0 |-> {f}]
  <2>1. g = [n \in 0 .. 0 |-> IF n = 0 THEN {f} ELSE Above(parent, g[n - 1])]
    OBVIOUS
  <2>2. IsClimb(g, parent, f, 0)
    BY <2>1 DEF IsClimb
  <2> QED BY <1>2, <2>2
<1>3. CASE x # 0
  <2>1. x - 1 \in Nat /\ x - 1 \notin T
    BY <1>1, <1>3
  <2>2. PICK h : IsClimb(h, parent, f, x - 1)
    BY <2>1
  <2> DEFINE g == [n \in 0 .. x |-> IF n = 0 THEN {f} ELSE Above(parent, h[n - 1])]
  <2>3. ASSUME NEW n \in 0 .. x, n # 0
        PROVE  g[n - 1] = h[n - 1]
    <3>1. n - 1 \in 0 .. x /\ n - 1 \in 0 .. x - 1
      BY <2>3
    <3>2. h[n - 1] = IF n - 1 = 0 THEN {f} ELSE Above(parent, h[(n - 1) - 1])
      BY <2>2, <3>1, Zenon DEF IsClimb
    <3> QED BY <3>1, <3>2
  <2>4. g = [n \in 0 .. x |-> IF n = 0 THEN {f} ELSE Above(parent, g[n - 1])]
    BY <2>3
  <2>5. IsClimb(g, parent, f, x)
    BY <2>4 DEF IsClimb
  <2> QED BY <2>5
<1> QED BY <1>2, <1>3

(***************************************************************************)
(* A set of frames that contains f and, with a child, its parent contains  *)
(* all ancestors of f.                                                     *)
(***************************************************************************)
LEMMA AncestorsWithin ==
  ASSUME NEW edges, IsFiniteSet(edges), NEW f, NEW S, f \in S,
         \A e \in edges : e.child \in S => e.parent \in S
  PROVE  AncestorsOf(edges, f) \subseteq S
<1> DEFINE parent == ParentIn(edges)
           N == Cardinality(edges)
           H == CHOOSE h : IsClimb(h, parent, f, N)
<1>1. N \in Nat
  BY FS_CardinalityType
<1>2. AncestorsOf(edges, f) = H[N]
  BY DEF AncestorsOf, IsClimb, Above
<1>3. IsClimb(H, parent, f, N)
  BY <1>1, ClimbExists
<1>4. \A g \in S \cap DOMAIN parent : parent[g] \in S
  <2> SUFFICES ASSUME NEW g \in S, g \in DOMAIN parent
               PROVE  parent[g] \in S
    OBVIOUS
  <2>1. \E e \in edges : e.child = g
    BY DEF ParentIn, Children
  <2>2. parent[g] = (CHOOSE e \in edges : e.child = g).parent
    BY DEF ParentIn
  <2> QED BY <2>1, <2>2
<1> HIDE DEF parent, N, H
<1> DEFINE T == {m \in Nat : m <= N /\ ~ (H[m] \subseteq S)}
<1>5. T = {}
  <2> SUFFICES ASSUME T # {}
               PROVE  FALSE
    OBVIOUS
  <2>1. PICK x \in T : \A y \in T : x <= y
    BY LeastNatural
  <2>2. x \in 0 .. N /\ ~ (H[x] \subseteq S)
    BY <1>1, <2>1
  <2>3. H[x] = IF x = 0 THEN {f} ELSE Above(parent, H[x - 1])
    BY <1>3, <2>2, Zenon DEF IsClimb
  <2>4. x # 0
    BY <2>2, <2>3
  <2>5. H[x - 1] \subseteq S
    BY <1>1, <2>1, <2>2, <2>4
  <2> QED BY <1>4, <2>2, <2>3, <2>4, <2>5 DEF Above
<1> QED BY <1>1, <1>2, <1>5

(***************************************************************************)
(* The trees under construction: one edge to a child, of the four kinds    *)
(* that BuildSensorTransforms adds.                                        *)
(***************************************************************************)
IsTree(t) == t = [edges |-> t.edges, diagnostics |-> t.diagnostics]

Kind(depth, parent, child) ==
  \/ parent = Aft /\ child \in {Imu, Livox}
  \/ DepthName(depth) /\ parent = Aft /\ child = depth
  \/ DepthName(depth) /\ parent = depth /\ IsCameraFrame(child)

Star(edges, depth) ==
  /\ IsFiniteSet(edges) /\ Cardinality(Children(edges)) = Cardinality(edges)
  /\ \A e \in edges : Kind(depth, e.parent, e.child)

(***************************************************************************)
(* Nothing in such a tree is above aft_mapped, and only that above the     *)
(* device: it has no cycle.                                                *)
(***************************************************************************)
LEMMA StarAncestors ==
  ASSUME NEW edges, NEW depth, Star(edges, depth)
  PROVE  /\ AncestorsOf(edges, Aft) \subseteq {Aft}
         /\ DepthName(depth) => AncestorsOf(edges, depth) \subseteq {depth, Aft}
<1>1. Aft # Imu /\ Aft # Livox /\ ~ IsCameraFrame(Aft)
  BY FramesAssumption DEF Aft, Imu, Livox
<1>2. DepthName(depth) => depth # Aft /\ ~ IsCameraFrame(depth) /\ depth # Imu /\ depth # Livox
  BY DEF DepthName
<1>3. IsFiniteSet(edges)
  BY DEF Star
<1>4. AncestorsOf(edges, Aft) \subseteq {Aft}
  <2>1. \A e \in edges : e.child \in {Aft} => e.parent \in {Aft}
    BY <1>1, <1>2 DEF Star, Kind
  <2> QED BY <1>3, <2>1, AncestorsWithin
<1>5. ASSUME DepthName(depth)
      PROVE  AncestorsOf(edges, depth) \subseteq {depth, Aft}
  <2>1. \A e \in edges : e.child \in {depth, Aft} => e.parent \in {depth, Aft}
    BY <1>1, <1>2, <1>5 DEF Star, Kind
  <2> QED BY <1>3, <2>1, AncestorsWithin
<1> QED BY <1>4, <1>5

LEMMA StarIsForest ==
  ASSUME NEW edges, NEW depth, Star(edges, depth)
  PROVE  Forest(edges)
<1>1. /\ Aft # Imu /\ Aft # Livox /\ ~ IsCameraFrame(Aft)
      /\ DepthName(depth) => depth # Aft /\ ~ IsCameraFrame(depth)
  BY FramesAssumption DEF Aft, Imu, Livox, DepthName
<1>2. \A e \in edges : e.child \notin AncestorsOf(edges, e.parent)
  BY <1>1, StarAncestors DEF Star, Kind
<1> QED BY <1>2 DEF Forest, Star

(***************************************************************************)
(* Added keeps the shape, and what is there already.                       *)
(***************************************************************************)
LEMMA AddedStar ==
  ASSUME NEW t, NEW depth, NEW p, NEW c, NEW rigid,
         IsTree(t), Star(t.edges, depth), Kind(depth, p, c)
  PROVE  LET a == Added(t, p, c, rigid)
         IN  /\ IsTree(a) /\ Star(a.edges, depth)
             /\ Children(t.edges) \subseteq Children(a.edges)
             /\ Children(a.edges) \subseteq Children(t.edges) \cup {c}
<1> DEFINE a == Added(t, p, c, rigid)
           edge == Edge(p, c, rigid.t, Quaternion(rigid.r))
<1>1. \A what : LET d == Diagnosed(t, what) IN IsTree(d) /\ d.edges = t.edges
  BY DEF Diagnosed, IsTree
<1>2. CASE a.edges = t.edges /\ IsTree(a)
  BY <1>2
<1>3. CASE a = [t EXCEPT !.edges = @ \cup {edge}] /\ c \notin Children(t.edges)
  <2>1. IsTree(a) /\ a.edges = t.edges \cup {edge}
    BY <1>3 DEF IsTree
  <2>2. edge.parent = p /\ edge.child = c
    BY DEF Edge
  <2>3. Children(a.edges) = Children(t.edges) \cup {c}
    BY <2>1, <2>2 DEF Children
  <2>4. edge \notin t.edges
    BY <1>3, <2>2 DEF Children
  <2>5. IsFiniteSet(t.edges) /\ IsFiniteSet(Children(t.edges))
    <3> DEFINE childOf == [e \in t.edges |-> e.child]
    <3>1. childOf \in Surjection(t.edges, Children(t.edges))
      BY DEF Surjection, Children
    <3> QED BY <3>1, FS_Surjection DEF Star
  <2>6. Cardinality(a.edges) = Cardinality(t.edges) + 1 /\ IsFiniteSet(a.edges)
    BY <2>1, <2>4, <2>5, FS_AddElement
  <2>7. Cardinality(Children(a.edges)) = Cardinality(Children(t.edges)) + 1
    BY <1>3, <2>3, <2>5, FS_AddElement
  <2>8. \A e \in a.edges : Kind(depth, e.parent, e.child)
    BY <2>1, <2>2 DEF Star
  <2> QED BY <2>1, <2>3, <2>6, <2>7, <2>8 DEF Star
<1>4. \/ a.edges = t.edges /\ IsTree(a)
      \/ a = [t EXCEPT !.edges = @ \cup {edge}] /\ c \notin Children(t.edges)
  BY <1>1 DEF Added
<1> QED BY <1>2, <1>3, <1>4

(***************************************************************************)
(* Added adds: a rotation between two good names, to a child that is new.  *)
(***************************************************************************)
LEMMA AddedThere ==
  ASSUME NEW t, NEW depth, NEW p, NEW c, NEW rigid,
         IsTree(t), Star(t.edges, depth), Kind(depth, p, c),
         rigid.r \in Matrix, IsRigid(rigid), c \notin Children(t.edges)
  PROVE  c \in Children(Added(t, p, c, rigid).edges)
<1> DEFINE edge == Edge(p, c, rigid.t, Quaternion(rigid.r))
<1>1. /\ edge.parent = p /\ edge.child = c /\ edge.quaternion = Quaternion(rigid.r)
  BY DEF Edge
<1>2. /\ FrameName(Aft) /\ FrameName(Imu) /\ FrameName(Livox) /\ ~ IsCameraFrame(Aft)
      /\ \A n : IsCameraFrame(n) => FrameName(n)
  BY FramesAssumption DEF IsCameraFrame
<1>3. DepthName(depth) => FrameName(depth) /\ depth # Aft /\ ~ IsCameraFrame(depth)
  BY DEF DepthName
<1>4. FrameName(p) /\ FrameName(c) /\ p # c
  BY <1>2, <1>3 DEF Kind, Aft, Imu, Livox
<1>5. ValidTransform(edge)
  BY <1>1, <1>4, TurnedQuaternion DEF ValidTransform
<1>6. c \notin AncestorsOf(t.edges, p)
  BY <1>2, <1>3, <1>4, StarAncestors DEF Kind, Aft, Imu, Livox
<1>7. Added(t, p, c, rigid) = [t EXCEPT !.edges = @ \cup {edge}]
  BY <1>5, <1>6 DEF Added
<1>8. Added(t, p, c, rigid).edges = t.edges \cup {edge}
  BY <1>7 DEF IsTree
<1> QED BY <1>1, <1>8 DEF Children

-----------------------------------------------------------------------------
(***************************************************************************)
(* The three parts of BuildSensorTransforms: each keeps the shape and the  *)
(* frames that are there, and adds the frames of what is sound.            *)
(***************************************************************************)
Grown(a, t, depth) ==
  IsTree(a) /\ Star(a.edges, depth) /\ Children(t.edges) \subseteq Children(a.edges)

LEMMA DiagnosedGrown ==
  ASSUME NEW t, NEW depth, IsTree(t), Star(t.edges, depth), NEW what
  PROVE  Grown(Diagnosed(t, what), t, depth) /\ Diagnosed(t, what).edges = t.edges
BY DEF Diagnosed, IsTree, Grown

LEMMA ImuBranchGrown ==
  ASSUME NEW t, NEW depth, IsTree(t), t.edges = {}, NEW lidar
  PROVE  LET a == ImuBranch(t, lidar)
         IN  /\ Grown(a, t, depth) /\ Children(a.edges) \subseteq {Imu, Livox}
             /\ HasImu(lidar) /\ lidar.imu.rigid.r \in Matrix =>
                  {Imu, Livox} \subseteq Children(a.edges)
<1>1. Star(t.edges, depth) /\ Children(t.edges) = {}
  BY FS_EmptySet DEF Star, Children
<1>2. CASE ~ HasImu(lidar)
  BY <1>1, <1>2, DiagnosedGrown DEF ImuBranch
<1>3. CASE HasImu(lidar)
  <2> DEFINE same == Rigid(Identity, Zero)
             one == Added(t, Aft, Imu, same)
             two == Added(one, Aft, Livox, lidar.imu.rigid)
  <2>1. ImuBranch(t, lidar) = two
    BY <1>3 DEF ImuBranch
  <2>2. Kind(depth, Aft, Imu) /\ Kind(depth, Aft, Livox)
    BY DEF Kind
  <2>3. same.r \in Matrix /\ IsRigid(same)
    <3>1. Identity \in Matrix
      BY DEF Identity, Matrix
    <3>2. Det(Identity) = 1
      BY DEF Det, Identity
    <3>3. ASSUME NEW i \in 1 .. 3, NEW j \in 1 .. 3
          PROVE  Dot(Column(Identity, i), Column(Identity, j)) = IF i = j THEN 1 ELSE 0
      <4>1. (i = 1 \/ i = 2 \/ i = 3) /\ (j = 1 \/ j = 2 \/ j = 3)
        OBVIOUS
      <4> QED BY <4>1 DEF Dot, Column, Identity
    <3> QED BY <3>1, <3>2, <3>3, RotationColumns DEF IsRigid, Rigid
  <2>4. /\ IsTree(one) /\ Star(one.edges, depth) /\ Imu \in Children(one.edges)
        /\ Children(one.edges) \subseteq {Imu}
    <3> HIDE DEF same
    <3> QED BY <1>1, <2>2, <2>3, AddedStar, AddedThere
  <2>5. Livox \notin Children(one.edges)
    BY <2>4 DEF Imu, Livox
  <2> HIDE DEF one
  <2>6. Grown(two, t, depth) /\ Children(two.edges) \subseteq {Imu, Livox}
        /\ Imu \in Children(two.edges)
    BY <1>1, <2>2, <2>4, AddedStar DEF Grown
  <2>7. lidar.imu.rigid.r \in Matrix => Livox \in Children(two.edges)
    BY <1>3, <2>2, <2>4, <2>5, AddedThere DEF HasImu, ImuNominal
  <2> QED BY <2>1, <2>6, <2>7
<1> QED BY <1>2, <1>3

(***************************************************************************)
(* The pose of the device is a rigid transform if all that it is made of   *)
(* is.                                                                     *)
(***************************************************************************)
LEMMA BaseIsRotation ==
  BaseFromReference.r \in Matrix /\ IsRotation(BaseFromReference.r)
<1> DEFINE b == BaseFromReference.r
<1>1. b = <<0, 0, 1, -1, 0, 0, 0, -1, 0>>
  BY DEF BaseFromReference, Rigid
<1>2. b \in Matrix
  BY <1>1 DEF Matrix
<1>3. Det(b) = 1
  BY <1>1 DEF Det
<1>4. ASSUME NEW i \in 1 .. 3, NEW j \in 1 .. 3
      PROVE  Dot(Column(b, i), Column(b, j)) = IF i = j THEN 1 ELSE 0
  <2>1. (i = 1 \/ i = 2 \/ i = 3) /\ (j = 1 \/ j = 2 \/ j = 3)
    OBVIOUS
  <2> HIDE DEF b
  <2> QED BY <1>1, <2>1 DEF Dot, Column
<1> QED BY <1>2, <1>3, <1>4, RotationColumns

LEMMA AnchorPoseIsRigid ==
  ASSUME NEW lidar, NEW front, NEW anchor,
         lidar.imu.rigid.r \in Matrix, IsRigid(lidar.imu.rigid),
         front.rigid.r \in Matrix, IsRigid(front.rigid),
         anchor.rigid.r \in Matrix, IsRigid(anchor.rigid)
  PROVE  /\ AnchorPose(lidar, front, anchor).r \in Matrix
         /\ IsRigid(AnchorPose(lidar, front, anchor))
<1> DEFINE one == Compose(BaseFromReference, front.rigid)
           two == Compose(one, anchor.rigid)
           three == Inverted(two)
           four == Compose(lidar.imu.rigid, three)
<1>1. one.r \in Matrix /\ IsRotation(one.r)
  BY BaseIsRotation, ProductIsRotation DEF Compose, Rigid, IsRigid
<1>2. two.r \in Matrix /\ IsRotation(two.r)
  <2> HIDE DEF one
  <2> QED BY <1>1, ProductIsRotation DEF Compose, Rigid, IsRigid
<1>3. three.r \in Matrix /\ IsRotation(three.r)
  <2> HIDE DEF two
  <2> QED BY <1>2, TransposeIsRotation DEF Inverted, Rigid
<1>4. four.r \in Matrix /\ IsRotation(four.r)
  <2> HIDE DEF three
  <2> QED BY <1>3, ProductIsRotation DEF Compose, Rigid, IsRigid
<1> QED BY <1>4 DEF AnchorPose, IsRigid

(***************************************************************************)
(* The device comes from a front camera and an extrinsic of it that are    *)
(* sound.                                                                  *)
(***************************************************************************)
AnchorOf(lidar, rig) == lidar.extrinsics[CHOOSE i \in AnchorsFor(lidar, Front(rig)) : TRUE]

Usable(lidar, rig) ==
  /\ Anchorable(lidar, rig) /\ FrontsOf(rig) # {}
  /\ Front(rig).full /\ AnchorsFor(lidar, Front(rig)) # {}
  /\ AnchorOf(lidar, rig).source = "lidar" /\ AnchorOf(lidar, rig).target = Front(rig).id
  /\ IsRigid(Front(rig).rigid) /\ IsRigid(AnchorOf(lidar, rig).rigid)

LEMMA AnchorBranchGrown ==
  ASSUME NEW t, NEW depth, IsTree(t), Star(t.edges, depth), DepthName(depth),
         Children(t.edges) \subseteq {Imu, Livox}, NEW lidar, NEW rig
  PROVE  LET a == AnchorBranch(t, lidar, rig, depth)
         IN  /\ Grown(a, t, depth) /\ Children(a.edges) \subseteq {Imu, Livox, depth}
             /\ /\ Usable(lidar, rig)
                /\ lidar.imu.rigid.r \in Matrix /\ Front(rig).rigid.r \in Matrix
                /\ AnchorOf(lidar, rig).rigid.r \in Matrix
                => depth \in Children(a.edges)
<1> DEFINE pose == AnchorPose(lidar, Front(rig), AnchorOf(lidar, rig))
           added == IF Usable(lidar, rig) THEN Added(t, Aft, depth, pose) ELSE t
           a == AnchorBranch(t, lidar, rig, depth)
           missing == Diagnosed(added, "missing_or_invalid_front_anchor_or_rig")
<1>1. a = IF depth \in Children(added.edges) THEN added ELSE missing
  BY Zenon DEF AnchorBranch, Usable, AnchorOf
<1>2. Kind(depth, Aft, depth) /\ depth \notin Children(t.edges)
  BY DEF Kind, DepthName
<1>3. Grown(added, t, depth) /\ Children(added.edges) \subseteq {Imu, Livox, depth}
  <2>1. CASE ~ Usable(lidar, rig)
    BY <2>1 DEF Grown
  <2>2. CASE Usable(lidar, rig)
    <3>1. added = Added(t, Aft, depth, pose)
      BY <2>2
    <3> HIDE DEF pose, added
    <3>2. /\ IsTree(added) /\ Star(added.edges, depth)
          /\ Children(t.edges) \subseteq Children(added.edges)
          /\ Children(added.edges) \subseteq Children(t.edges) \cup {depth}
      BY <1>2, <3>1, AddedStar
    <3> QED BY <3>2 DEF Grown
  <2> QED BY <2>1, <2>2
<1>4. ASSUME Usable(lidar, rig),
             lidar.imu.rigid.r \in Matrix, Front(rig).rigid.r \in Matrix,
             AnchorOf(lidar, rig).rigid.r \in Matrix
      PROVE  depth \in Children(added.edges)
  <2>1. pose.r \in Matrix /\ IsRigid(pose)
    BY <1>4, AnchorPoseIsRigid DEF Usable, Anchorable, HasImu, ImuNominal
  <2> HIDE DEF pose
  <2> QED BY <1>2, <1>4, <2>1, AddedThere
<1> HIDE DEF added
<1>5. /\ Grown(a, t, depth) /\ Children(a.edges) \subseteq {Imu, Livox, depth}
      /\ depth \in Children(added.edges) => depth \in Children(a.edges)
  <2>1. IsTree(added) /\ Star(added.edges, depth)
    BY <1>3 DEF Grown
  <2>2. Grown(missing, added, depth) /\ missing.edges = added.edges
    BY <2>1, DiagnosedGrown
  <2> QED BY <1>1, <1>3, <2>2 DEF Grown
<1> QED BY <1>4, <1>5

(***************************************************************************)
(* One camera: its frame is there if it is sound and the frame is new.     *)
(***************************************************************************)
LEMMA CameraBranchGrown ==
  ASSUME NEW t, NEW depth, IsTree(t), Star(t.edges, depth), DepthName(depth),
         NEW camera, camera.id \in Ids, camera.rigid.r \in Matrix
  PROVE  LET b == CameraBranch(t, camera, depth)
             f == RawCameraFrameId(camera.id)
         IN  /\ Grown(b, t, depth) /\ Children(b.edges) \subseteq Children(t.edges) \cup {f}
             /\ SoundCamera(camera) /\ f \notin Children(t.edges) => f \in Children(b.edges)
<1> DEFINE b == CameraBranch(t, camera, depth)
           f == RawCameraFrameId(camera.id)
           pose == Compose(BaseFromReference, camera.rigid)
<1>1. CASE ~ SoundCamera(camera)
  BY <1>1, DiagnosedGrown DEF CameraBranch, SoundCamera
<1>2. CASE SoundCamera(camera)
  <2>1. b = Added(t, depth, f, pose)
    BY <1>2 DEF CameraBranch, SoundCamera
  <2>2. pose.r \in Matrix /\ IsRigid(pose)
    BY <1>2, BaseIsRotation, ProductIsRotation DEF Compose, Rigid, IsRigid, SoundCamera
  <2>3. Kind(depth, depth, f)
    BY DEF Kind, IsCameraFrame
  <2> HIDE DEF pose, f
  <2>4. /\ IsTree(b) /\ Star(b.edges, depth)
        /\ Children(t.edges) \subseteq Children(b.edges)
        /\ Children(b.edges) \subseteq Children(t.edges) \cup {f}
    BY <2>1, <2>3, AddedStar
  <2>5. f \notin Children(t.edges) => f \in Children(b.edges)
    BY <2>1, <2>2, <2>3, AddedThere
  <2> QED BY <2>4, <2>5 DEF Grown, f
<1> QED BY <1>1, <1>2

(***************************************************************************)
(* The loop over the cameras, as CameraBranches recurs.                    *)
(***************************************************************************)
IsBranches(h, t, rig, depth, N) ==
  h = [n \in 0 .. N |-> IF n = 0 THEN t ELSE CameraBranch(h[n - 1], rig.cameras[n], depth)]

LEMMA BranchesExist ==
  ASSUME NEW t, NEW rig, NEW depth, NEW N \in Nat
  PROVE  \E h : IsBranches(h, t, rig, depth, N)
<1> DEFINE T == {m \in Nat : ~ \E h : IsBranches(h, t, rig, depth, m)}
<1> SUFFICES ASSUME T # {}
             PROVE  FALSE
  OBVIOUS
<1>1. PICK x \in T : \A y \in T : x <= y
  BY LeastNatural
<1>2. CASE x = 0
  <2> DEFINE g == [n \in 0 .. 0 |-> t]
  <2>1. g = [n \in 0 .. 0 |->
               IF n = 0 THEN t ELSE CameraBranch(g[n - 1], rig.cameras[n], depth)]
    OBVIOUS
  <2>2. IsBranches(g, t, rig, depth, 0)
    BY <2>1 DEF IsBranches
  <2> QED BY <1>2, <2>2
<1>3. CASE x # 0
  <2>1. x - 1 \in Nat /\ x - 1 \notin T
    BY <1>1, <1>3
  <2>2. PICK h : IsBranches(h, t, rig, depth, x - 1)
    BY <2>1
  <2> DEFINE g == [n \in 0 .. x |->
                     IF n = 0 THEN t ELSE CameraBranch(h[n - 1], rig.cameras[n], depth)]
  <2>3. ASSUME NEW n \in 0 .. x, n # 0
        PROVE  g[n - 1] = h[n - 1]
    <3>1. n - 1 \in 0 .. x /\ n - 1 \in 0 .. x - 1
      BY <2>3
    <3>2. h[n - 1] = IF n - 1 = 0 THEN t
                     ELSE CameraBranch(h[(n - 1) - 1], rig.cameras[n - 1], depth)
      BY <2>2, <3>1, Zenon DEF IsBranches
    <3> QED BY <3>1, <3>2
  <2>4. g = [n \in 0 .. x |->
               IF n = 0 THEN t ELSE CameraBranch(g[n - 1], rig.cameras[n], depth)]
    BY <2>3
  <2>5. IsBranches(g, t, rig, depth, x)
    BY <2>4 DEF IsBranches
  <2> QED BY <2>5
<1> QED BY <1>2, <1>3

(***************************************************************************)
(* After n cameras, every sound one of them has its frame: their numbers   *)
(* are different, so no two want the same.                                 *)
(***************************************************************************)
LEMMA CameraLoop ==
  ASSUME NEW t, NEW depth, IsTree(t), Star(t.edges, depth), DepthName(depth),
         \A f \in Children(t.edges) : ~ IsCameraFrame(f),
         NEW rig, IsList(rig.cameras),
         \A i \in DOMAIN rig.cameras :
           rig.cameras[i].id \in Ids /\ rig.cameras[i].rigid.r \in Matrix,
         \A i, j \in DOMAIN rig.cameras : rig.cameras[i].id = rig.cameras[j].id => i = j,
         NEW h, IsBranches(h, t, rig, depth, Len(rig.cameras))
  PROVE  LET a == h[Len(rig.cameras)]
         IN  /\ Grown(a, t, depth)
             /\ \A i \in DOMAIN rig.cameras :
                  SoundCamera(rig.cameras[i]) =>
                    RawCameraFrameId(rig.cameras[i].id) \in Children(a.edges)
<1> DEFINE N == Len(rig.cameras)
           Frame(i) == RawCameraFrameId(rig.cameras[i].id)
           P(n) == /\ Grown(h[n], t, depth)
                   /\ Children(h[n].edges) \subseteq Children(t.edges) \cup {Frame(i) : i \in 1 .. n}
                   /\ \A i \in 1 .. n :
                        SoundCamera(rig.cameras[i]) => Frame(i) \in Children(h[n].edges)
           T == {m \in Nat : m <= N /\ ~ P(m)}
<1>1. N \in Nat /\ DOMAIN rig.cameras = 1 .. N
  BY DEF IsList
<1>2. \A n \in 0 .. N :
        h[n] = IF n = 0 THEN t ELSE CameraBranch(h[n - 1], rig.cameras[n], depth)
  BY Zenon DEF IsBranches
<1>3. P(0)
  <2>1. h[0] = t
    BY <1>1, <1>2
  <2> QED BY <2>1 DEF Grown
<1>4. ASSUME NEW n \in 1 .. N, P(n - 1)
      PROVE  P(n)
  <2> DEFINE before == h[n - 1]   after == h[n]
  <2>1. after = CameraBranch(before, rig.cameras[n], depth)
    BY <1>1, <1>2
  <2>2. /\ Grown(before, t, depth)
        /\ Children(before.edges) \subseteq Children(t.edges) \cup {Frame(i) : i \in 1 .. n - 1}
        /\ \A i \in 1 .. n - 1 :
             SoundCamera(rig.cameras[i]) => Frame(i) \in Children(before.edges)
    BY <1>4
  <2>3. n \in DOMAIN rig.cameras /\ n - 1 \in Nat /\ 1 .. n = (1 .. n - 1) \cup {n}
    BY <1>1
  <2>4. Frame(n) \notin Children(before.edges)
    <3>1. IsCameraFrame(Frame(n))
      BY <2>3 DEF IsCameraFrame
    <3>2. ASSUME NEW i \in 1 .. n - 1
          PROVE  Frame(i) # Frame(n)
      <4>1. i \in DOMAIN rig.cameras /\ i # n
        BY <1>1, <2>3
      <4> QED BY <2>3, <4>1, FramesAssumption
    <3> HIDE DEF Frame
    <3> QED BY <2>2, <3>1, <3>2
  <2> HIDE DEF before, after
  <2>5. /\ Grown(after, before, depth)
        /\ Children(after.edges) \subseteq Children(before.edges) \cup {Frame(n)}
        /\ SoundCamera(rig.cameras[n]) => Frame(n) \in Children(after.edges)
    BY <2>1, <2>2, <2>3, <2>4, CameraBranchGrown DEF Grown
  <2>6. Grown(after, t, depth)
    BY <2>2, <2>5 DEF Grown
  <2> HIDE DEF Frame
  <2>7. Children(after.edges) \subseteq Children(t.edges) \cup {Frame(i) : i \in 1 .. n}
    BY <2>2, <2>3, <2>5
  <2>8. \A i \in 1 .. n :
          SoundCamera(rig.cameras[i]) => Frame(i) \in Children(after.edges)
    BY <2>2, <2>3, <2>5 DEF Grown
  <2> QED BY <2>6, <2>7, <2>8 DEF after
<1>5. T = {}
  <2> SUFFICES ASSUME T # {}
               PROVE  FALSE
    OBVIOUS
  <2> HIDE DEF P
  <2>1. PICK x \in T : \A y \in T : x <= y
    BY LeastNatural
  <2>2. x \in 1 .. N /\ ~ P(x)
    BY <1>1, <1>3, <2>1
  <2>3. P(x - 1)
    BY <1>1, <2>1, <2>2
  <2> QED BY <1>4, <2>2, <2>3
<1>6. P(N)
  <2> HIDE DEF P
  <2> QED BY <1>1, <1>5
<1> QED BY <1>1, <1>6

LEMMA CameraBranchesGrown ==
  ASSUME NEW t, NEW depth, IsTree(t), Star(t.edges, depth), DepthName(depth),
         Children(t.edges) \subseteq {Imu, Livox, depth}, NEW rig,
         rig # None =>
           /\ IsList(rig.cameras)
           /\ \A i \in DOMAIN rig.cameras :
                rig.cameras[i].id \in Ids /\ rig.cameras[i].rigid.r \in Matrix
  PROVE  LET a == CameraBranches(t, rig, depth)
         IN  /\ Grown(a, t, depth)
             /\ /\ rig # None
                /\ \A i, j \in DOMAIN rig.cameras :
                     /\ rig.cameras[i].id = rig.cameras[j].id => i = j
                     /\ rig.cameras[i].role = rig.cameras[j].role => i = j
                => \A i \in DOMAIN rig.cameras :
                     SoundCamera(rig.cameras[i]) =>
                       RawCameraFrameId(rig.cameras[i].id) \in Children(a.edges)
<1> DEFINE N == Len(rig.cameras)
           H == CHOOSE h : IsBranches(h, t, rig, depth, N)
           distinct == \A i, j \in DOMAIN rig.cameras :
                         /\ rig.cameras[i].id = rig.cameras[j].id => i = j
                         /\ rig.cameras[i].role = rig.cameras[j].role => i = j
           a == CameraBranches(t, rig, depth)
<1>1. CASE rig = None
  BY <1>1, DiagnosedGrown DEF CameraBranches
<1>2. CASE rig # None /\ ~ distinct
  <2>1. \/ ~Distinct([i \in DOMAIN rig.cameras |-> rig.cameras[i].id])
        \/ ~Distinct([i \in DOMAIN rig.cameras |-> rig.cameras[i].role])
    BY <1>2 DEF Distinct
  <2>2. a = Diagnosed(t, "duplicate_camera_identity")
    BY <1>2, <2>1 DEF CameraBranches
  <2> QED BY <1>2, <2>2, DiagnosedGrown
<1>3. CASE rig # None /\ distinct
  <2>1. /\ Distinct([i \in DOMAIN rig.cameras |-> rig.cameras[i].id])
        /\ Distinct([i \in DOMAIN rig.cameras |-> rig.cameras[i].role])
    BY <1>3 DEF Distinct
  <2>2. a = H[N]
    BY <1>3, <2>1 DEF CameraBranches, IsBranches
  <2>3. IsBranches(H, t, rig, depth, N)
    BY <1>3, BranchesExist DEF IsList
  <2>4. \A f \in Children(t.edges) : ~ IsCameraFrame(f)
    BY FramesAssumption DEF DepthName
  <2>5. /\ IsList(rig.cameras)
        /\ \A i \in DOMAIN rig.cameras :
             rig.cameras[i].id \in Ids /\ rig.cameras[i].rigid.r \in Matrix
        /\ \A i, j \in DOMAIN rig.cameras : rig.cameras[i].id = rig.cameras[j].id => i = j
    BY <1>3
  <2> HIDE DEF H, N
  <2>6. /\ Grown(H[N], t, depth)
        /\ \A i \in DOMAIN rig.cameras :
             SoundCamera(rig.cameras[i]) =>
               RawCameraFrameId(rig.cameras[i].id) \in Children(H[N].edges)
    BY <2>3, <2>4, <2>5, CameraLoop DEF N
  <2> QED BY <2>2, <2>6
<1> QED BY <1>1, <1>2, <1>3

-----------------------------------------------------------------------------
(***************************************************************************)
(* The LiDAR calibration that LoadSensorTransforms goes by: the extrinsics *)
(* that stand on their own, and the IMU's if it is sound.                  *)
(***************************************************************************)
LidarOf(c) == IF MakeLidarCalibration(c) # None THEN MakeLidarCalibration(c) ELSE PartialLidar(c)

LEMMA LidarFacts ==
  ASSUME NEW j \in Jobs
  PROVE  LET c == j.calibration
             lidar == LidarOf(c)
         IN  /\ lidar # None =>
                  /\ c.json # None
                  /\ lidar.hash = IF c.json.hash = "" THEN c.hash ELSE c.json.hash
                  /\ DOMAIN lidar.extrinsics = Standing(c.json.extrinsics)
                  /\ \A i \in Standing(c.json.extrinsics) :
                       lidar.extrinsics[i] = c.json.extrinsics[i]
                  /\ lidar.imu \in {c.json.imu, None}
             /\ SoundImu(c) => lidar # None /\ lidar.imu = c.json.imu
<1> DEFINE c == j.calibration
           whole == Lidar(c, c.json.extrinsics, c.json.imu)
           part == Lidar(c, Restrict(c.json.extrinsics, Standing(c.json.extrinsics)),
                         IF ImuNominal(c.json.imu) THEN c.json.imu ELSE None)
           accepted == ~ (\/ c.json = None \/ ~c.json.ready \/ Len(c.json.extrinsics) # 4
                          \/ \E i \in DOMAIN c.json.extrinsics : ~Recovered(c.json.extrinsics[i]))
           partial == ~ (\/ c.json = None \/ Differ(c.version, c.json.version)
                         \/ Differ(c.hash, c.json.hash) \/ ~c.json.ready)
<1>1. MakeLidarCalibration(c) = IF accepted THEN whole ELSE None
  BY DEF MakeLidarCalibration
<1>2. PartialLidar(c) = IF partial THEN part ELSE None
  BY DEF PartialLidar
<1>3. accepted => c.json # None /\ Standing(c.json.extrinsics) = DOMAIN c.json.extrinsics
  BY DEF Standing
<1>4. partial => c.json # None
  OBVIOUS
<1>5. SoundImu(c) => partial /\ ImuNominal(c.json.imu)
  BY DEF SoundImu, LidarHeader
<1>6. c.json # None => whole # None /\ part # None
  BY NoneAssumption
<1>7. /\ whole.extrinsics = c.json.extrinsics /\ whole.imu = c.json.imu
      /\ whole.hash = IF c.json.hash = "" THEN c.hash ELSE c.json.hash
  BY DEF Lidar
<1>8. /\ part.extrinsics = Restrict(c.json.extrinsics, Standing(c.json.extrinsics))
      /\ part.imu = IF ImuNominal(c.json.imu) THEN c.json.imu ELSE None
      /\ part.hash = IF c.json.hash = "" THEN c.hash ELSE c.json.hash
  BY DEF Lidar
<1>9. /\ DOMAIN part.extrinsics = Standing(c.json.extrinsics)
      /\ \A i \in Standing(c.json.extrinsics) : part.extrinsics[i] = c.json.extrinsics[i]
  BY <1>8 DEF Restrict
<1> HIDE DEF whole, part, accepted, partial
<1>10. CASE accepted
  <2>1. LidarOf(c) = whole
    BY <1>1, <1>3, <1>6, <1>10 DEF LidarOf
  <2> QED BY <1>3, <1>6, <1>7, <1>10, <2>1
<1>11. CASE ~ accepted
  <2>1. LidarOf(c) = IF partial THEN part ELSE None
    BY <1>1, <1>2, <1>11 DEF LidarOf
  <2> QED BY <1>4, <1>5, <1>6, <1>8, <1>9, <2>1
<1> QED BY <1>10, <1>11

(***************************************************************************)
(* What BuildSensorTransforms puts together.                               *)
(***************************************************************************)
LEMMA LoadIs ==
  ASSUME NEW c, NEW depth
  PROVE  LET lidar == LidarOf(c)
             start == IF c.rig # None /\ Len(c.rig.cameras) # 4
                        THEN Diagnosed(EmptyTree, "incomplete_camera_rig") ELSE EmptyTree
             imu == ImuBranch(start, lidar)
             compared == IF Compatible(lidar, c.rig) THEN imu
                         ELSE Diagnosed(imu, "camera_calibration_hash_mismatch")
             built == IF ~DepthName(depth) THEN Diagnosed(imu, "invalid_depth_frame")
                      ELSE IF Ambiguity(lidar, c.rig) # None
                        THEN Diagnosed(compared, Ambiguity(lidar, c.rig))
                      ELSE CameraBranches(AnchorBranch(compared, lidar, c.rig, depth), c.rig, depth)
         IN  IsTree(built) => LoadSensorTransforms(c, depth).edges = built.edges
BY Zenon DEF LoadSensorTransforms, LidarOf, BuildSensorTransforms, IsTree

(***************************************************************************)
(* One front camera, and one extrinsic of it: nothing is ambiguous.        *)
(***************************************************************************)
LEMMA OneFront ==
  ASSUME NEW j \in Jobs, SoundRig(j.calibration),
         NEW i \in DOMAIN j.calibration.rig.cameras,
         j.calibration.rig.cameras[i].role = "front"
  PROVE  /\ FrontsOf(j.calibration.rig) = {i}
         /\ Front(j.calibration.rig) = j.calibration.rig.cameras[i]
<1>1. FrontsOf(j.calibration.rig) = {i}
  BY DEF FrontsOf, SoundRig
<1> QED BY <1>1 DEF Front

LEMMA AnchorsAreExtrinsics ==
  ASSUME NEW j \in Jobs, LidarOf(j.calibration) # None, NEW camera
  PROVE  AnchorsFor(LidarOf(j.calibration), camera) = Extrinsics(j.calibration, camera.id)
BY LidarFacts DEF AnchorsFor, Extrinsics, Standing

LEMMA Unambiguous ==
  ASSUME NEW j \in Jobs, SoundRig(j.calibration),
         \/ ~ Ambiguous(j.calibration)
         \/ SoundAnchor(j.calibration)
  PROVE  Ambiguity(LidarOf(j.calibration), j.calibration.rig) = None
<1> DEFINE c == j.calibration
           lidar == LidarOf(c)
<1> SUFFICES ASSUME Anchorable(lidar, c.rig), FrontsOf(c.rig) # {}
             PROVE  Ambiguity(lidar, c.rig) = None
  BY DEF Ambiguity
<1>1. PICK i \in FrontsOf(c.rig) : TRUE
  OBVIOUS
<1>2. i \in DOMAIN c.rig.cameras /\ c.rig.cameras[i].role = "front"
  BY <1>1 DEF FrontsOf
<1>3. FrontsOf(c.rig) = {i} /\ Front(c.rig) = c.rig.cameras[i]
  BY <1>2, OneFront
<1>4. Cardinality(FrontsOf(c.rig)) = 1
  BY <1>3, FS_Singleton
<1>5. lidar # None /\ c.json # None /\ c.rig # None
  BY LidarFacts DEF Anchorable, HasImu
<1>6. AnchorsFor(lidar, Front(c.rig)) = Extrinsics(c, Front(c.rig).id)
  BY <1>5, AnchorsAreExtrinsics
<1>7. ~ (Cardinality(AnchorsFor(lidar, Front(c.rig))) > 1)
  <2>1. CASE ~ Ambiguous(c)
    <3>1. Front(c.rig).id \in Ids
      BY <1>2, <1>3, <1>5, CalibrationAssumption
    <3> QED BY <1>5, <1>6, <2>1, <3>1 DEF Ambiguous
  <2>2. CASE SoundAnchor(c)
    <3>1. PICK k \in DOMAIN c.rig.cameras :
            c.rig.cameras[k].role = "front" /\ Cardinality(Extrinsics(c, c.rig.cameras[k].id)) = 1
      BY <2>2 DEF SoundAnchor
    <3>2. k = i
      BY <1>2, <3>1 DEF SoundRig
    <3> QED BY <1>3, <1>6, <3>1, <3>2
  <2> QED BY <2>1, <2>2
<1> QED BY <1>4, <1>7 DEF Ambiguity

(***************************************************************************)
(* A sound anchor is one that AnchorBranch uses.                           *)
(***************************************************************************)
LEMMA SoundIsUsable ==
  ASSUME NEW j \in Jobs, SoundAnchor(j.calibration)
  PROVE  LET c == j.calibration
             lidar == LidarOf(c)
         IN  /\ Usable(lidar, c.rig)
             /\ lidar.imu.rigid.r \in Matrix /\ Front(c.rig).rigid.r \in Matrix
             /\ AnchorOf(lidar, c.rig).rigid.r \in Matrix
<1> DEFINE c == j.calibration
           lidar == LidarOf(c)
<1>1. /\ SoundImu(c) /\ SoundRig(c) /\ c.json.hash = c.rig.hash
      /\ c.rig # None /\ c.json # None /\ c.json.imu # None /\ ImuNominal(c.json.imu)
  BY DEF SoundAnchor, SoundRig, SoundImu, LidarHeader, ImuNominal
<1>2. /\ lidar # None /\ lidar.imu = c.json.imu
      /\ lidar.hash = IF c.json.hash = "" THEN c.hash ELSE c.json.hash
      /\ DOMAIN lidar.extrinsics = Standing(c.json.extrinsics)
      /\ \A i \in Standing(c.json.extrinsics) : lidar.extrinsics[i] = c.json.extrinsics[i]
  BY <1>1, LidarFacts
<1>3. PICK i \in DOMAIN c.rig.cameras :
        /\ c.rig.cameras[i].role = "front" /\ SoundCamera(c.rig.cameras[i])
        /\ Cardinality(Extrinsics(c, c.rig.cameras[i].id)) = 1
        /\ \A k \in Extrinsics(c, c.rig.cameras[i].id) : IsRigid(c.json.extrinsics[k].rigid)
  BY DEF SoundAnchor
<1>4. FrontsOf(c.rig) = {i} /\ Front(c.rig) = c.rig.cameras[i]
  BY <1>1, <1>3, OneFront
<1> DEFINE front == Front(c.rig)
           anchors == AnchorsFor(lidar, front)
           n == CHOOSE k \in anchors : TRUE
<1>5. anchors = Extrinsics(c, front.id)
  BY <1>2, AnchorsAreExtrinsics
<1>6. anchors # {}
  BY <1>3, <1>4, <1>5, FS_EmptySet
<1>7. n \in anchors
  BY <1>6
<1>8. AnchorOf(lidar, c.rig) = c.json.extrinsics[n] /\ n \in DOMAIN c.json.extrinsics
  BY <1>2, <1>5, <1>7 DEF AnchorOf, Extrinsics, Standing
<1>9. /\ c.json.extrinsics[n].source = "lidar" /\ c.json.extrinsics[n].target = front.id
      /\ IsRigid(c.json.extrinsics[n].rigid)
  BY <1>3, <1>4, <1>5, <1>7 DEF Extrinsics, Recovered, Named
<1>10. Anchorable(lidar, c.rig)
  BY <1>1, <1>2 DEF Anchorable, HasImu, Compatible, Differ
<1>11. /\ c.json.imu.rigid.r \in Matrix /\ c.json.extrinsics[n].rigid.r \in Matrix
       /\ c.rig.cameras[i].rigid.r \in Matrix
  BY <1>1, <1>8, CalibrationAssumption DEF Rigids
<1> HIDE DEF n
<1> QED BY <1>2, <1>3, <1>4, <1>6, <1>8, <1>9, <1>10, <1>11 DEF Usable, SoundCamera

(***************************************************************************)
(* The tree of a calibration, whatever is broken in it.                    *)
(***************************************************************************)
LEMMA TreeFacts ==
  ASSUME NEW j \in Jobs, NEW depth
  PROVE  LET c == j.calibration
             edges == LoadSensorTransforms(c, depth).edges
             frames == Children(edges)
         IN  /\ Star(edges, depth)
             /\ SoundImu(c) => {Imu, Livox} \subseteq frames
             /\ DepthName(depth) =>
                  /\ SoundAnchor(c) => depth \in frames
                  /\ SoundRig(c) /\ ~Ambiguous(c) =>
                       \A i \in DOMAIN c.rig.cameras :
                         SoundCamera(c.rig.cameras[i]) =>
                           RawCameraFrameId(c.rig.cameras[i].id) \in frames
<1> DEFINE c == j.calibration
           lidar == LidarOf(c)
           start == IF c.rig # None /\ Len(c.rig.cameras) # 4
                      THEN Diagnosed(EmptyTree, "incomplete_camera_rig") ELSE EmptyTree
           imu == ImuBranch(start, lidar)
           compared == IF Compatible(lidar, c.rig) THEN imu
                       ELSE Diagnosed(imu, "camera_calibration_hash_mismatch")
           anchored == AnchorBranch(compared, lidar, c.rig, depth)
           cameras == CameraBranches(anchored, c.rig, depth)
           built == IF ~DepthName(depth) THEN Diagnosed(imu, "invalid_depth_frame")
                    ELSE IF Ambiguity(lidar, c.rig) # None
                      THEN Diagnosed(compared, Ambiguity(lidar, c.rig))
                    ELSE cameras
<1>1. IsTree(start) /\ start.edges = {}
  BY DEF EmptyTree, Diagnosed, IsTree
<1>2. HasImu(lidar) => lidar.imu.rigid.r \in Matrix
  BY LidarFacts, CalibrationAssumption DEF HasImu, ImuNominal, Rigids
<1>3. SoundImu(c) => HasImu(lidar)
  BY LidarFacts DEF HasImu, SoundImu
<1> HIDE DEF start, lidar
<1>4. /\ IsTree(imu) /\ Star(imu.edges, depth) /\ Children(imu.edges) \subseteq {Imu, Livox}
      /\ SoundImu(c) => {Imu, Livox} \subseteq Children(imu.edges)
  BY <1>1, <1>2, <1>3, ImuBranchGrown DEF Grown
<1> HIDE DEF imu
<1>5. IsTree(compared) /\ compared.edges = imu.edges
  BY <1>4, DiagnosedGrown DEF Grown
<1> HIDE DEF compared
<1>6. /\ c.rig # None =>
           /\ IsList(c.rig.cameras)
           /\ \A i \in DOMAIN c.rig.cameras :
                c.rig.cameras[i].id \in Ids /\ c.rig.cameras[i].rigid.r \in Matrix
  BY CalibrationAssumption DEF Rigids
<1>7. ASSUME DepthName(depth)
      PROVE  /\ Grown(anchored, compared, depth)
             /\ Children(anchored.edges) \subseteq {Imu, Livox, depth}
             /\ SoundAnchor(c) => depth \in Children(anchored.edges)
  <2>1. SoundAnchor(c) =>
          /\ Usable(lidar, c.rig)
          /\ lidar.imu.rigid.r \in Matrix /\ Front(c.rig).rigid.r \in Matrix
          /\ AnchorOf(lidar, c.rig).rigid.r \in Matrix
    BY SoundIsUsable DEF lidar
  <2> QED BY <1>4, <1>5, <1>7, <2>1, AnchorBranchGrown
<1> HIDE DEF anchored
<1>8. ASSUME DepthName(depth)
      PROVE  /\ Grown(cameras, anchored, depth)
             /\ SoundRig(c) =>
                  \A i \in DOMAIN c.rig.cameras :
                    SoundCamera(c.rig.cameras[i]) =>
                      RawCameraFrameId(c.rig.cameras[i].id) \in Children(cameras.edges)
  <2>1. SoundRig(c) =>
          /\ c.rig # None
          /\ \A i, k \in DOMAIN c.rig.cameras :
               /\ c.rig.cameras[i].id = c.rig.cameras[k].id => i = k
               /\ c.rig.cameras[i].role = c.rig.cameras[k].role => i = k
    BY DEF SoundRig
  <2>2. IsTree(anchored) /\ Star(anchored.edges, depth)
    BY <1>7, <1>8 DEF Grown
  <2> QED BY <1>6, <1>7, <1>8, <2>1, <2>2, CameraBranchesGrown
<1> HIDE DEF cameras
<1>9. IsTree(built) /\ Star(built.edges, depth) /\ Children(imu.edges) \subseteq Children(built.edges)
  <2>1. CASE ~ DepthName(depth)
    BY <1>4, <2>1, DiagnosedGrown DEF Grown
  <2>2. CASE DepthName(depth) /\ Ambiguity(lidar, c.rig) # None
    BY <1>4, <1>5, <2>2, DiagnosedGrown DEF Grown
  <2>3. CASE DepthName(depth) /\ Ambiguity(lidar, c.rig) = None
    <3>1. built = cameras
      BY <2>3
    <3> QED BY <1>5, <1>7, <1>8, <2>3, <3>1 DEF Grown
  <2> QED BY <2>1, <2>2, <2>3
<1>10. LoadSensorTransforms(c, depth).edges = built.edges
  BY <1>9, LoadIs DEF lidar, start, imu, compared, anchored, cameras
<1>11. ASSUME DepthName(depth), SoundRig(c), ~ Ambiguous(c) \/ SoundAnchor(c)
       PROVE  built = cameras
  BY <1>11, Unambiguous DEF lidar
<1>12. SoundAnchor(c) => SoundRig(c)
  BY DEF SoundAnchor
<1>13. ASSUME DepthName(depth), SoundAnchor(c)
       PROVE  depth \in Children(built.edges)
  BY <1>7, <1>8, <1>11, <1>12, <1>13 DEF Grown
<1>14. ASSUME DepthName(depth), SoundRig(c), ~ Ambiguous(c)
       PROVE  \A i \in DOMAIN c.rig.cameras :
                SoundCamera(c.rig.cameras[i]) =>
                  RawCameraFrameId(c.rig.cameras[i].id) \in Children(built.edges)
  BY <1>8, <1>11, <1>14
<1> HIDE DEF built
<1> QED BY <1>4, <1>9, <1>10, <1>13, <1>14

(***************************************************************************)
(* The tree of a program is that of its calibration.                       *)
(***************************************************************************)
TreeInv ==
  /\ job \in Jobs
  /\ at.step = "configure" => tree = None
  /\ tree # None => tree = LoadSensorTransforms(job.calibration, tf.device)

LEMMA TreeInvStep == TreeInv /\ [Next]_vars => TreeInv'
<1> SUFFICES ASSUME TreeInv, [Next]_vars
             PROVE  TreeInv'
  OBVIOUS
<1> USE DEF TreeInv, GoTo, Ended
<1>1. CASE Configure
  BY <1>1 DEF Configure
<1>2. CASE FetchFails
  BY <1>2 DEF FetchFails
<1>3. CASE Build
  BY <1>3 DEF Build
<1>4. CASE Mount
  BY <1>4 DEF Mount
<1>5. CASE Broadcast
  BY <1>5 DEF Broadcast
<1>6. CASE Open
  BY <1>6 DEF Open
<1>7. CASE Write
  BY <1>7 DEF Write
<1>8. CASE OutputFails
  BY <1>8 DEF OutputFails
<1>9. CASE Interrupted
  BY <1>9 DEF Interrupted, vars
<1>10. CASE Close
  BY <1>10 DEF Close
<1>11. CASE Killed
  BY <1>11 DEF Killed
<1>12. CASE UNCHANGED vars
  BY <1>12 DEF vars
<1> QED BY <1>1, <1>2, <1>3, <1>4, <1>5, <1>6, <1>7, <1>8, <1>9, <1>10, <1>11, <1>12 DEF Next

(***************************************************************************)
(* docs/TF.md: "invalid/missing dependencies emit diagnostics and omit     *)
(* affected branches; independent valid branches remain available."  For   *)
(* every calibration, whatever is broken in it, the device transforms are  *)
(* a forest, and the IMU pair, the device and each camera are there if     *)
(* they are sound themselves.                                              *)
(***************************************************************************)
THEOREM SoundBranchesStay == Spec => []BranchesIndependent
<1>1. Init => TreeInv
  BY DEF Init, TreeInv
<1>2. TreeInv => BranchesIndependent
  <2> SUFFICES ASSUME TreeInv, Built
               PROVE  /\ Forest(tree.edges)
                      /\ SoundImu(job.calibration) => {Imu, Livox} \subseteq Children(tree.edges)
                      /\ DepthName(Device) =>
                           /\ SoundAnchor(job.calibration) => Device \in Children(tree.edges)
                           /\ SoundRig(job.calibration) /\ ~Ambiguous(job.calibration) =>
                                \A camera \in Range(job.calibration.rig.cameras) :
                                  SoundCamera(camera) =>
                                    RawCameraFrameId(camera.id) \in Children(tree.edges)
    BY DEF BranchesIndependent
  <2>1. tree = LoadSensorTransforms(job.calibration, tf.device) /\ job \in Jobs
    BY DEF TreeInv, Built
  <2> DEFINE frames == Children(tree.edges)
  <2>2. /\ Star(tree.edges, Device)
        /\ SoundImu(job.calibration) => {Imu, Livox} \subseteq frames
        /\ DepthName(Device) =>
             /\ SoundAnchor(job.calibration) => Device \in frames
             /\ SoundRig(job.calibration) /\ ~Ambiguous(job.calibration) =>
                  \A i \in DOMAIN job.calibration.rig.cameras :
                    SoundCamera(job.calibration.rig.cameras[i]) =>
                      RawCameraFrameId(job.calibration.rig.cameras[i].id) \in frames
    BY <2>1, TreeFacts DEF Device
  <2>3. Forest(tree.edges)
    BY <2>2, StarIsForest
  <2> HIDE DEF frames
  <2> QED BY <2>2, <2>3 DEF Range, frames
<1> QED BY <1>1, <1>2, TreeInvStep, PTL DEF Spec

-----------------------------------------------------------------------------
(***************************************************************************)
(* The matrix of a quaternion, times its squared length; and that a        *)
(* quaternion of the model stands for a rotation: Quarters and matrices    *)
(* are what robot_tf.cpp and transform_geometry.cpp keep.                  *)
(***************************************************************************)
Spun(q) ==
  <<q[4]*q[4] + q[1]*q[1] - q[2]*q[2] - q[3]*q[3], 2*(q[1]*q[2] - q[3]*q[4]), 2*(q[1]*q[3] + q[2]*q[4]),
    2*(q[1]*q[2] + q[3]*q[4]), q[4]*q[4] - q[1]*q[1] + q[2]*q[2] - q[3]*q[3], 2*(q[2]*q[3] - q[1]*q[4]),
    2*(q[1]*q[3] - q[2]*q[4]), 2*(q[2]*q[3] + q[1]*q[4]), q[4]*q[4] - q[1]*q[1] - q[2]*q[2] + q[3]*q[3]>>

Turns(q, r) ==
  /\ q \in Quarters /\ r \in Matrix /\ IsRotation(r)
  /\ \A k \in 1 .. 9 : Spun(q)[k] = Norm(q) * r[k]

(***************************************************************************)
(* Dividing by the squared length of a quaternion is exact.                *)
(***************************************************************************)
LEMMA Divided ==
  ASSUME NEW n \in {1, 2, 4}, NEW k \in Int
  PROVE  (n * k) \div n = k
<1>1. n = 1 \/ n = 2 \/ n = 4
  OBVIOUS
<1> QED BY <1>1

(***************************************************************************)
(* Rotating a vector by a quaternion is applying its matrix.               *)
(***************************************************************************)
LEMMA RotateIs ==
  ASSUME NEW q, NEW r, Turns(q, r), NEW v \in Vector
  PROVE  Rotate(q, v) = Apply(r, v)
<1> DEFINE q1 == q[1]  q2 == q[2]  q3 == q[3]  q4 == q[4]
           v1 == v[1]  v2 == v[2]  v3 == v[3]
           n == Norm(q)
           R1 == r[1]  R2 == r[2]  R3 == r[3]  R4 == r[4]  R5 == r[5]
           R6 == r[6]  R7 == r[7]  R8 == r[8]  R9 == r[9]
           Row(i) == r[3*i - 2] * v[1] + r[3*i - 1] * v[2] + r[3*i] * v[3]
           c == Cross(q, v)
           s == Cross(q, c)
           Sum(i) == n * v[i] + 2 * (q[4] * c[i] + s[i])
<1>1. /\ q1 \in Int /\ q2 \in Int /\ q3 \in Int /\ q4 \in Int
      /\ v1 \in Int /\ v2 \in Int /\ v3 \in Int /\ n \in {1, 2, 4}
      /\ n = q1*q1 + q2*q2 + q3*q3 + q4*q4
      /\ R1 \in Int /\ R2 \in Int /\ R3 \in Int /\ R4 \in Int /\ R5 \in Int
      /\ R6 \in Int /\ R7 \in Int /\ R8 \in Int /\ R9 \in Int
  <2>1. q \in [1 .. 4 -> -1 .. 1] /\ Norm(q) \in {1, 2, 4} /\ r \in Matrix
    BY DEF Turns, Quarters
  <2>2. q1 \in -1 .. 1 /\ q2 \in -1 .. 1 /\ q3 \in -1 .. 1 /\ q4 \in -1 .. 1
    BY <2>1
  <2> QED BY <2>1, <2>2 DEF Vector, Matrix, Norm
<1>2. /\ q4*q4 + q1*q1 - q2*q2 - q3*q3 = n * R1
      /\ 2 * (q1*q2 - q3*q4) = n * R2
      /\ 2 * (q1*q3 + q2*q4) = n * R3
      /\ 2 * (q1*q2 + q3*q4) = n * R4
      /\ q4*q4 - q1*q1 + q2*q2 - q3*q3 = n * R5
      /\ 2 * (q2*q3 - q1*q4) = n * R6
      /\ 2 * (q1*q3 - q2*q4) = n * R7
      /\ 2 * (q2*q3 + q1*q4) = n * R8
      /\ q4*q4 - q1*q1 - q2*q2 + q3*q3 = n * R9
  BY DEF Turns, Spun
<1>3. Rotate(q, v) = [i \in 1 .. 3 |-> Sum(i) \div n]
  BY DEF Rotate, Norm
<1>4. Apply(r, v) = [i \in 1 .. 3 |-> Row(i)]
  BY DEF Apply
<1>5. /\ c[1] = q2*v3 - q3*v2 /\ c[2] = q3*v1 - q1*v3 /\ c[3] = q1*v2 - q2*v1
      /\ s[1] = q2*c[3] - q3*c[2] /\ s[2] = q3*c[1] - q1*c[3] /\ s[3] = q1*c[2] - q2*c[1]
  BY DEF Cross
<1> HIDE DEF q1, q2, q3, q4, v1, v2, v3, n, c, s, R1, R2, R3, R4, R5, R6, R7, R8, R9
<1>6. n * v1 + 2 * (q4 * c[1] + s[1]) = n * (R1*v1 + R2*v2 + R3*v3)
  <2>1. n * v1 + 2 * (q4 * (q2*v3 - q3*v2) + (q2 * (q1*v2 - q2*v1) - q3 * (q3*v1 - q1*v3))) =
          (q4*q4 + q1*q1 - q2*q2 - q3*q3) * v1 + (2 * (q1*q2 - q3*q4)) * v2 + (2 * (q1*q3 + q2*q4)) * v3
    BY <1>1
  <2>2. (q4*q4 + q1*q1 - q2*q2 - q3*q3) = n * R1 /\ (2 * (q1*q2 - q3*q4)) = n * R2 /\ (2 * (q1*q3 + q2*q4)) = n * R3
    BY <1>1, <1>2
  <2>3. n * (R1*v1 + R2*v2 + R3*v3) = (n*R1)*v1 + (n*R2)*v2 + (n*R3)*v3
    BY <1>1
  <2> QED BY <1>5, <2>1, <2>2, <2>3
<1>7. n * v2 + 2 * (q4 * c[2] + s[2]) = n * (R4*v1 + R5*v2 + R6*v3)
  <2>1. n * v2 + 2 * (q4 * (q3*v1 - q1*v3) + (q3 * (q2*v3 - q3*v2) - q1 * (q1*v2 - q2*v1))) =
          (q4*q4 + q2*q2 - q3*q3 - q1*q1) * v2 + (2 * (q2*q3 - q1*q4)) * v3 + (2 * (q1*q2 + q3*q4)) * v1
    BY <1>1
  <2>2. (q4*q4 + q2*q2 - q3*q3 - q1*q1) = n * R5 /\ (2 * (q2*q3 - q1*q4)) = n * R6 /\ (2 * (q1*q2 + q3*q4)) = n * R4
    BY <1>1, <1>2
  <2>3. n * (R4*v1 + R5*v2 + R6*v3) = (n*R5)*v2 + (n*R6)*v3 + (n*R4)*v1
    BY <1>1
  <2> QED BY <1>5, <2>1, <2>2, <2>3
<1>8. n * v3 + 2 * (q4 * c[3] + s[3]) = n * (R7*v1 + R8*v2 + R9*v3)
  <2>1. n * v3 + 2 * (q4 * (q1*v2 - q2*v1) + (q1 * (q3*v1 - q1*v3) - q2 * (q2*v3 - q3*v2))) =
          (q4*q4 + q3*q3 - q1*q1 - q2*q2) * v3 + (2 * (q1*q3 - q2*q4)) * v1 + (2 * (q2*q3 + q1*q4)) * v2
    BY <1>1
  <2>2. (q4*q4 + q3*q3 - q1*q1 - q2*q2) = n * R9 /\ (2 * (q1*q3 - q2*q4)) = n * R7 /\ (2 * (q2*q3 + q1*q4)) = n * R8
    BY <1>1, <1>2
  <2>3. n * (R7*v1 + R8*v2 + R9*v3) = (n*R9)*v3 + (n*R7)*v1 + (n*R8)*v2
    BY <1>1
  <2> QED BY <1>5, <2>1, <2>2, <2>3
<1>9. \A i \in 1 .. 3 : Row(i) \in Int /\ Sum(i) = n * Row(i)
  BY <1>1, <1>6, <1>7, <1>8 DEF q4, v1, v2, v3, R1, R2, R3, R4, R5, R6, R7, R8, R9
<1> HIDE DEF Row, Sum
<1>10. \A i \in 1 .. 3 : Sum(i) \div n = Row(i)
  BY <1>1, <1>9, Divided
<1> QED BY <1>3, <1>4, <1>10

(***************************************************************************)
(* The product of quaternions before its common factor is taken out.       *)
(***************************************************************************)
Quadruple == [1 .. 4 -> Int]

Hamilton(a, b) ==
  <<a[4]*b[1] + a[1]*b[4] + a[2]*b[3] - a[3]*b[2],
    a[4]*b[2] - a[1]*b[3] + a[2]*b[4] + a[3]*b[1],
    a[4]*b[3] + a[1]*b[2] - a[2]*b[1] + a[3]*b[4],
    a[4]*b[4] - a[1]*b[1] - a[2]*b[2] - a[3]*b[3]>>

(***************************************************************************)
(* The matrix of a product of quaternions is the product of their matrices *)
(* (Euler's four squares among them), for all integers.                    *)
(***************************************************************************)
LEMMA HamiltonSpun ==
  ASSUME NEW a \in Quadruple, NEW b \in Quadruple
  PROVE  /\ Hamilton(a, b) \in Quadruple /\ Spun(a) \in Matrix
         /\ Norm(Hamilton(a, b)) = Norm(a) * Norm(b)
         /\ Spun(Hamilton(a, b)) = Product(Spun(a), Spun(b))
<1> DEFINE a1 == a[1]  a2 == a[2]  a3 == a[3]  a4 == a[4]
           b1 == b[1]  b2 == b[2]  b3 == b[3]  b4 == b[4]
           p == Hamilton(a, b)
           p1 == p[1]  p2 == p[2]  p3 == p[3]  p4 == p[4]
<1>1. /\ a1 \in Int /\ a2 \in Int /\ a3 \in Int /\ a4 \in Int
      /\ b1 \in Int /\ b2 \in Int /\ b3 \in Int /\ b4 \in Int
  BY DEF Quadruple
<1>2. /\ p1 = a4*b1 + a1*b4 + a2*b3 - a3*b2
      /\ p2 = a4*b2 - a1*b3 + a2*b4 + a3*b1
      /\ p3 = a4*b3 + a1*b2 - a2*b1 + a3*b4
      /\ p4 = a4*b4 - a1*b1 - a2*b2 - a3*b3
  BY DEF Hamilton
<1>3. p \in Quadruple
  BY <1>1 DEF Hamilton, Quadruple
<1>4. \A q \in Quadruple : Spun(q) \in Matrix
  BY DEF Spun, Matrix, Quadruple
<1>5. Norm(p) = Norm(a) * Norm(b)
  <2>1. p1*p1 + p2*p2 + p3*p3 + p4*p4 =
          (a1*a1 + a2*a2 + a3*a3 + a4*a4) * (b1*b1 + b2*b2 + b3*b3 + b4*b4)
    <3> HIDE DEF p1, p2, p3, p4, a1, a2, a3, a4, b1, b2, b3, b4
    <3> QED BY <1>1, <1>2
  <2> QED BY <2>1 DEF Norm
<1> DEFINE A == Spun(a)   B == Spun(b)   P == Spun(p)   C == Product(A, B)
<1>6. /\ A[1] = a4*a4 + a1*a1 - a2*a2 - a3*a3
      /\ A[2] = 2*(a1*a2 - a3*a4)   /\ A[3] = 2*(a1*a3 + a2*a4)   /\ A[4] = 2*(a1*a2 + a3*a4)
      /\ A[5] = a4*a4 - a1*a1 + a2*a2 - a3*a3
      /\ A[6] = 2*(a2*a3 - a1*a4)   /\ A[7] = 2*(a1*a3 - a2*a4)   /\ A[8] = 2*(a2*a3 + a1*a4)
      /\ A[9] = a4*a4 - a1*a1 - a2*a2 + a3*a3
  BY DEF Spun
<1>7. /\ B[1] = b4*b4 + b1*b1 - b2*b2 - b3*b3
      /\ B[2] = 2*(b1*b2 - b3*b4)   /\ B[3] = 2*(b1*b3 + b2*b4)   /\ B[4] = 2*(b1*b2 + b3*b4)
      /\ B[5] = b4*b4 - b1*b1 + b2*b2 - b3*b3
      /\ B[6] = 2*(b2*b3 - b1*b4)   /\ B[7] = 2*(b1*b3 - b2*b4)   /\ B[8] = 2*(b2*b3 + b1*b4)
      /\ B[9] = b4*b4 - b1*b1 - b2*b2 + b3*b3
  BY DEF Spun
<1>8. /\ P[1] = p4*p4 + p1*p1 - p2*p2 - p3*p3
      /\ P[2] = 2*(p1*p2 - p3*p4)   /\ P[3] = 2*(p1*p3 + p2*p4)   /\ P[4] = 2*(p1*p2 + p3*p4)
      /\ P[5] = p4*p4 - p1*p1 + p2*p2 - p3*p3
      /\ P[6] = 2*(p2*p3 - p1*p4)   /\ P[7] = 2*(p1*p3 - p2*p4)   /\ P[8] = 2*(p2*p3 + p1*p4)
      /\ P[9] = p4*p4 - p1*p1 - p2*p2 + p3*p3
  BY DEF Spun
<1>9. A \in Matrix /\ B \in Matrix /\ P \in Matrix
  BY <1>3, <1>4
<1>10. /\ C \in Matrix
       /\ C[1] = A[1]*B[1] + A[2]*B[4] + A[3]*B[7]
       /\ C[2] = A[1]*B[2] + A[2]*B[5] + A[3]*B[8]
       /\ C[3] = A[1]*B[3] + A[2]*B[6] + A[3]*B[9]
       /\ C[4] = A[4]*B[1] + A[5]*B[4] + A[6]*B[7]
       /\ C[5] = A[4]*B[2] + A[5]*B[5] + A[6]*B[8]
       /\ C[6] = A[4]*B[3] + A[5]*B[6] + A[6]*B[9]
       /\ C[7] = A[7]*B[1] + A[8]*B[4] + A[9]*B[7]
       /\ C[8] = A[7]*B[2] + A[8]*B[5] + A[9]*B[8]
       /\ C[9] = A[7]*B[3] + A[8]*B[6] + A[9]*B[9]
  <2> HIDE DEF A, B
  <2>1. C \in Matrix
    BY <1>9, ProductEntries
  <2>2. \A i, j \in 1 .. 3 :
          C[3*i - 3 + j] = A[3*i - 2] * B[j] + A[3*i - 1] * B[j + 3] + A[3*i] * B[j + 6]
    BY <1>9, ProductEntries
  <2> HIDE DEF C
  <2> QED BY <2>1, <2>2
<1> HIDE DEF p1, p2, p3, p4, a1, a2, a3, a4, b1, b2, b3, b4, A, B, C, P, p
<1>11. P[1] = C[1]
  BY <1>1, <1>2, <1>6, <1>7, <1>8, <1>10
<1>12. P[2] = C[2]
  BY <1>1, <1>2, <1>6, <1>7, <1>8, <1>10
<1>13. P[3] = C[3]
  BY <1>1, <1>2, <1>6, <1>7, <1>8, <1>10
<1>14. P[4] = C[4]
  BY <1>1, <1>2, <1>6, <1>7, <1>8, <1>10
<1>15. P[5] = C[5]
  BY <1>1, <1>2, <1>6, <1>7, <1>8, <1>10
<1>16. P[6] = C[6]
  BY <1>1, <1>2, <1>6, <1>7, <1>8, <1>10
<1>17. P[7] = C[7]
  BY <1>1, <1>2, <1>6, <1>7, <1>8, <1>10
<1>18. P[8] = C[8]
  BY <1>1, <1>2, <1>6, <1>7, <1>8, <1>10
<1>19. P[9] = C[9]
  BY <1>1, <1>2, <1>6, <1>7, <1>8, <1>10
<1>20. P = C
  BY <1>9, <1>10, <1>11, <1>12, <1>13, <1>14, <1>15, <1>16, <1>17, <1>18, <1>19 DEF Matrix
<1> QED BY <1>3, <1>4, <1>5, <1>20 DEF p, A, B, C, P

(***************************************************************************)
(* What a quaternion of these rotations looks like.                        *)
(***************************************************************************)
LEMMA QuarterFacts ==
  ASSUME NEW q \in Quarters
  PROVE  /\ q \in Quadruple /\ Norm(q) \in {1, 2, 4} /\ q # <<0, 0, 0, 0>>
         /\ q[1] \in -1 .. 1 /\ q[2] \in -1 .. 1 /\ q[3] \in -1 .. 1 /\ q[4] \in -1 .. 1
<1>1. q \in [1 .. 4 -> -1 .. 1] /\ Norm(q) \in {1, 2, 4}
  BY DEF Quarters
<1>2. q[1] \in -1 .. 1 /\ q[2] \in -1 .. 1 /\ q[3] \in -1 .. 1 /\ q[4] \in -1 .. 1
  BY <1>1
<1>3. q # <<0, 0, 0, 0>>
  BY <1>1 DEF Norm
<1> QED BY <1>1, <1>2, <1>3 DEF Quadruple

(***************************************************************************)
(* The entries of a product that are not zero are equal in size: taking    *)
(* their signs is dividing by a common factor, 1, 2 or 4.                  *)
(***************************************************************************)
LEMMA EvenProduct ==
  ASSUME NEW a \in Quarters, NEW b \in Quarters
  PROVE  /\ Multiply(a, b) \in Quarters
         /\ \E k \in {1, 2, 4} : \A i \in 1 .. 4 : Hamilton(a, b)[i] = k * Multiply(a, b)[i]
<1> DEFINE a1 == a[1]  a2 == a[2]  a3 == a[3]  a4 == a[4]
           b1 == b[1]  b2 == b[2]  b3 == b[3]  b4 == b[4]
           p == Hamilton(a, b)   q == Multiply(a, b)
           p1 == p[1]  p2 == p[2]  p3 == p[3]  p4 == p[4]
           q1 == q[1]  q2 == q[2]  q3 == q[3]  q4 == q[4]
<1>1. /\ a1 \in -1 .. 1 /\ a2 \in -1 .. 1 /\ a3 \in -1 .. 1 /\ a4 \in -1 .. 1
      /\ b1 \in -1 .. 1 /\ b2 \in -1 .. 1 /\ b3 \in -1 .. 1 /\ b4 \in -1 .. 1
      /\ a1*a1 + a2*a2 + a3*a3 + a4*a4 \in {1, 2, 4}
      /\ b1*b1 + b2*b2 + b3*b3 + b4*b4 \in {1, 2, 4}
  BY QuarterFacts DEF Norm
<1>2. /\ p1 = a4*b1 + a1*b4 + a2*b3 - a3*b2
      /\ p2 = a4*b2 - a1*b3 + a2*b4 + a3*b1
      /\ p3 = a4*b3 + a1*b2 - a2*b1 + a3*b4
      /\ p4 = a4*b4 - a1*b1 - a2*b2 - a3*b3
  BY DEF Hamilton
<1>3. q = [i \in 1 .. 4 |-> Sign(p[i])]
  BY DEF Multiply, Signs, Hamilton
<1>4. q1 = Sign(p1) /\ q2 = Sign(p2) /\ q3 = Sign(p3) /\ q4 = Sign(p4)
  BY <1>3
<1>5. /\ p1 \in Int /\ p2 \in Int /\ p3 \in Int /\ p4 \in Int
      /\ p1*p1 + p2*p2 + p3*p3 + p4*p4 =
           (a1*a1 + a2*a2 + a3*a3 + a4*a4) * (b1*b1 + b2*b2 + b3*b3 + b4*b4)
  <2>1. a \in Quadruple /\ b \in Quadruple
    BY QuarterFacts
  <2>2. p \in Quadruple /\ Norm(p) = Norm(a) * Norm(b)
    BY <2>1, HamiltonSpun
  <2> HIDE DEF p
  <2> QED BY <2>2 DEF Norm, Quadruple
<1> HIDE DEF p1, p2, p3, p4, q1, q2, q3, q4, a1, a2, a3, a4, b1, b2, b3, b4, p, q
<1>6. PICK k \in {1, 2, 4} : p1 \in {0, k, -k} /\ p2 \in {0, k, -k} /\ p3 \in {0, k, -k} /\ p4 \in {0, k, -k}
  BY <1>1, <1>2, SMTT(200)
<1>7. k = 1 \/ k = 2 \/ k = 4
  OBVIOUS
<1>8. /\ q1 \in -1 .. 1 /\ q2 \in -1 .. 1 /\ q3 \in -1 .. 1 /\ q4 \in -1 .. 1
      /\ p1 = k * q1 /\ p2 = k * q2 /\ p3 = k * q3 /\ p4 = k * q4
  BY <1>4, <1>6, <1>7 DEF Sign
<1>9. q1*q1 + q2*q2 + q3*q3 + q4*q4 \in {1, 2, 4}
  <2> DEFINE na == a1*a1 + a2*a2 + a3*a3 + a4*a4   nb == b1*b1 + b2*b2 + b3*b3 + b4*b4
             nq == q1*q1 + q2*q2 + q3*q3 + q4*q4
  <2>1. p1*p1 + p2*p2 + p3*p3 + p4*p4 = (k * k) * nq
    BY <1>7, <1>8
  <2>2. na \in {1, 2, 4} /\ nb \in {1, 2, 4} /\ (k * k) * nq = na * nb
    BY <1>1, <1>5, <2>1
  <2>3. nq \in 0 .. 4
    BY <1>8
  <2> HIDE DEF na, nb, nq
  <2>4. nq \in {1, 2, 4}
    BY <1>7, <2>2, <2>3
  <2> QED BY <2>4 DEF nq
<1>10. q \in [1 .. 4 -> -1 .. 1]
  BY <1>3, <1>8 DEF q1, q2, q3, q4, Sign
<1>11. q \in Quarters
  BY <1>9, <1>10 DEF Quarters, Norm, q1, q2, q3, q4
<1>12. \A i \in 1 .. 4 : p[i] = k * q[i]
  BY <1>8 DEF p1, p2, p3, p4, q1, q2, q3, q4
<1> QED BY <1>11, <1>12 DEF p, q

(***************************************************************************)
(* Multiplying quaternions, as ComposeTransforms does, is multiplying the  *)
(* rotations they stand for.                                               *)
(***************************************************************************)
LEMMA MultiplyTurns ==
  ASSUME NEW a, NEW r, Turns(a, r), NEW b, NEW s, Turns(b, s)
  PROVE  Turns(Multiply(a, b), Product(r, s))
<1> DEFINE q == Multiply(a, b)   p == Hamilton(a, b)   m == Product(r, s)
           A == Spun(a)  B == Spun(b)
           na == Norm(a)   nb == Norm(b)   nq == Norm(q)
<1>1. /\ a \in Quarters /\ b \in Quarters /\ a \in Quadruple /\ b \in Quadruple
      /\ r \in Matrix /\ s \in Matrix /\ IsRotation(r) /\ IsRotation(s)
      /\ \A i \in 1 .. 9 : A[i] = na * r[i] /\ B[i] = nb * s[i]
  BY QuarterFacts DEF Turns
<1>2. m \in Matrix /\ IsRotation(m)
  BY <1>1, ProductIsRotation
<1>3. q \in Quarters /\ q \in Quadruple /\ nq \in {1, 2, 4}
  BY <1>1, EvenProduct, QuarterFacts
<1>4. PICK k \in {1, 2, 4} : \A i \in 1 .. 4 : p[i] = k * q[i]
  BY <1>1, EvenProduct
<1>5. /\ p \in Quadruple /\ A \in Matrix /\ Norm(p) = na * nb
      /\ B \in Matrix /\ Spun(p) = Product(A, B)
  BY <1>1, HamiltonSpun
<1>6. na \in {1, 2, 4} /\ nb \in {1, 2, 4}
  BY <1>1, QuarterFacts
<1> HIDE DEF q, p, A, B, na, nb, nq, m
<1>7. Norm(p) = (k * k) * nq /\ \A i \in 1 .. 9 : Spun(p)[i] = (k * k) * Spun(q)[i]
  <2> DEFINE q1 == q[1]  q2 == q[2]  q3 == q[3]  q4 == q[4]
  <2>1. p[1] = k * q1 /\ p[2] = k * q2 /\ p[3] = k * q3 /\ p[4] = k * q4
    BY <1>4
  <2>2. q1 \in Int /\ q2 \in Int /\ q3 \in Int /\ q4 \in Int /\ k \in Int
    BY <1>3, <1>4 DEF Quadruple
  <2>3. /\ Norm(q) = q1*q1 + q2*q2 + q3*q3 + q4*q4
        /\ Spun(q) =
             <<q4*q4 + q1*q1 - q2*q2 - q3*q3, 2*(q1*q2 - q3*q4), 2*(q1*q3 + q2*q4),
               2*(q1*q2 + q3*q4), q4*q4 - q1*q1 + q2*q2 - q3*q3, 2*(q2*q3 - q1*q4),
               2*(q1*q3 - q2*q4), 2*(q2*q3 + q1*q4), q4*q4 - q1*q1 - q2*q2 + q3*q3>>
    BY DEF Norm, Spun
  <2>4. /\ Norm(p) = (k*q1)*(k*q1) + (k*q2)*(k*q2) + (k*q3)*(k*q3) + (k*q4)*(k*q4)
        /\ Spun(p) =
             <<(k*q4)*(k*q4) + (k*q1)*(k*q1) - (k*q2)*(k*q2) - (k*q3)*(k*q3),
               2*((k*q1)*(k*q2) - (k*q3)*(k*q4)), 2*((k*q1)*(k*q3) + (k*q2)*(k*q4)),
               2*((k*q1)*(k*q2) + (k*q3)*(k*q4)),
               (k*q4)*(k*q4) - (k*q1)*(k*q1) + (k*q2)*(k*q2) - (k*q3)*(k*q3),
               2*((k*q2)*(k*q3) - (k*q1)*(k*q4)),
               2*((k*q1)*(k*q3) - (k*q2)*(k*q4)), 2*((k*q2)*(k*q3) + (k*q1)*(k*q4)),
               (k*q4)*(k*q4) - (k*q1)*(k*q1) - (k*q2)*(k*q2) + (k*q3)*(k*q3)>>
    BY <2>1 DEF Norm, Spun
  <2> HIDE DEF q1, q2, q3, q4
  <2> QED BY <2>2, <2>3, <2>4 DEF nq
<1>8. \A i \in 1 .. 9 : Spun(p)[i] = (na * nb) * m[i]
  <2>1. ASSUME NEW i \in 1 .. 3, NEW j \in 1 .. 3
        PROVE  Product(A, B)[3*i - 3 + j] = (na * nb) * m[3*i - 3 + j]
    <3> DEFINE R1 == r[3*i - 2]  R2 == r[3*i - 1]  R3 == r[3*i]
               S1 == s[j]  S2 == s[j + 3]  S3 == s[j + 6]
    <3>1. Product(A, B)[3*i - 3 + j] = A[3*i - 2] * B[j] + A[3*i - 1] * B[j + 3] + A[3*i] * B[j + 6]
      BY <1>5, ProductEntries
    <3>2. m[3*i - 3 + j] = R1 * S1 + R2 * S2 + R3 * S3
      BY <1>1, ProductEntries DEF m
    <3>3. 3*i - 2 \in 1 .. 9 /\ 3*i - 1 \in 1 .. 9 /\ 3*i \in 1 .. 9 /\ j \in 1 .. 9 /\ j + 3 \in 1 .. 9 /\ j + 6 \in 1 .. 9
      OBVIOUS
    <3>4. /\ A[3*i - 2] = na * R1 /\ A[3*i - 1] = na * R2 /\ A[3*i] = na * R3
          /\ B[j] = nb * S1 /\ B[j + 3] = nb * S2 /\ B[j + 6] = nb * S3
          /\ R1 \in Int /\ R2 \in Int /\ R3 \in Int /\ S1 \in Int /\ S2 \in Int /\ S3 \in Int
      BY <1>1, <3>3 DEF Matrix
    <3>5. na \in Int /\ nb \in Int
      BY <1>6
    <3> HIDE DEF R1, R2, R3, S1, S2, S3
    <3>6. (na*R1)*(nb*S1) + (na*R2)*(nb*S2) + (na*R3)*(nb*S3) = (na * nb) * (R1*S1 + R2*S2 + R3*S3)
      BY <3>4, <3>5
    <3> QED BY <3>1, <3>2, <3>4, <3>6
  <2>2. \A i \in 1 .. 9 : \E j, l \in 1 .. 3 : i = 3 * j - 3 + l
    OBVIOUS
  <2> QED BY <1>5, <2>1, <2>2
<1>9. \A i \in 1 .. 9 : Spun(q)[i] = nq * m[i]
  <2>1. ASSUME NEW i \in 1 .. 9
        PROVE  Spun(q)[i] = nq * m[i]
    <3> DEFINE x == Spun(q)[i]   y == m[i]   w == k * k
    <3>1. x \in Int /\ y \in Int
      <4>1. Spun(q) \in Matrix
        BY <1>3, HamiltonSpun
      <4> QED BY <1>2, <4>1 DEF Matrix
    <3>2. w * x = (w * nq) * y
      BY <1>5, <1>7, <1>8
    <3>3. w \in {1, 4, 16} /\ nq \in {1, 2, 4}
      BY <1>3
    <3> HIDE DEF x, y, w
    <3>4. x = nq * y
      BY <3>1, <3>2, <3>3
    <3> QED BY <3>4 DEF x, y
  <2> QED BY <2>1
<1> QED BY <1>2, <1>3, <1>9 DEF Turns, q, m, nq

Conjugate(q) == <<-q[1], -q[2], -q[3], q[4]>>

(***************************************************************************)
(* The conjugate, as InverseTransform takes it, stands for the transposed  *)
(* rotation.                                                               *)
(***************************************************************************)
LEMMA ConjugateTurns ==
  ASSUME NEW q, NEW r, Turns(q, r)
  PROVE  Turns(Conjugate(q), Transpose(r))
<1> DEFINE c == Conjugate(q)   t == Transpose(r)
           q1 == q[1]  q2 == q[2]  q3 == q[3]  q4 == q[4]
<1>1. /\ q \in Quarters /\ r \in Matrix /\ IsRotation(r)
      /\ q1 \in -1 .. 1 /\ q2 \in -1 .. 1 /\ q3 \in -1 .. 1 /\ q4 \in -1 .. 1
      /\ \A k \in 1 .. 9 : Spun(q)[k] = Norm(q) * r[k]
  BY QuarterFacts DEF Turns
<1>2. t \in Matrix /\ IsRotation(t)
  BY <1>1, TransposeIsRotation
<1>3. /\ t[1] = r[1] /\ t[2] = r[4] /\ t[3] = r[7]
      /\ t[4] = r[2] /\ t[5] = r[5] /\ t[6] = r[8]
      /\ t[7] = r[3] /\ t[8] = r[6] /\ t[9] = r[9]
  BY <1>1, TransposeEntries
<1>4. c[1] = -q1 /\ c[2] = -q2 /\ c[3] = -q3 /\ c[4] = q4 /\ c \in [1 .. 4 -> -1 .. 1]
  BY <1>1 DEF Conjugate
<1>5. Norm(c) = Norm(q)
  BY <1>1, <1>4 DEF Norm
<1>6. c \in Quarters
  BY <1>1, <1>4, <1>5, QuarterFacts DEF Quarters
<1>7. /\ Spun(q)[1] = q4*q4 + q1*q1 - q2*q2 - q3*q3
      /\ Spun(q)[2] = 2*(q1*q2 - q3*q4)   /\ Spun(q)[3] = 2*(q1*q3 + q2*q4)
      /\ Spun(q)[4] = 2*(q1*q2 + q3*q4)
      /\ Spun(q)[5] = q4*q4 - q1*q1 + q2*q2 - q3*q3
      /\ Spun(q)[6] = 2*(q2*q3 - q1*q4)   /\ Spun(q)[7] = 2*(q1*q3 - q2*q4)
      /\ Spun(q)[8] = 2*(q2*q3 + q1*q4)
      /\ Spun(q)[9] = q4*q4 - q1*q1 - q2*q2 + q3*q3
  BY DEF Spun
<1> HIDE DEF q1, q2, q3, q4, c, t
<1>8. Spun(c) =
        <<q4*q4 + (-q1)*(-q1) - (-q2)*(-q2) - (-q3)*(-q3), 2*((-q1)*(-q2) - (-q3)*q4),
          2*((-q1)*(-q3) + (-q2)*q4), 2*((-q1)*(-q2) + (-q3)*q4),
          q4*q4 - (-q1)*(-q1) + (-q2)*(-q2) - (-q3)*(-q3), 2*((-q2)*(-q3) - (-q1)*q4),
          2*((-q1)*(-q3) - (-q2)*q4), 2*((-q2)*(-q3) + (-q1)*q4),
          q4*q4 - (-q1)*(-q1) - (-q2)*(-q2) + (-q3)*(-q3)>>
  BY <1>4 DEF Spun
<1>9. /\ Spun(c)[1] = Spun(q)[1] /\ Spun(c)[2] = Spun(q)[4] /\ Spun(c)[3] = Spun(q)[7]
      /\ Spun(c)[4] = Spun(q)[2] /\ Spun(c)[5] = Spun(q)[5] /\ Spun(c)[6] = Spun(q)[8]
      /\ Spun(c)[7] = Spun(q)[3] /\ Spun(c)[8] = Spun(q)[6] /\ Spun(c)[9] = Spun(q)[9]
  BY <1>1, <1>7, <1>8
<1>10. \A k \in 1 .. 9 : Spun(c)[k] = Norm(c) * t[k]
  BY <1>1, <1>3, <1>5, <1>9
<1> QED BY <1>2, <1>6, <1>10 DEF Turns, c, t

(***************************************************************************)
(* Every such quaternion is a rotation.                                    *)
(***************************************************************************)
LEMMA QuarterTurns ==
  ASSUME NEW q \in Quarters
  PROVE  \E r : Turns(q, r)
<1> DEFINE n == Norm(q)   S == Spun(q)
           q1 == q[1]  q2 == q[2]  q3 == q[3]  q4 == q[4]
           r == [k \in 1 .. 9 |-> S[k] \div n]
<1>1. /\ q1 \in -1 .. 1 /\ q2 \in -1 .. 1 /\ q3 \in -1 .. 1 /\ q4 \in -1 .. 1
      /\ n \in {1, 2, 4} /\ n = q1*q1 + q2*q2 + q3*q3 + q4*q4 /\ S \in Matrix
  BY QuarterFacts, HamiltonSpun DEF Norm
<1>2. /\ S[1] = q4*q4 + q1*q1 - q2*q2 - q3*q3
      /\ S[2] = 2*(q1*q2 - q3*q4)   /\ S[3] = 2*(q1*q3 + q2*q4)
      /\ S[4] = 2*(q1*q2 + q3*q4)
      /\ S[5] = q4*q4 - q1*q1 + q2*q2 - q3*q3
      /\ S[6] = 2*(q2*q3 - q1*q4)   /\ S[7] = 2*(q1*q3 - q2*q4)
      /\ S[8] = 2*(q2*q3 + q1*q4)
      /\ S[9] = q4*q4 - q1*q1 - q2*q2 + q3*q3
  BY DEF Spun
<1> HIDE DEF n, S, q1, q2, q3, q4
<1>3. /\ S[1] \in {-n, 0, n} /\ S[2] \in {-n, 0, n} /\ S[3] \in {-n, 0, n}
      /\ S[4] \in {-n, 0, n} /\ S[5] \in {-n, 0, n} /\ S[6] \in {-n, 0, n}
      /\ S[7] \in {-n, 0, n} /\ S[8] \in {-n, 0, n} /\ S[9] \in {-n, 0, n}
  BY <1>1, <1>2, SMTT(100)
<1>4. \A k \in 1 .. 9 : r[k] \in Int /\ S[k] = n * r[k]
  <2>1. ASSUME NEW x \in {-n, 0, n}
        PROVE  x \div n \in Int /\ x = n * (x \div n)
    <3>1. n = 1 \/ n = 2 \/ n = 4
      BY <1>1
    <3> QED BY <2>1, <3>1
  <2>2. \A k \in 1 .. 9 : S[k] \in {-n, 0, n}
    BY <1>3
  <2> QED BY <2>1, <2>2
<1>5. r \in Matrix
  BY <1>4 DEF Matrix
<1> HIDE DEF r
<1> DEFINE r1 == r[1]  r2 == r[2]  r3 == r[3]  r4 == r[4]  r5 == r[5]
           r6 == r[6]  r7 == r[7]  r8 == r[8]  r9 == r[9]
<1>6. /\ r1 \in Int /\ r2 \in Int /\ r3 \in Int /\ r4 \in Int /\ r5 \in Int
      /\ r6 \in Int /\ r7 \in Int /\ r8 \in Int /\ r9 \in Int
      /\ S[1] = n*r1 /\ S[2] = n*r2 /\ S[3] = n*r3 /\ S[4] = n*r4 /\ S[5] = n*r5
      /\ S[6] = n*r6 /\ S[7] = n*r7 /\ S[8] = n*r8 /\ S[9] = n*r9
  BY <1>4
<1> HIDE DEF r1, r2, r3, r4, r5, r6, r7, r8, r9
<1>7. n = 1 \/ n = 2 \/ n = 4
  BY <1>1
<1>8. /\ r1*r1 + r4*r4 + r7*r7 = 1 /\ r2*r2 + r5*r5 + r8*r8 = 1 /\ r3*r3 + r6*r6 + r9*r9 = 1
      /\ r1*r2 + r4*r5 + r7*r8 = 0 /\ r1*r3 + r4*r6 + r7*r9 = 0 /\ r2*r3 + r5*r6 + r8*r9 = 0
  BY <1>1, <1>2, <1>6, <1>7, SMTT(200)
<1>9. r1*(r5*r9 - r6*r8) - r2*(r4*r9 - r6*r7) + r3*(r4*r8 - r5*r7) = 1
  BY <1>1, <1>2, <1>6, <1>7, SMTT(200)
<1>10. IsRotation(r)
  <2>1. \A i, j \in 1 .. 3 : Dot(Column(r, i), Column(r, j)) = IF i = j THEN 1 ELSE 0
    <3> SUFFICES ASSUME NEW i \in 1 .. 3, NEW j \in 1 .. 3
                 PROVE  Dot(Column(r, i), Column(r, j)) = IF i = j THEN 1 ELSE 0
      OBVIOUS
    <3>1. (i = 1 \/ i = 2 \/ i = 3) /\ (j = 1 \/ j = 2 \/ j = 3)
      OBVIOUS
    <3>2. Dot(Column(r, i), Column(r, j)) = r[i] * r[j] + r[i + 3] * r[j + 3] + r[i + 6] * r[j + 6]
      BY DEF Dot, Column
    <3>3. CASE i = 1
      BY <1>6, <1>8, <3>1, <3>2, <3>3 DEF r1, r2, r3, r4, r5, r6, r7, r8, r9
    <3>4. CASE i = 2
      BY <1>6, <1>8, <3>1, <3>2, <3>4 DEF r1, r2, r3, r4, r5, r6, r7, r8, r9
    <3>5. CASE i = 3
      BY <1>6, <1>8, <3>1, <3>2, <3>5 DEF r1, r2, r3, r4, r5, r6, r7, r8, r9
    <3> QED BY <3>1, <3>3, <3>4, <3>5
  <2>2. Det(r) = 1
    BY <1>9 DEF Det, r1, r2, r3, r4, r5, r6, r7, r8, r9
  <2> QED BY <1>5, <2>1, <2>2, RotationColumns
<1>11. Turns(q, r)
  BY <1>4, <1>5, <1>10 DEF Turns, S, n
<1> QED BY <1>11

(***************************************************************************)
(* The entries of an integer rotation are -1, 0 or 1, and its columns are  *)
(* orthonormal.                                                            *)
(***************************************************************************)
LEMMA RotationSizes ==
  ASSUME NEW r \in Matrix, IsRotation(r)
  PROVE  /\ r[1] \in -1 .. 1 /\ r[2] \in -1 .. 1 /\ r[3] \in -1 .. 1
         /\ r[4] \in -1 .. 1 /\ r[5] \in -1 .. 1 /\ r[6] \in -1 .. 1
         /\ r[7] \in -1 .. 1 /\ r[8] \in -1 .. 1 /\ r[9] \in -1 .. 1
         /\ r[1]*r[1] + r[4]*r[4] + r[7]*r[7] = 1
         /\ r[2]*r[2] + r[5]*r[5] + r[8]*r[8] = 1
         /\ r[3]*r[3] + r[6]*r[6] + r[9]*r[9] = 1
         /\ r[1]*r[2] + r[4]*r[5] + r[7]*r[8] = 0
         /\ r[1]*r[3] + r[4]*r[6] + r[7]*r[9] = 0
         /\ r[2]*r[3] + r[5]*r[6] + r[8]*r[9] = 0
         /\ r[1]*(r[5]*r[9] - r[6]*r[8]) - r[2]*(r[4]*r[9] - r[6]*r[7])
              + r[3]*(r[4]*r[8] - r[5]*r[7]) = 1
<1>1. \A i, j \in 1 .. 3 :
        r[i] * r[j] + r[i + 3] * r[j + 3] + r[i + 6] * r[j + 6] = IF i = j THEN 1 ELSE 0
  <2> SUFFICES ASSUME NEW i \in 1 .. 3, NEW j \in 1 .. 3
               PROVE  r[i] * r[j] + r[i + 3] * r[j + 3] + r[i + 6] * r[j + 6] = IF i = j THEN 1 ELSE 0
    OBVIOUS
  <2>1. Dot(Column(r, i), Column(r, j)) = IF i = j THEN 1 ELSE 0
    BY RotationColumns
  <2>2. Dot(Column(r, i), Column(r, j)) = r[i] * r[j] + r[i + 3] * r[j + 3] + r[i + 6] * r[j + 6]
    BY DEF Dot, Column
  <2> QED BY <2>1, <2>2
<1>2. /\ r[1]*r[1] + r[4]*r[4] + r[7]*r[7] = 1
      /\ r[2]*r[2] + r[5]*r[5] + r[8]*r[8] = 1
      /\ r[3]*r[3] + r[6]*r[6] + r[9]*r[9] = 1
      /\ r[1]*r[2] + r[4]*r[5] + r[7]*r[8] = 0
      /\ r[1]*r[3] + r[4]*r[6] + r[7]*r[9] = 0
      /\ r[2]*r[3] + r[5]*r[6] + r[8]*r[9] = 0
  BY <1>1
<1>3. ASSUME NEW x \in Int, NEW y \in Int, NEW z \in Int, x*x + y*y + z*z = 1
      PROVE  x \in -1 .. 1 /\ y \in -1 .. 1 /\ z \in -1 .. 1
  <2>1. \A u \in Int : u * u >= 0 /\ (u * u <= 1 => u \in -1 .. 1)
    OBVIOUS
  <2>2. x * x >= 0 /\ y * y >= 0 /\ z * z >= 0
    BY <2>1
  <2> QED BY <1>3, <2>1, <2>2
<1> DEFINE Small(i) == r[i] \in -1 .. 1 /\ r[i + 3] \in -1 .. 1 /\ r[i + 6] \in -1 .. 1
<1>4. ASSUME NEW i \in 1 .. 3
      PROVE  Small(i)
  <2> DEFINE x == r[i]   y == r[i + 3]   z == r[i + 6]
  <2>1. x \in Int /\ y \in Int /\ z \in Int
    BY DEF Matrix
  <2>2. x*x + y*y + z*z = 1
    BY <1>1
  <2> HIDE DEF x, y, z
  <2>3. x \in -1 .. 1 /\ y \in -1 .. 1 /\ z \in -1 .. 1
    BY <1>3, <2>1, <2>2
  <2> QED BY <2>3 DEF x, y, z
<1>5. Small(1) /\ Small(2) /\ Small(3)
  BY <1>4
<1> QED BY <1>2, <1>5 DEF IsRotation, Det

(***************************************************************************)
(* MakeRobotMounting's quaternion is one of these, for all quarter turns   *)
(* of roll, pitch and yaw.                                                 *)
(***************************************************************************)
LEMMA RpyQuarter ==
  ASSUME NEW roll \in 0 .. 3, NEW pitch \in 0 .. 3, NEW yaw \in 0 .. 3
  PROVE  RpyQuaternion(roll, pitch, yaw) \in Quarters
<1> DEFINE r == HalfTurn[roll + 1]   p == HalfTurn[pitch + 1]   y == HalfTurn[yaw + 1]
           r1 == r[1]  r2 == r[2]  p1 == p[1]  p2 == p[2]  y1 == y[1]  y2 == y[2]
           s1 == r2*p1*y1 - r1*p2*y2
           s2 == r1*p2*y1 + r2*p1*y2
           s3 == r1*p1*y2 - r2*p2*y1
           s4 == r1*p1*y1 + r2*p2*y2
           q == RpyQuaternion(roll, pitch, yaw)
           q1 == q[1]  q2 == q[2]  q3 == q[3]  q4 == q[4]
<1>1. \A n \in 0 .. 3 :
        LET h == HalfTurn[n + 1]
        IN  \/ h[1] = 1 /\ h[2] = 0
            \/ h[1] = 1 /\ h[2] = 1
            \/ h[1] = 0 /\ h[2] = 1
            \/ h[1] = -1 /\ h[2] = 1
  <2> SUFFICES ASSUME NEW n \in 0 .. 3
               PROVE  LET h == HalfTurn[n + 1]
                      IN  \/ h[1] = 1 /\ h[2] = 0
                          \/ h[1] = 1 /\ h[2] = 1
                          \/ h[1] = 0 /\ h[2] = 1
                          \/ h[1] = -1 /\ h[2] = 1
    OBVIOUS
  <2>1. n = 0 \/ n = 1 \/ n = 2 \/ n = 3
    OBVIOUS
  <2> QED BY <2>1 DEF HalfTurn
<1>2. q = [i \in 1 .. 4 |-> Sign(<<s1, s2, s3, s4>>[i])]
  BY DEF RpyQuaternion, Signs
<1>3. q1 = Sign(s1) /\ q2 = Sign(s2) /\ q3 = Sign(s3) /\ q4 = Sign(s4)
  BY <1>2
<1>4. /\ r1 \in -1 .. 1 /\ r2 \in 0 .. 1 /\ p1 \in -1 .. 1 /\ p2 \in 0 .. 1 /\ y1 \in -1 .. 1 /\ y2 \in 0 .. 1
      /\ r1 = 0 => r2 = 1
      /\ p1 = 0 => p2 = 1
      /\ y1 = 0 => y2 = 1
      /\ r2 = 0 => r1 = 1
      /\ p2 = 0 => p1 = 1
      /\ y2 = 0 => y1 = 1
  BY <1>1
<1> HIDE DEF r1, r2, p1, p2, y1, y2, q, q1, q2, q3, q4
<1>5. /\ q1 \in -1 .. 1 /\ q2 \in -1 .. 1 /\ q3 \in -1 .. 1 /\ q4 \in -1 .. 1
      /\ q1*q1 + q2*q2 + q3*q3 + q4*q4 \in {1, 2, 4}
  BY <1>3, <1>4, SMTT(200) DEF Sign
<1>6. q \in [1 .. 4 -> -1 .. 1]
  BY <1>2, <1>3, <1>5 DEF q1, q2, q3, q4
<1>7. q \in Quarters
  BY <1>5, <1>6 DEF Quarters, Norm, q1, q2, q3, q4
<1> QED BY <1>7 DEF q

(***************************************************************************)
(* The conversion of transform_geometry.cpp is right for every rotation,   *)
(* half turns included: the quaternion from the largest component stands   *)
(* for the matrix it was made from.                                        *)
(***************************************************************************)
LEMMA RotationQuaternion ==
  ASSUME NEW m \in Matrix, IsRotation(m)
  PROVE  Turns(Quaternion(m), m)
<1> DEFINE r1 == m[1]  r2 == m[2]  r3 == m[3]  r4 == m[4]  r5 == m[5]
           r6 == m[6]  r7 == m[7]  r8 == m[8]  r9 == m[9]
           S1 == 1 + m[1] - m[5] - m[9]   S2 == 1 - m[1] + m[5] - m[9]
           S3 == 1 - m[1] - m[5] + m[9]   S4 == 1 + m[1] + m[5] + m[9]
           squared == <<S1, S2, S3, S4>>
           k == FirstLargest(squared)
           xw == m[8] - m[6]   yw == m[3] - m[7]   zw == m[4] - m[2]
           xy == m[2] + m[4]   xz == m[3] + m[7]   yz == m[6] + m[8]
           q == Quaternion(m)
           q1 == q[1]  q2 == q[2]  q3 == q[3]  q4 == q[4]
<1>1. /\ r1 \in -1 .. 1 /\ r2 \in -1 .. 1 /\ r3 \in -1 .. 1
      /\ r4 \in -1 .. 1 /\ r5 \in -1 .. 1 /\ r6 \in -1 .. 1
      /\ r7 \in -1 .. 1 /\ r8 \in -1 .. 1 /\ r9 \in -1 .. 1
      /\ r1*r1 + r4*r4 + r7*r7 = 1
      /\ r2*r2 + r5*r5 + r8*r8 = 1
      /\ r3*r3 + r6*r6 + r9*r9 = 1
      /\ r1*r2 + r4*r5 + r7*r8 = 0
      /\ r1*r3 + r4*r6 + r7*r9 = 0
      /\ r2*r3 + r5*r6 + r8*r9 = 0
      /\ r1*(r5*r9 - r6*r8) - r2*(r4*r9 - r6*r7) + r3*(r4*r8 - r5*r7) = 1
  BY RotationSizes
<1>2. q = Signs(<< <<S1, xy, xz, xw>>, <<xy, S2, yz, yw>>, <<xz, yz, S3, zw>>, <<xw, yw, zw, S4>> >>[k])
  BY DEF Quaternion
<1>3. /\ k = 1 => q = [i \in 1 .. 4 |-> Sign(<<S1, xy, xz, xw>>[i])]
      /\ k = 2 => q = [i \in 1 .. 4 |-> Sign(<<xy, S2, yz, yw>>[i])]
      /\ k = 3 => q = [i \in 1 .. 4 |-> Sign(<<xz, yz, S3, zw>>[i])]
      /\ k = 4 => q = [i \in 1 .. 4 |-> Sign(<<xw, yw, zw, S4>>[i])]
  <2> HIDE DEF k, q, S1, S2, S3, S4, xw, yw, zw, xy, xz, yz
  <2> QED BY <1>2 DEF Signs
<1>4. squared \in [1 .. 4 -> Int] /\ DOMAIN squared = 1 .. 4 /\ S1 + S2 + S3 + S4 = 4
  BY DEF Matrix
<1>5. \E n \in 1 .. 4 : /\ \A j \in 1 .. 4 : squared[j] <= squared[n]
                        /\ \A j \in 1 .. n - 1 : squared[j] < squared[n]
  <2> HIDE DEF squared
  <2> QED BY <1>4
<1>6. /\ k \in 1 .. 4
      /\ k = 1 => S1 > 0 /\ S1 <= S1 /\ S2 <= S1 /\ S3 <= S1 /\ S4 <= S1
      /\ k = 2 => S2 > 0 /\ S1 <= S2 /\ S2 <= S2 /\ S3 <= S2 /\ S4 <= S2
      /\ k = 3 => S3 > 0 /\ S1 <= S3 /\ S2 <= S3 /\ S3 <= S3 /\ S4 <= S3
      /\ k = 4 => S4 > 0 /\ S1 <= S4 /\ S2 <= S4 /\ S3 <= S4 /\ S4 <= S4
  <2>1. k \in 1 .. 4 /\ \A j \in 1 .. 4 : squared[j] <= squared[k]
    <3> HIDE DEF squared
    <3> QED BY <1>4, <1>5 DEF FirstLargest
  <2>2. squared[1] = S1 /\ squared[2] = S2 /\ squared[3] = S3 /\ squared[4] = S4
    OBVIOUS
  <2>3. S1 \in Int /\ S2 \in Int /\ S3 \in Int /\ S4 \in Int
    BY DEF Matrix
  <2> HIDE DEF k, squared, S1, S2, S3, S4
  <2> QED BY <1>4, <2>1, <2>2, <2>3
<1>7. /\ S1 = 1 + r1 - r5 - r9 /\ S2 = 1 - r1 + r5 - r9
      /\ S3 = 1 - r1 - r5 + r9 /\ S4 = 1 + r1 + r5 + r9
      /\ xw = r8 - r6 /\ yw = r3 - r7 /\ zw = r4 - r2
      /\ xy = r2 + r4 /\ xz = r3 + r7 /\ yz = r6 + r8
  OBVIOUS
<1> HIDE DEF r1, r2, r3, r4, r5, r6, r7, r8, r9, S1, S2, S3, S4, k, xw, yw, zw, xy, xz, yz, q, q1, q2, q3, q4
<1> DEFINE n == q1*q1 + q2*q2 + q3*q3 + q4*q4
           Good == /\ q1 \in -1 .. 1 /\ q2 \in -1 .. 1 /\ q3 \in -1 .. 1 /\ q4 \in -1 .. 1
                   /\ n \in {1, 2, 4}
                   /\ q4*q4 + q1*q1 - q2*q2 - q3*q3 = n * r1
                   /\ 2*(q1*q2 - q3*q4) = n * r2 /\ 2*(q1*q3 + q2*q4) = n * r3
                   /\ 2*(q1*q2 + q3*q4) = n * r4
                   /\ q4*q4 - q1*q1 + q2*q2 - q3*q3 = n * r5
                   /\ 2*(q2*q3 - q1*q4) = n * r6 /\ 2*(q1*q3 - q2*q4) = n * r7
                   /\ 2*(q2*q3 + q1*q4) = n * r8
                   /\ q4*q4 - q1*q1 - q2*q2 + q3*q3 = n * r9
<1>11. ASSUME k = 1 PROVE Good
  <2>1. q1 = Sign(S1) /\ q2 = Sign(xy) /\ q3 = Sign(xz) /\ q4 = Sign(xw)
    BY <1>3, <1>11 DEF q1, q2, q3, q4
  <2>2. S1 > 0 /\ S1 <= S1 /\ S2 <= S1 /\ S3 <= S1 /\ S4 <= S1
    BY <1>6, <1>11
  <2> QED BY <1>1, <1>7, <2>1, <2>2, SMTT(300) DEF Sign
<1>12. ASSUME k = 2 PROVE Good
  <2>1. q1 = Sign(xy) /\ q2 = Sign(S2) /\ q3 = Sign(yz) /\ q4 = Sign(yw)
    BY <1>3, <1>12 DEF q1, q2, q3, q4
  <2>2. S2 > 0 /\ S1 <= S2 /\ S2 <= S2 /\ S3 <= S2 /\ S4 <= S2
    BY <1>6, <1>12
  <2> QED BY <1>1, <1>7, <2>1, <2>2, SMTT(300) DEF Sign
<1>13. ASSUME k = 3 PROVE Good
  <2>1. q1 = Sign(xz) /\ q2 = Sign(yz) /\ q3 = Sign(S3) /\ q4 = Sign(zw)
    BY <1>3, <1>13 DEF q1, q2, q3, q4
  <2>2. S3 > 0 /\ S1 <= S3 /\ S2 <= S3 /\ S3 <= S3 /\ S4 <= S3
    BY <1>6, <1>13
  <2> QED BY <1>1, <1>7, <2>1, <2>2, SMTT(300) DEF Sign
<1>14. ASSUME k = 4 PROVE Good
  <2>1. q1 = Sign(xw) /\ q2 = Sign(yw) /\ q3 = Sign(zw) /\ q4 = Sign(S4)
    BY <1>3, <1>14 DEF q1, q2, q3, q4
  <2>2. S4 > 0 /\ S1 <= S4 /\ S2 <= S4 /\ S3 <= S4 /\ S4 <= S4
    BY <1>6, <1>14
  <2> QED BY <1>1, <1>7, <2>1, <2>2, SMTT(300) DEF Sign
<1>15. Good
  BY <1>6, <1>11, <1>12, <1>13, <1>14
<1>16. q \in [1 .. 4 -> -1 .. 1]
  <2>1. q = [i \in 1 .. 4 |-> q[i]]
    BY <1>3, <1>6
  <2> QED BY <1>15, <2>1 DEF q1, q2, q3, q4
<1>17. q \in Quarters /\ Norm(q) = n
  BY <1>15, <1>16 DEF Quarters, Norm, q1, q2, q3, q4
<1>18. \A i \in 1 .. 9 : Spun(q)[i] = Norm(q) * m[i]
  <2>1. Spun(q) =
          <<q4*q4 + q1*q1 - q2*q2 - q3*q3, 2*(q1*q2 - q3*q4), 2*(q1*q3 + q2*q4),
            2*(q1*q2 + q3*q4), q4*q4 - q1*q1 + q2*q2 - q3*q3, 2*(q2*q3 - q1*q4),
            2*(q1*q3 - q2*q4), 2*(q2*q3 + q1*q4), q4*q4 - q1*q1 - q2*q2 + q3*q3>>
    BY DEF Spun, q1, q2, q3, q4
  <2> HIDE DEF n
  <2> QED BY <1>15, <1>17, <2>1 DEF r1, r2, r3, r4, r5, r6, r7, r8, r9
<1> QED BY <1>17, <1>18 DEF Turns, q

(***************************************************************************)
(* Sums of vectors.                                                        *)
(***************************************************************************)
LEMMA VectorSums ==
  ASSUME NEW v \in Vector, NEW w \in Vector, NEW u \in Vector
  PROVE  /\ Plus(v, w) \in Vector /\ Minus(v) \in Vector /\ Zero \in Vector
         /\ Plus(Plus(v, w), u) = Plus(v, Plus(w, u))
         /\ Plus(v, Zero) = v /\ Plus(Zero, v) = v
         /\ Plus(v, Minus(v)) = Zero /\ Plus(Minus(v), v) = Zero
<1>1. Plus(v, w) \in Vector /\ Plus(w, u) \in Vector /\ Minus(v) \in Vector /\ Zero \in Vector
  BY DEF Plus, Minus, Zero, Vector
<1>2. Plus(Plus(v, w), u) = Plus(v, Plus(w, u))
  BY DEF Plus, Vector
<1>3. Plus(v, Zero) = v /\ Plus(Zero, v) = v
  BY DEF Plus, Zero, Vector
<1>4. Plus(v, Minus(v)) = Zero /\ Plus(Minus(v), v) = Zero
  BY DEF Plus, Minus, Zero, Vector
<1> QED BY <1>1, <1>2, <1>3, <1>4

(***************************************************************************)
(* A matrix is linear.                                                     *)
(***************************************************************************)
LEMMA ApplyLinear ==
  ASSUME NEW a \in Matrix, NEW v \in Vector, NEW w \in Vector
  PROVE  /\ Apply(a, v) \in Vector
         /\ Apply(a, Plus(v, w)) = Plus(Apply(a, v), Apply(a, w))
         /\ Apply(a, Minus(v)) = Minus(Apply(a, v))
         /\ Apply(a, Zero) = Zero
<1> DEFINE Row(i, x) == a[3*i - 2] * x[1] + a[3*i - 1] * x[2] + a[3*i] * x[3]
<1>1. \A x : Apply(a, x) = [i \in 1 .. 3 |-> Row(i, x)]
  BY DEF Apply
<1>2. Plus(v, w) \in Vector /\ Minus(v) \in Vector /\ Zero \in Vector
  BY VectorSums
<1>3. \A i \in 1 .. 3 : a[3*i - 2] \in Int /\ a[3*i - 1] \in Int /\ a[3*i] \in Int
  BY DEF Matrix
<1>4. \A i \in 1 .. 3 : Row(i, v) \in Int /\ Row(i, w) \in Int
  BY <1>3 DEF Vector
<1>5. ASSUME NEW i \in 1 .. 3
      PROVE  /\ Row(i, Plus(v, w)) = Row(i, v) + Row(i, w)
             /\ Row(i, Minus(v)) = -Row(i, v) /\ Row(i, Zero) = 0
  <2> DEFINE x == a[3*i - 2]   y == a[3*i - 1]   z == a[3*i]
             v1 == v[1]  v2 == v[2]  v3 == v[3]  w1 == w[1]  w2 == w[2]  w3 == w[3]
  <2>1. x \in Int /\ y \in Int /\ z \in Int
    BY <1>3
  <2>2. v1 \in Int /\ v2 \in Int /\ v3 \in Int /\ w1 \in Int /\ w2 \in Int /\ w3 \in Int
    BY DEF Vector
  <2>3. /\ Row(i, Plus(v, w)) = x * (v1 + w1) + y * (v2 + w2) + z * (v3 + w3)
        /\ Row(i, Minus(v)) = x * (-v1) + y * (-v2) + z * (-v3)
        /\ Row(i, Zero) = x * 0 + y * 0 + z * 0
        /\ Row(i, v) = x * v1 + y * v2 + z * v3 /\ Row(i, w) = x * w1 + y * w2 + z * w3
    BY DEF Plus, Minus, Zero
  <2> HIDE DEF x, y, z, v1, v2, v3, w1, w2, w3, Row
  <2> QED BY <2>1, <2>2, <2>3
<1> HIDE DEF Row
<1>6. Apply(a, v) \in Vector
  BY <1>1, <1>4 DEF Vector
<1>7. Apply(a, Plus(v, w)) = Plus(Apply(a, v), Apply(a, w))
  BY <1>1, <1>5 DEF Plus
<1>8. Apply(a, Minus(v)) = Minus(Apply(a, v))
  BY <1>1, <1>5 DEF Minus
<1>9. Apply(a, Zero) = Zero
  BY <1>1, <1>5 DEF Zero
<1> QED BY <1>6, <1>7, <1>8, <1>9

(***************************************************************************)
(* Applying a product is applying one factor after the other.              *)
(***************************************************************************)
LEMMA ApplyProduct ==
  ASSUME NEW a \in Matrix, NEW b \in Matrix, NEW v \in Vector
  PROVE  Apply(Product(a, b), v) = Apply(a, Apply(b, v))
<1> DEFINE p == Product(a, b)   w == Apply(b, v)
           v1 == v[1]  v2 == v[2]  v3 == v[3]
           b1 == b[1]  b2 == b[2]  b3 == b[3]  b4 == b[4]  b5 == b[5]
           b6 == b[6]  b7 == b[7]  b8 == b[8]  b9 == b[9]
<1>1. \A x, y : Apply(x, y) = [i \in 1 .. 3 |-> x[3*i - 2] * y[1] + x[3*i - 1] * y[2] + x[3*i] * y[3]]
  BY DEF Apply
<1>2. w[1] = b1*v1 + b2*v2 + b3*v3 /\ w[2] = b4*v1 + b5*v2 + b6*v3 /\ w[3] = b7*v1 + b8*v2 + b9*v3
  BY DEF Apply
<1>3. /\ v1 \in Int /\ v2 \in Int /\ v3 \in Int
      /\ b1 \in Int /\ b2 \in Int /\ b3 \in Int /\ b4 \in Int /\ b5 \in Int
      /\ b6 \in Int /\ b7 \in Int /\ b8 \in Int /\ b9 \in Int
  BY DEF Vector, Matrix
<1>4. ASSUME NEW i \in 1 .. 3
      PROVE  p[3*i - 2] * v[1] + p[3*i - 1] * v[2] + p[3*i] * v[3]
               = a[3*i - 2] * w[1] + a[3*i - 1] * w[2] + a[3*i] * w[3]
  <2> DEFINE x == a[3*i - 2]   y == a[3*i - 1]   z == a[3*i]
  <2>1. x \in Int /\ y \in Int /\ z \in Int
    BY DEF Matrix
  <2>2. /\ p[3*i - 3 + 1] = x*b1 + y*b4 + z*b7
        /\ p[3*i - 3 + 2] = x*b2 + y*b5 + z*b8
        /\ p[3*i - 3 + 3] = x*b3 + y*b6 + z*b9
    <3> HIDE DEF p
    <3>1. \A j \in 1 .. 3 : p[3*i - 3 + j] = x * b[j] + y * b[j + 3] + z * b[j + 6]
      BY ProductEntries DEF p
    <3> QED BY <3>1
  <2>3. 3*i - 3 + 1 = 3*i - 2 /\ 3*i - 3 + 2 = 3*i - 1 /\ 3*i - 3 + 3 = 3*i
    OBVIOUS
  <2> HIDE DEF x, y, z, p, w, v1, v2, v3, b1, b2, b3, b4, b5, b6, b7, b8, b9
  <2>4. (x*b1 + y*b4 + z*b7) * v1 + (x*b2 + y*b5 + z*b8) * v2 + (x*b3 + y*b6 + z*b9) * v3
          = x * (b1*v1 + b2*v2 + b3*v3) + y * (b4*v1 + b5*v2 + b6*v3) + z * (b7*v1 + b8*v2 + b9*v3)
    BY <1>3, <2>1
  <2> QED BY <1>2, <2>2, <2>3, <2>4 DEF x, y, z, v1, v2, v3
<1> HIDE DEF p, w
<1> QED BY <1>1, <1>4 DEF p, w

(***************************************************************************)
(* A matrix is its columns.                                                *)
(***************************************************************************)
LEMMA ByColumns ==
  ASSUME NEW a \in Matrix, NEW b \in Matrix, \A j \in 1 .. 3 : Column(a, j) = Column(b, j)
  PROVE  a = b
<1>1. ASSUME NEW i \in 1 .. 3, NEW j \in 1 .. 3
      PROVE  a[3*i - 3 + j] = b[3*i - 3 + j]
  <2>1. Column(a, j)[i] = a[3*i - 3 + j] /\ Column(b, j)[i] = b[3*i - 3 + j]
    BY DEF Column
  <2> QED BY <2>1
<1>2. \A k \in 1 .. 9 : \E i, j \in 1 .. 3 : k = 3*i - 3 + j
  OBVIOUS
<1>3. \A k \in 1 .. 9 : a[k] = b[k]
  BY <1>1, <1>2
<1> QED BY <1>3 DEF Matrix

(***************************************************************************)
(* Matrices are a monoid that acts on vectors.                             *)
(***************************************************************************)
LEMMA ProductAlgebra ==
  ASSUME NEW a \in Matrix, NEW b \in Matrix, NEW c \in Matrix
  PROVE  /\ Product(Product(a, b), c) = Product(a, Product(b, c))
         /\ Identity \in Matrix /\ Product(Identity, a) = a /\ Product(a, Identity) = a
         /\ \A v \in Vector : Apply(Identity, v) = v
<1> DEFINE ab == Product(a, b)   bc == Product(b, c)   left == Product(ab, c)   right == Product(a, bc)
<1>1. ab \in Matrix /\ bc \in Matrix /\ Identity \in Matrix
  BY ProductEntries DEF Identity, Matrix
<1>2. left \in Matrix /\ right \in Matrix
  <2> HIDE DEF ab, bc
  <2> QED BY <1>1, ProductEntries
<1>3. ASSUME NEW j \in 1 .. 3
      PROVE  Column(left, j) = Column(right, j)
  <2> DEFINE v == Column(c, j)
  <2>1. v \in Vector /\ Column(bc, j) = Apply(b, v)
    BY ProductColumn
  <2>2. Column(left, j) = Apply(ab, v)
    <3> HIDE DEF ab
    <3> QED BY <1>1, ProductColumn
  <2>3. Column(right, j) = Apply(a, Column(bc, j))
    <3> HIDE DEF bc
    <3> QED BY <1>1, ProductColumn
  <2>4. Apply(ab, v) = Apply(a, Apply(b, v))
    BY <2>1, ApplyProduct
  <2> QED BY <2>1, <2>2, <2>3, <2>4
<1>4. left = right
  <2> HIDE DEF left, right
  <2> QED BY <1>2, <1>3, ByColumns
<1>5. \A v \in Vector : Apply(Identity, v) = v
  BY DEF Apply, Identity, Vector
<1>6. Product(Identity, a) = a
  <2>1. Product(Identity, a) \in Matrix
    BY <1>1, ProductEntries
  <2>2. \A j \in 1 .. 3 : Column(Product(Identity, a), j) = Column(a, j)
    BY <1>1, <1>5, ProductColumn
  <2> QED BY <2>1, <2>2, ByColumns
<1>7. Product(a, Identity) = a
  <2>1. Product(a, Identity) \in Matrix
    BY <1>1, ProductEntries
  <2>2. ASSUME NEW j \in 1 .. 3
        PROVE  Column(Product(a, Identity), j) = Column(a, j)
    <3>1. j = 1 \/ j = 2 \/ j = 3
      OBVIOUS
    <3>2. Column(Product(a, Identity), j) = Apply(a, Column(Identity, j))
      BY <1>1, ProductColumn
    <3>3. \A i \in 1 .. 9 : a[i] \in Int
      BY DEF Matrix
    <3>4. Apply(a, Column(Identity, j)) = Column(a, j)
      BY <3>1, <3>3 DEF Apply, Column, Identity
    <3> QED BY <3>2, <3>4
  <2> QED BY <2>1, <2>2, ByColumns
<1> QED BY <1>1, <1>4, <1>5, <1>6, <1>7

(***************************************************************************)
(* Rigid motions: struct Rigid where IsRigid accepts it.                   *)
(***************************************************************************)
Bodies == {g \in Rigids : IsRigid(g)}
Unit == Rigid(Identity, Zero)
Act(g, v) == Plus(Apply(g.r, v), g.t)

(***************************************************************************)
(* They are closed under composition.                                      *)
(***************************************************************************)
LEMMA ComposeBody ==
  ASSUME NEW g \in Bodies, NEW h \in Bodies
  PROVE  Compose(g, h) \in Bodies
<1>1. /\ g.r \in Matrix /\ h.r \in Matrix /\ g.t \in Vector /\ h.t \in Vector
      /\ IsRotation(g.r) /\ IsRotation(h.r)
  BY DEF Bodies, Rigids, IsRigid
<1>2. Product(g.r, h.r) \in Matrix /\ IsRotation(Product(g.r, h.r))
  BY <1>1, ProductIsRotation
<1>3. Plus(Apply(g.r, h.t), g.t) \in Vector
  BY <1>1, ApplyLinear, VectorSums
<1> QED BY <1>2, <1>3 DEF Compose, Rigid, Bodies, Rigids, IsRigid

(***************************************************************************)
(* Composition is associative.                                             *)
(***************************************************************************)
LEMMA ComposeAssociative ==
  ASSUME NEW f \in Bodies, NEW g \in Bodies, NEW h \in Bodies
  PROVE  Compose(Compose(f, g), h) = Compose(f, Compose(g, h))
<1>1. /\ f.r \in Matrix /\ g.r \in Matrix /\ h.r \in Matrix
      /\ f.t \in Vector /\ g.t \in Vector /\ h.t \in Vector
  BY DEF Bodies, Rigids
<1>2. Product(Product(f.r, g.r), h.r) = Product(f.r, Product(g.r, h.r))
  BY <1>1, ProductAlgebra
<1> DEFINE u == Apply(g.r, h.t)
<1>3. /\ Apply(Product(f.r, g.r), h.t) = Apply(f.r, u) /\ u \in Vector
      /\ Apply(f.r, Plus(u, g.t)) = Plus(Apply(f.r, u), Apply(f.r, g.t))
      /\ Apply(f.r, u) \in Vector /\ Apply(f.r, g.t) \in Vector
  <2>1. Apply(Product(f.r, g.r), h.t) = Apply(f.r, u)
    BY <1>1, ApplyProduct
  <2>2. u \in Vector
    BY <1>1, ApplyLinear
  <2> HIDE DEF u
  <2>3. /\ Apply(f.r, Plus(u, g.t)) = Plus(Apply(f.r, u), Apply(f.r, g.t))
        /\ Apply(f.r, u) \in Vector /\ Apply(f.r, g.t) \in Vector
    BY <1>1, <2>2, ApplyLinear
  <2> QED BY <2>1, <2>2, <2>3
<1>4. Plus(Plus(Apply(f.r, u), Apply(f.r, g.t)), f.t) = Plus(Apply(f.r, u), Plus(Apply(f.r, g.t), f.t))
  BY <1>1, <1>3, VectorSums
<1>5. Compose(Compose(f, g), h) =
        Rigid(Product(Product(f.r, g.r), h.r), Plus(Apply(Product(f.r, g.r), h.t), Plus(Apply(f.r, g.t), f.t)))
  BY DEF Compose, Rigid
<1>6. Compose(f, Compose(g, h)) =
        Rigid(Product(f.r, Product(g.r, h.r)), Plus(Apply(f.r, Plus(u, g.t)), f.t))
  BY DEF Compose, Rigid
<1> QED BY <1>2, <1>3, <1>4, <1>5, <1>6

(***************************************************************************)
(* The unit of composition.                                                *)
(***************************************************************************)
LEMMA UnitLaws ==
  ASSUME NEW g \in Bodies
  PROVE  Unit \in Bodies /\ Compose(Unit, g) = g /\ Compose(g, Unit) = g
<1>1. g.r \in Matrix /\ g.t \in Vector /\ g = [r |-> g.r, t |-> g.t]
  BY DEF Bodies, Rigids
<1>2. /\ Identity \in Matrix /\ Product(Identity, g.r) = g.r /\ Product(g.r, Identity) = g.r
      /\ Apply(Identity, g.t) = g.t
  BY <1>1, ProductAlgebra
<1>3. Zero \in Vector /\ Plus(g.t, Zero) = g.t /\ Plus(Zero, g.t) = g.t /\ Apply(g.r, Zero) = Zero
  BY <1>1, VectorSums, ApplyLinear
<1>4. Compose(Unit, g) = [r |-> Product(Identity, g.r), t |-> Plus(Apply(Identity, g.t), Zero)]
  BY DEF Compose, Unit, Rigid
<1>5. Compose(g, Unit) = [r |-> Product(g.r, Identity), t |-> Plus(Apply(g.r, Zero), g.t)]
  BY DEF Compose, Unit, Rigid
<1>6. IsRotation(Identity)
  <2>1. ASSUME NEW i \in 1 .. 3, NEW j \in 1 .. 3
        PROVE  Dot(Column(Identity, i), Column(Identity, j)) = IF i = j THEN 1 ELSE 0
    <3>1. (i = 1 \/ i = 2 \/ i = 3) /\ (j = 1 \/ j = 2 \/ j = 3)
      OBVIOUS
    <3> QED BY <3>1 DEF Dot, Column, Identity
  <2>2. Det(Identity) = 1
    BY DEF Det, Identity
  <2> QED BY <1>2, <2>1, <2>2, RotationColumns
<1> QED BY <1>1, <1>2, <1>3, <1>4, <1>5, <1>6 DEF Unit, Rigid, Bodies, Rigids, IsRigid

(***************************************************************************)
(* Inverses are two-sided.                                                 *)
(***************************************************************************)
LEMMA InverseLaws ==
  ASSUME NEW g \in Bodies
  PROVE  /\ Inverted(g) \in Bodies
         /\ Compose(Inverted(g), g) = Unit /\ Compose(g, Inverted(g)) = Unit
<1> DEFINE t == Transpose(g.r)   w == Apply(t, g.t)
<1>1. g.r \in Matrix /\ g.t \in Vector /\ IsRotation(g.r)
  BY DEF Bodies, Rigids, IsRigid
<1>2. t \in Matrix /\ IsRotation(t)
  BY <1>1, TransposeIsRotation
<1>3. Product(t, g.r) = Identity /\ Product(g.r, t) = Identity
  <2>1. Transpose(t) = g.r
    <3>1. Transpose(t) \in Matrix
      BY <1>2, TransposeEntries
    <3>2. \A k \in 1 .. 9 : Transpose(t)[k] = g.r[k]
      <4> HIDE DEF t
      <4>1. /\ t[1] = g.r[1] /\ t[2] = g.r[4] /\ t[3] = g.r[7]
            /\ t[4] = g.r[2] /\ t[5] = g.r[5] /\ t[6] = g.r[8]
            /\ t[7] = g.r[3] /\ t[8] = g.r[6] /\ t[9] = g.r[9]
        BY <1>1, TransposeEntries DEF t
      <4>2. /\ Transpose(t)[1] = t[1] /\ Transpose(t)[2] = t[4] /\ Transpose(t)[3] = t[7]
            /\ Transpose(t)[4] = t[2] /\ Transpose(t)[5] = t[5] /\ Transpose(t)[6] = t[8]
            /\ Transpose(t)[7] = t[3] /\ Transpose(t)[8] = t[6] /\ Transpose(t)[9] = t[9]
        BY <1>2, TransposeEntries
      <4> QED BY <4>1, <4>2
    <3> QED BY <1>1, <3>1, <3>2 DEF Matrix
  <2> QED BY <1>1, <1>2, <2>1 DEF IsRotation
<1>4. w \in Vector /\ Minus(w) \in Vector
  BY <1>1, <1>2, ApplyLinear, VectorSums
<1>5. Inverted(g) = [r |-> t, t |-> Minus(w)]
  BY DEF Inverted, Rigid
<1> HIDE DEF t, w
<1>6. Plus(w, Minus(w)) = Zero
  BY <1>4, VectorSums
<1>7. Plus(Apply(g.r, Minus(w)), g.t) = Zero
  <2>1. Apply(g.r, Minus(w)) = Minus(Apply(g.r, w))
    BY <1>1, <1>4, ApplyLinear
  <2>2. Apply(g.r, w) = Apply(Product(g.r, t), g.t)
    BY <1>1, <1>2, ApplyProduct DEF w
  <2>3. Apply(Identity, g.t) = g.t
    BY <1>1, ProductAlgebra
  <2>4. Plus(Minus(g.t), g.t) = Zero
    BY <1>1, VectorSums
  <2> QED BY <1>3, <2>1, <2>2, <2>3, <2>4
<1>8. Compose(Inverted(g), g) = [r |-> Product(t, g.r), t |-> Plus(w, Minus(w))]
  BY <1>5 DEF Compose, Rigid, w
<1>9. Compose(g, Inverted(g)) = [r |-> Product(g.r, t), t |-> Plus(Apply(g.r, Minus(w)), g.t)]
  BY <1>5 DEF Compose, Rigid
<1> QED BY <1>2, <1>3, <1>4, <1>5, <1>6, <1>7, <1>8, <1>9 DEF Unit, Rigid, Bodies, Rigids, IsRigid

(***************************************************************************)
(* A composed motion acts as one motion after the other.                   *)
(***************************************************************************)
LEMMA ActCompose ==
  ASSUME NEW g \in Bodies, NEW h \in Bodies, NEW v \in Vector
  PROVE  Act(h, v) \in Vector /\ Act(Compose(g, h), v) = Act(g, Act(h, v))
<1>1. /\ g.r \in Matrix /\ h.r \in Matrix /\ g.t \in Vector /\ h.t \in Vector
  BY DEF Bodies, Rigids
<1> DEFINE u == Apply(h.r, v)
<1>2. u \in Vector /\ Plus(u, h.t) \in Vector
  BY <1>1, ApplyLinear, VectorSums
<1>3. Apply(Product(g.r, h.r), v) = Apply(g.r, u)
  BY <1>1, ApplyProduct
<1>4. Apply(g.r, Plus(u, h.t)) = Plus(Apply(g.r, u), Apply(g.r, h.t))
  BY <1>1, <1>2, ApplyLinear
<1>5. Apply(g.r, u) \in Vector /\ Apply(g.r, h.t) \in Vector
  BY <1>1, <1>2, ApplyLinear
<1> HIDE DEF u
<1>6. Plus(Plus(Apply(g.r, u), Apply(g.r, h.t)), g.t) = Plus(Apply(g.r, u), Plus(Apply(g.r, h.t), g.t))
  BY <1>1, <1>5, VectorSums
<1>7. Act(Compose(g, h), v) = Plus(Apply(Product(g.r, h.r), v), Plus(Apply(g.r, h.t), g.t))
  BY DEF Act, Compose, Rigid
<1> QED BY <1>2, <1>3, <1>4, <1>6, <1>7 DEF Act, u

(***************************************************************************)
(* The motion that one pose is, seen from another.                         *)
(***************************************************************************)
From(a, b) == Compose(Inverted(a), b)

(***************************************************************************)
(* A right inverse is the inverse.                                         *)
(***************************************************************************)
LEMMA InverseUnique ==
  ASSUME NEW g \in Bodies, NEW h \in Bodies, Compose(g, h) = Unit
  PROVE  Inverted(g) = h
<1> DEFINE i == Inverted(g)
<1>1. i \in Bodies /\ Compose(i, g) = Unit
  BY InverseLaws
<1> HIDE DEF i
<1>2. Compose(Compose(i, g), h) = Compose(i, Compose(g, h))
  BY <1>1, ComposeAssociative
<1>3. Compose(Unit, h) = h /\ Compose(i, Unit) = i
  BY <1>1, UnitLaws
<1> QED BY <1>1, <1>2, <1>3 DEF i

(***************************************************************************)
(* Relative poses compose along a chain and invert by swapping.            *)
(***************************************************************************)
LEMMA FromLaws ==
  ASSUME NEW a \in Bodies, NEW b \in Bodies, NEW c \in Bodies
  PROVE  /\ From(a, b) \in Bodies /\ From(a, a) = Unit
         /\ Compose(From(a, b), From(b, c)) = From(a, c)
         /\ Inverted(From(a, b)) = From(b, a)
         /\ From(a, Compose(a, b)) = b /\ Compose(a, From(a, b)) = b
         /\ From(Unit, a) = a
<1> DEFINE i == Inverted(a)   j == Inverted(b)
<1>1. /\ i \in Bodies /\ Compose(i, a) = Unit /\ Compose(a, i) = Unit
      /\ j \in Bodies /\ Compose(j, b) = Unit /\ Compose(b, j) = Unit
  BY InverseLaws
<1>2. From(a, b) = Compose(i, b) /\ From(b, c) = Compose(j, c) /\ From(b, a) = Compose(j, a)
      /\ From(a, c) = Compose(i, c) /\ From(a, a) = Compose(i, a)
      /\ From(a, Compose(a, b)) = Compose(i, Compose(a, b))
  BY DEF From
<1> HIDE DEF i, j
<1>3. /\ Compose(i, b) \in Bodies /\ Compose(j, c) \in Bodies /\ Compose(j, a) \in Bodies
  BY <1>1, ComposeBody
<1>4. \A h \in Bodies : Compose(b, Compose(j, h)) = h
  <2> SUFFICES ASSUME NEW h \in Bodies
               PROVE  Compose(b, Compose(j, h)) = h
    OBVIOUS
  <2>1. Compose(Compose(b, j), h) = Compose(b, Compose(j, h))
    BY <1>1, ComposeAssociative
  <2> QED BY <1>1, <2>1, UnitLaws
<1>5. Compose(Compose(i, b), Compose(j, c)) = Compose(i, c)
  <2>1. Compose(Compose(i, b), Compose(j, c)) = Compose(i, Compose(b, Compose(j, c)))
    BY <1>1, <1>3, ComposeAssociative
  <2> QED BY <1>4, <2>1
<1>6. Compose(Compose(i, b), Compose(j, a)) = Unit
  <2>1. Compose(Compose(i, b), Compose(j, a)) = Compose(i, Compose(b, Compose(j, a)))
    BY <1>1, <1>3, ComposeAssociative
  <2> QED BY <1>1, <1>4, <2>1
<1>7. Inverted(Compose(i, b)) = Compose(j, a)
  BY <1>3, <1>6, InverseUnique
<1>8. Compose(i, Compose(a, b)) = b
  <2>1. Compose(Compose(i, a), b) = Compose(i, Compose(a, b))
    BY <1>1, ComposeAssociative
  <2> QED BY <1>1, <2>1, UnitLaws
<1>9. Compose(a, Compose(i, b)) = b
  <2>1. Compose(Compose(a, i), b) = Compose(a, Compose(i, b))
    BY <1>1, ComposeAssociative
  <2> QED BY <1>1, <2>1, UnitLaws
<1>10. From(Unit, a) = a
  <2>1. Unit \in Bodies /\ Compose(Unit, Unit) = Unit /\ Compose(Unit, a) = a
    BY UnitLaws
  <2>2. Inverted(Unit) = Unit
    BY <2>1, InverseUnique
  <2> QED BY <2>1, <2>2 DEF From
<1> QED BY <1>1, <1>2, <1>3, <1>5, <1>7, <1>8, <1>9, <1>10

(***************************************************************************)
(* A transform stands for a motion: its quaternion for the rotation, its   *)
(* translation as it is.                                                   *)
(***************************************************************************)
Stands(e, g) == g \in Bodies /\ Turns(e.quaternion, g.r) /\ e.translation = g.t

(***************************************************************************)
(* The parts of a motion.                                                  *)
(***************************************************************************)
LEMMA BodyIs ==
  ASSUME NEW g \in Bodies
  PROVE  /\ g.r \in Matrix /\ g.t \in Vector /\ IsRotation(g.r) /\ g = [r |-> g.r, t |-> g.t]
BY DEF Bodies, Rigids, IsRigid

(***************************************************************************)
(* An edge that Added makes of a calibrated motion stands for it.          *)
(***************************************************************************)
LEMMA EdgeStands ==
  ASSUME NEW p, NEW c, NEW g \in Bodies
  PROVE  Stands(Edge(p, c, g.t, Quaternion(g.r)), g)
BY BodyIs, RotationQuaternion DEF Stands, Edge

(***************************************************************************)
(* The pose that PosesBelow starts from stands for the unit.               *)
(***************************************************************************)
LEMMA UnitStands ==
  ASSUME NEW f
  PROVE  Stands(Edge(f, f, Zero, <<0, 0, 0, 1>>), Unit)
<1> DEFINE q == <<0, 0, 0, 1>>
<1>1. Zero \in Vector /\ <<0, 0, 0>> \in Vector
  BY DEF Zero, Vector
<1>2. Unit \in Bodies
  <2>1. Rigid(BaseFromReference.r, Zero) \in Bodies
    BY <1>1, BaseIsRotation DEF Bodies, Rigids, Rigid, IsRigid
  <2> QED BY <2>1, UnitLaws
<1>3. Identity \in Matrix /\ IsRotation(Identity)
  BY <1>2, BodyIs DEF Unit, Rigid
<1>4. q \in [1 .. 4 -> -1 .. 1] /\ q[1] = 0 /\ q[2] = 0 /\ q[3] = 0 /\ q[4] = 1
  OBVIOUS
<1>5. Norm(q) = 1
  BY <1>4 DEF Norm
<1>6. \A k \in 1 .. 9 : Spun(q)[k] = Identity[k]
  BY DEF Spun, Identity
<1>7. Turns(q, Identity)
  BY <1>3, <1>4, <1>5, <1>6 DEF Turns, Quarters, Identity
<1> QED BY <1>2, <1>7 DEF Stands, Edge, Unit, Rigid

(***************************************************************************)
(* TransformPoint is the action of the motion.                             *)
(***************************************************************************)
LEMMA PointActs ==
  ASSUME NEW e, NEW g, Stands(e, g), NEW v \in Vector
  PROVE  TransformPoint(e, v) = Act(g, v)
BY RotateIs DEF Stands, TransformPoint, Act

(***************************************************************************)
(* ComposeTransforms composes the motions.                                 *)
(***************************************************************************)
LEMMA ComposeStands ==
  ASSUME NEW a, NEW g, Stands(a, g), NEW b, NEW h, Stands(b, h)
  PROVE  /\ Stands(ComposeTransforms(a, b), Compose(g, h))
         /\ ComposeTransforms(a, b).parent = a.parent /\ ComposeTransforms(a, b).child = b.child
<1>1. Compose(g, h) \in Bodies
  BY ComposeBody DEF Stands
<1>2. Turns(Multiply(a.quaternion, b.quaternion), Product(g.r, h.r))
  BY MultiplyTurns DEF Stands
<1>3. TransformPoint(a, b.translation) = Plus(Apply(g.r, h.t), g.t)
  <2>1. h.t \in Vector
    BY BodyIs DEF Stands
  <2> QED BY <2>1, PointActs DEF Act, Stands
<1> QED BY <1>1, <1>2, <1>3 DEF Stands, ComposeTransforms, Edge, Compose, Rigid

(***************************************************************************)
(* InverseTransform inverts the motion.                                    *)
(***************************************************************************)
LEMMA InverseStands ==
  ASSUME NEW e, NEW g, Stands(e, g)
  PROVE  /\ Stands(InverseTransform(e), Inverted(g))
         /\ InverseTransform(e).parent = e.child /\ InverseTransform(e).child = e.parent
<1> DEFINE q == Conjugate(e.quaternion)
<1>1. Inverted(g) \in Bodies /\ g.t \in Vector
  BY InverseLaws, BodyIs DEF Stands
<1>2. Turns(q, Transpose(g.r))
  BY ConjugateTurns DEF Stands
<1>3. InverseTransform(e) = Edge(e.child, e.parent, Minus(Rotate(q, e.translation)), q)
  BY DEF InverseTransform, Conjugate
<1> HIDE DEF q
<1>4. Rotate(q, e.translation) = Apply(Transpose(g.r), g.t)
  BY <1>1, <1>2, RotateIs DEF Stands
<1> QED BY <1>1, <1>2, <1>3, <1>4 DEF Stands, Edge, Inverted, Rigid

(***************************************************************************)
(* A transform stands for one motion.                                      *)
(***************************************************************************)
LEMMA OneBody ==
  ASSUME NEW e, NEW g, Stands(e, g), NEW h, Stands(e, h)
  PROVE  g = h
<1> DEFINE q == e.quaternion   n == Norm(q)
<1>1. q \in Quarters
  BY DEF Stands, Turns
<1>2. n = 1 \/ n = 2 \/ n = 4
  BY <1>1, QuarterFacts
<1>3. g.r \in Matrix /\ h.r \in Matrix /\ \A k \in 1 .. 9 : n * g.r[k] = n * h.r[k]
  BY DEF Stands, Turns
<1> HIDE DEF n
<1>4. \A k \in 1 .. 9 : g.r[k] = h.r[k]
  <2>1. \A k \in 1 .. 9 : g.r[k] \in Int /\ h.r[k] \in Int
    BY <1>3 DEF Matrix
  <2> QED BY <1>2, <1>3, <2>1
<1>5. g.r = h.r
  BY <1>3, <1>4 DEF Matrix
<1> QED BY <1>5, BodyIs DEF Stands

(***************************************************************************)
(* Two transforms that stand for one motion put the axes in one place,     *)
(* whatever the signs of their quaternions.                                *)
(***************************************************************************)
LEMMA SamePlacement ==
  ASSUME NEW d, NEW e, NEW g, Stands(d, g), Stands(e, g)
  PROVE  Placement(d) = Placement(e)
<1>1. \A i \in 1 .. 3 : Axes[i] \in Vector
  BY DEF Axes, Vector
<1>2. \A i \in 1 .. 3 : TransformPoint(d, Axes[i]) = TransformPoint(e, Axes[i])
  BY <1>1, PointActs
<1>3. d.translation = e.translation
  BY DEF Stands
<1> QED BY <1>2, <1>3 DEF Placement

(***************************************************************************)
(* An edge with a quaternion of these rotations stands for a motion.       *)
(***************************************************************************)
LEMMA QuarterStands ==
  ASSUME NEW p, NEW c, NEW t \in Vector, NEW q \in Quarters
  PROVE  \E g : Stands(Edge(p, c, t, q), g)
<1>1. PICK r : Turns(q, r)
  BY QuarterTurns
<1>2. Rigid(r, t) \in Bodies
  BY <1>1 DEF Turns, Bodies, Rigids, Rigid, IsRigid
<1>3. Stands(Edge(p, c, t, q), Rigid(r, t))
  BY <1>1, <1>2 DEF Stands, Edge, Rigid
<1> QED BY <1>3

(***************************************************************************)
(* One round of PosesBelow, and the function of all rounds.                *)
(***************************************************************************)
Level(known, edges) ==
  LET next == {e \in edges : e.parent \in DOMAIN known /\ e.child \notin DOMAIN known}
  IN  [f \in DOMAIN known \cup Children(next) |->
         IF f \in DOMAIN known THEN known[f]
         ELSE LET e == CHOOSE x \in next : x.child = f
              IN  ComposeTransforms(known[e.parent], e)]

IsPoses(h, edges, root, N) ==
  h = [n \in 0 .. N |-> IF n = 0 THEN [f \in {root} |-> Edge(root, root, Zero, <<0, 0, 0, 1>>)]
                        ELSE Level(h[n - 1], edges)]

(***************************************************************************)
(* That function exists: the recursion is over 0 .. N.                     *)
(***************************************************************************)
LEMMA PosesExist ==
  ASSUME NEW edges, NEW root, NEW N \in Nat
  PROVE  \E h : IsPoses(h, edges, root, N)
<1> DEFINE T == {m \in Nat : ~ \E h : IsPoses(h, edges, root, m)}
           start == [f \in {root} |-> Edge(root, root, Zero, <<0, 0, 0, 1>>)]
<1> SUFFICES ASSUME T # {}
             PROVE  FALSE
  OBVIOUS
<1>1. PICK x \in T : \A y \in T : x <= y
  BY LeastNatural
<1>2. CASE x = 0
  <2> DEFINE g == [n \in 0 .. 0 |-> start]
  <2>1. g = [n \in 0 .. 0 |-> IF n = 0 THEN start ELSE Level(g[n - 1], edges)]
    OBVIOUS
  <2>2. IsPoses(g, edges, root, 0)
    BY <2>1 DEF IsPoses
  <2> QED BY <1>2, <2>2
<1>3. CASE x # 0
  <2>1. x - 1 \in Nat /\ x - 1 \notin T
    BY <1>1, <1>3
  <2>2. PICK h : IsPoses(h, edges, root, x - 1)
    BY <2>1
  <2> DEFINE g == [n \in 0 .. x |-> IF n = 0 THEN start ELSE Level(h[n - 1], edges)]
  <2>3. ASSUME NEW n \in 0 .. x, n # 0
        PROVE  g[n - 1] = h[n - 1]
    <3>1. n - 1 \in 0 .. x /\ n - 1 \in 0 .. x - 1
      BY <2>3
    <3>2. h[n - 1] = IF n - 1 = 0 THEN start ELSE Level(h[(n - 1) - 1], edges)
      BY <2>2, <3>1, Zenon DEF IsPoses
    <3> QED BY <3>1, <3>2
  <2>4. g = [n \in 0 .. x |-> IF n = 0 THEN start ELSE Level(g[n - 1], edges)]
    BY <2>3
  <2>5. IsPoses(g, edges, root, x)
    BY <2>4 DEF IsPoses
  <2> QED BY <2>5
<1> QED BY <1>2, <1>3

(***************************************************************************)
(* Every frame has a pose, G, so that every edge stands for the pose of    *)
(* its child seen from its parent.                                         *)
(***************************************************************************)
Placed(G, edges) ==
  \A e \in edges : /\ G[e.parent] \in Bodies /\ G[e.child] \in Bodies
                   /\ Stands(e, From(G[e.parent], G[e.child]))

(***************************************************************************)
(* A round keeps the poses that it finds and adds right ones.              *)
(***************************************************************************)
LEMMA LevelPlaced ==
  ASSUME NEW edges, NEW root, NEW G, Placed(G, edges), G[root] \in Bodies, NEW known,
         DOMAIN known \subseteq {root} \cup Children(edges),
         \A f \in DOMAIN known : Stands(known[f], From(G[root], G[f]))
  PROVE  LET new == Level(known, edges)
         IN  /\ DOMAIN known \subseteq DOMAIN new
             /\ DOMAIN new \subseteq {root} \cup Children(edges)
             /\ \A e \in edges : e.parent \in DOMAIN known => e.child \in DOMAIN new
             /\ \A f \in DOMAIN new : Stands(new[f], From(G[root], G[f]))
<1> DEFINE new == Level(known, edges)
           next == {e \in edges : e.parent \in DOMAIN known /\ e.child \notin DOMAIN known}
<1>1. /\ DOMAIN new = DOMAIN known \cup Children(next)
      /\ \A f \in DOMAIN known : new[f] = known[f]
      /\ \A f \in Children(next) :
           f \notin DOMAIN known =>
             LET e == CHOOSE x \in next : x.child = f
             IN  new[f] = ComposeTransforms(known[e.parent], e)
  BY DEF Level
<1> HIDE DEF new
<1>2. DOMAIN new \subseteq {root} \cup Children(edges)
  BY <1>1 DEF Children
<1>3. \A e \in edges : e.parent \in DOMAIN known => e.child \in DOMAIN new
  BY <1>1 DEF Children
<1>4. ASSUME NEW f \in DOMAIN new
      PROVE  Stands(new[f], From(G[root], G[f]))
  <2>1. CASE f \in DOMAIN known
    BY <1>1, <2>1
  <2>2. CASE f \notin DOMAIN known
    <3> DEFINE e == CHOOSE x \in next : x.child = f
    <3>1. f \in Children(next)
      BY <1>1, <1>4, <2>2
    <3>2. e \in next /\ e.child = f
      BY <3>1 DEF Children
    <3>3. new[f] = ComposeTransforms(known[e.parent], e)
      BY <1>1, <2>2, <3>1
    <3> HIDE DEF e
    <3>4. /\ G[e.parent] \in Bodies /\ G[f] \in Bodies
          /\ Stands(e, From(G[e.parent], G[f]))
      BY <3>2 DEF Placed
    <3>5. Stands(known[e.parent], From(G[root], G[e.parent]))
      BY <3>2
    <3>6. Compose(From(G[root], G[e.parent]), From(G[e.parent], G[f])) = From(G[root], G[f])
      BY <3>4, FromLaws
    <3> QED BY <3>3, <3>4, <3>5, <3>6, ComposeStands
  <2> QED BY <2>1, <2>2
<1> QED BY <1>1, <1>2, <1>3, <1>4 DEF new

(***************************************************************************)
(* In an edge set whose frames have poses, PosesBelow finds each frame     *)
(* where it is, and every frame that is one or two edges below the root.   *)
(***************************************************************************)
LEMMA PosesPlaced ==
  ASSUME NEW edges, IsFiniteSet(edges), NEW root, NEW G, Placed(G, edges), G[root] \in Bodies
  PROVE  LET P == PosesBelow(edges, root)
         IN  /\ root \in DOMAIN P /\ DOMAIN P \subseteq {root} \cup Children(edges)
             /\ \A f \in DOMAIN P : Stands(P[f], From(G[root], G[f]))
             /\ \A e \in edges : e.parent = root => e.child \in DOMAIN P
             /\ \A d, e \in edges :
                  d # e /\ d.parent = root /\ e.parent = d.child => e.child \in DOMAIN P
<1> DEFINE N == Cardinality(edges)
           H == CHOOSE h : IsPoses(h, edges, root, N)
           R(n) == /\ root \in DOMAIN H[n] /\ DOMAIN H[n] \subseteq {root} \cup Children(edges)
                   /\ \A f \in DOMAIN H[n] : Stands(H[n][f], From(G[root], G[f]))
                   /\ n > 0 => \A e \in edges : e.parent = root => e.child \in DOMAIN H[n]
                   /\ n > 1 => \A d, e \in edges :
                        d.parent = root /\ e.parent = d.child => e.child \in DOMAIN H[n]
           T == {m \in Nat : m <= N /\ ~ R(m)}
<1>1. N \in Nat
  BY FS_CardinalityType
<1>2. PosesBelow(edges, root) = H[N]
  BY DEF PosesBelow, IsPoses, Level
<1>3. IsPoses(H, edges, root, N)
  BY <1>1, PosesExist
<1> HIDE DEF N, H
<1>4. \A n \in 0 .. N :
        H[n] = IF n = 0 THEN [f \in {root} |-> Edge(root, root, Zero, <<0, 0, 0, 1>>)]
               ELSE Level(H[n - 1], edges)
  BY <1>3, Zenon DEF IsPoses
<1>5. R(0)
  <2>1. H[0] = [f \in {root} |-> Edge(root, root, Zero, <<0, 0, 0, 1>>)]
    BY <1>1, <1>4
  <2>2. From(G[root], G[root]) = Unit
    BY FromLaws
  <2> QED BY <2>1, <2>2, UnitStands
<1>6. ASSUME NEW n \in 1 .. N, R(n - 1)
      PROVE  R(n)
  <2> DEFINE known == H[n - 1]   new == H[n]
  <2>1. n \in 0 .. N /\ n # 0
    BY <1>1
  <2>2. new = Level(known, edges)
    BY <1>4, <2>1
  <2>3. /\ root \in DOMAIN known /\ DOMAIN known \subseteq {root} \cup Children(edges)
        /\ \A f \in DOMAIN known : Stands(known[f], From(G[root], G[f]))
        /\ n > 1 => \A e \in edges : e.parent = root => e.child \in DOMAIN known
    BY <1>1, <1>6
  <2> HIDE DEF known, new
  <2>4. /\ DOMAIN known \subseteq DOMAIN new
        /\ DOMAIN new \subseteq {root} \cup Children(edges)
        /\ \A e \in edges : e.parent \in DOMAIN known => e.child \in DOMAIN new
        /\ \A f \in DOMAIN new : Stands(new[f], From(G[root], G[f]))
    BY <2>2, <2>3, LevelPlaced
  <2>5. \A e \in edges : e.parent = root => e.child \in DOMAIN new
    BY <2>3, <2>4
  <2>6. n > 1 => \A d, e \in edges :
          d.parent = root /\ e.parent = d.child => e.child \in DOMAIN new
    BY <2>3, <2>4
  <2> QED BY <2>3, <2>4, <2>5, <2>6 DEF new
<1>7. T = {}
  <2> SUFFICES ASSUME T # {}
               PROVE  FALSE
    OBVIOUS
  <2> HIDE DEF R
  <2>1. PICK x \in T : \A y \in T : x <= y
    BY LeastNatural
  <2>2. x \in 1 .. N /\ ~ R(x)
    BY <1>1, <1>5, <2>1
  <2>3. R(x - 1)
    BY <1>1, <2>1, <2>2
  <2> QED BY <1>6, <2>2, <2>3
<1>8. R(N)
  <2> HIDE DEF R
  <2> QED BY <1>1, <1>7
<1>9. \A e \in edges : N > 0
  BY <1>1, FS_EmptySet DEF N
<1>10. ASSUME NEW d \in edges, NEW e \in edges, d # e
       PROVE  N > 1
  <2>1. /\ IsFiniteSet(edges \ {d}) /\ Cardinality(edges \ {d}) = N - 1
        /\ e \in edges \ {d}
    BY <1>10, FS_RemoveElement DEF N
  <2>2. Cardinality(edges \ {d}) \in Nat /\ Cardinality(edges \ {d}) # 0
    BY <2>1, FS_EmptySet, FS_CardinalityType
  <2> QED BY <1>1, <2>1, <2>2
<1> QED BY <1>2, <1>8, <1>9, <1>10

(***************************************************************************)
(* As many edges as children: one edge for each child.                     *)
(***************************************************************************)
LEMMA OneEdgeEach ==
  ASSUME NEW edges, IsFiniteSet(edges)
  PROVE  Cardinality(Children(edges)) = Cardinality(edges)
           <=> \A d, e \in edges : d.child = e.child => d = e
<1> DEFINE childOf == [e \in edges |-> e.child]
<1>1. childOf \in Surjection(edges, Children(edges))
  BY DEF Surjection, Children
<1>2. Cardinality(Children(edges)) = Cardinality(edges) <=> childOf \in Injection(edges, Children(edges))
  BY <1>1, FS_Surjection
<1>3. childOf \in [edges -> Children(edges)]
  BY DEF Children
<1> QED BY <1>2, <1>3 DEF Injection, IsInjective

(***************************************************************************)
(* What the motion of an edge is made of, by its child: the IMU's          *)
(* extrinsic below livox_frame, the anchor's product for the device, the   *)
(* camera's own extrinsic for a camera; and a tree of such edges.          *)
(***************************************************************************)
MadeOf(lidar, rig, depth, f, g) ==
  /\ f = Livox => g = lidar.imu.rigid
  /\ DepthName(depth) /\ f = depth =>
       Usable(lidar, rig) /\ g = AnchorPose(lidar, Front(rig), AnchorOf(lidar, rig))
  /\ rig # None => \A i \in DOMAIN rig.cameras :
       f = RawCameraFrameId(rig.cameras[i].id) => g = Compose(BaseFromReference, rig.cameras[i].rigid)

Made(e, lidar, rig, depth) ==
  ValidTransform(e) /\ \E g : Stands(e, g) /\ MadeOf(lidar, rig, depth, e.child, g)

MadeTree(t, lidar, rig, depth) == IsTree(t) /\ \A e \in t.edges : Made(e, lidar, rig, depth)

(***************************************************************************)
(* A diagnostic changes no edge.                                           *)
(***************************************************************************)
LEMMA DiagnosedMade ==
  ASSUME NEW t, NEW lidar, NEW rig, NEW depth, MadeTree(t, lidar, rig, depth), NEW what
  PROVE  MadeTree(Diagnosed(t, what), lidar, rig, depth)
BY DEF Diagnosed, IsTree, MadeTree

(***************************************************************************)
(* Adding an edge made of the right motion keeps the tree made.            *)
(***************************************************************************)
LEMMA AddedMade ==
  ASSUME NEW t, NEW lidar, NEW rig, NEW depth, MadeTree(t, lidar, rig, depth),
         NEW p, NEW c, NEW g \in Rigids, IsRigid(g) => MadeOf(lidar, rig, depth, c, g)
  PROVE  MadeTree(Added(t, p, c, g), lidar, rig, depth)
<1> DEFINE edge == Edge(p, c, g.t, Quaternion(g.r))
           a == Added(t, p, c, g)
<1>1. CASE \E what : a = Diagnosed(t, what)
  BY <1>1, DiagnosedMade
<1>2. CASE IsRigid(g) /\ ValidTransform(edge) /\ a = [t EXCEPT !.edges = @ \cup {edge}]
  <2>1. IsTree(a) /\ a.edges = t.edges \cup {edge}
    BY <1>2 DEF IsTree, MadeTree
  <2>2. Stands(edge, g) /\ edge.child = c
    BY <1>2, EdgeStands DEF Bodies, Edge
  <2>3. Made(edge, lidar, rig, depth)
    BY <1>2, <2>2 DEF Made
  <2> QED BY <2>1, <2>3 DEF MadeTree
<1> QED BY <1>1, <1>2 DEF Added

(***************************************************************************)
(* The IMU pair is made of the IMU's extrinsic.                            *)
(***************************************************************************)
LEMMA ImuBranchMade ==
  ASSUME NEW t, IsTree(t), t.edges = {}, NEW lidar, NEW rig, NEW depth,
         HasImu(lidar) => lidar.imu.rigid \in Rigids,
         rig # None => \A i \in DOMAIN rig.cameras : rig.cameras[i].id \in Ids
  PROVE  MadeTree(ImuBranch(t, lidar), lidar, rig, depth)
<1>1. MadeTree(t, lidar, rig, depth)
  BY DEF MadeTree
<1>2. Imu # Livox /\ ~ IsCameraFrame(Imu) /\ ~ IsCameraFrame(Livox)
  BY FramesAssumption DEF Imu, Livox
<1>3. rig # None => \A i \in DOMAIN rig.cameras : IsCameraFrame(RawCameraFrameId(rig.cameras[i].id))
  BY DEF IsCameraFrame
<1>4. DepthName(depth) => depth # Imu /\ depth # Livox
  BY DEF DepthName
<1>5. Rigid(Identity, Zero) \in Rigids
  BY DEF Rigid, Rigids, Matrix, Vector, Identity, Zero
<1>6. MadeOf(lidar, rig, depth, Imu, Rigid(Identity, Zero))
  BY <1>2, <1>3, <1>4 DEF MadeOf
<1>7. MadeOf(lidar, rig, depth, Livox, lidar.imu.rigid)
  BY <1>2, <1>3, <1>4 DEF MadeOf
<1>8. CASE HasImu(lidar)
  <2> DEFINE one == Added(t, Aft, Imu, Rigid(Identity, Zero))
  <2>1. MadeTree(one, lidar, rig, depth)
    BY <1>1, <1>5, <1>6, AddedMade
  <2> HIDE DEF one
  <2>2. MadeTree(Added(one, Aft, Livox, lidar.imu.rigid), lidar, rig, depth)
    BY <1>7, <1>8, <2>1, AddedMade
  <2> QED BY <1>8, <2>2 DEF ImuBranch, one
<1>9. CASE ~ HasImu(lidar)
  BY <1>1, <1>9, DiagnosedMade DEF ImuBranch
<1> QED BY <1>8, <1>9

(***************************************************************************)
(* The anchor's product of motions is one.                                 *)
(***************************************************************************)
LEMMA AnchorPoseBody ==
  ASSUME NEW lidar, NEW front, NEW anchor,
         lidar.imu.rigid \in Bodies, front.rigid \in Bodies, anchor.rigid \in Bodies
  PROVE  AnchorPose(lidar, front, anchor) \in Bodies
<1>1. BaseFromReference \in Bodies
  <2>1. Zero \in Vector
    BY DEF Zero, Vector
  <2> QED BY <2>1, BaseIsRotation DEF BaseFromReference, Rigid, Bodies, Rigids, IsRigid
<1> QED BY <1>1, ComposeBody, InverseLaws DEF AnchorPose

(***************************************************************************)
(* The device's edge is made of the anchor's product.                      *)
(***************************************************************************)
LEMMA AnchorBranchMade ==
  ASSUME NEW t, NEW lidar, NEW rig, NEW depth, MadeTree(t, lidar, rig, depth), DepthName(depth),
         rig # None => \A i \in DOMAIN rig.cameras : rig.cameras[i].id \in Ids,
         Usable(lidar, rig) => /\ lidar.imu.rigid \in Rigids /\ Front(rig).rigid \in Rigids
                               /\ AnchorOf(lidar, rig).rigid \in Rigids
  PROVE  MadeTree(AnchorBranch(t, lidar, rig, depth), lidar, rig, depth)
<1> DEFINE pose == AnchorPose(lidar, Front(rig), AnchorOf(lidar, rig))
           added == IF Usable(lidar, rig) THEN Added(t, Aft, depth, pose) ELSE t
           a == AnchorBranch(t, lidar, rig, depth)
           missing == Diagnosed(added, "missing_or_invalid_front_anchor_or_rig")
<1>1. a = IF depth \in Children(added.edges) THEN added ELSE missing
  BY Zenon DEF AnchorBranch, Usable, AnchorOf
<1>2. MadeTree(added, lidar, rig, depth)
  <2>1. CASE ~ Usable(lidar, rig)
    BY <2>1
  <2>2. CASE Usable(lidar, rig)
    <3>1. pose \in Rigids
      <4>1. /\ lidar.imu.rigid \in Bodies /\ Front(rig).rigid \in Bodies
            /\ AnchorOf(lidar, rig).rigid \in Bodies
        BY <2>2 DEF Usable, Anchorable, HasImu, ImuNominal, Bodies
      <4> QED BY <4>1, AnchorPoseBody DEF Bodies
    <3>2. /\ depth # Livox
          /\ rig # None => \A i \in DOMAIN rig.cameras : depth # RawCameraFrameId(rig.cameras[i].id)
      BY DEF DepthName, IsCameraFrame
    <3>3. MadeOf(lidar, rig, depth, depth, pose)
      BY <2>2, <3>2 DEF MadeOf
    <3> HIDE DEF pose
    <3> QED BY <2>2, <3>1, <3>3, AddedMade
  <2> QED BY <2>1, <2>2
<1> HIDE DEF added
<1> QED BY <1>1, <1>2, DiagnosedMade

(***************************************************************************)
(* Each camera's edge is made of that camera's extrinsic, over the whole   *)
(* loop.                                                                   *)
(***************************************************************************)
LEMMA CameraBranchesMade ==
  ASSUME NEW t, NEW lidar, NEW rig, NEW depth, MadeTree(t, lidar, rig, depth), DepthName(depth),
         rig # None =>
           /\ IsList(rig.cameras)
           /\ \A i \in DOMAIN rig.cameras :
                rig.cameras[i].id \in Ids /\ rig.cameras[i].rigid \in Rigids
  PROVE  MadeTree(CameraBranches(t, rig, depth), lidar, rig, depth)
<1> DEFINE N == Len(rig.cameras)
           H == CHOOSE h : IsBranches(h, t, rig, depth, N)
           a == CameraBranches(t, rig, depth)
           distinct == /\ Distinct([i \in DOMAIN rig.cameras |-> rig.cameras[i].id])
                       /\ Distinct([i \in DOMAIN rig.cameras |-> rig.cameras[i].role])
<1>1. CASE rig = None \/ ~ distinct
  <2>1. \E what : a = Diagnosed(t, what)
    BY <1>1 DEF CameraBranches
  <2> QED BY <2>1, DiagnosedMade
<1>2. CASE rig # None /\ distinct
  <2>1. /\ N \in Nat /\ DOMAIN rig.cameras = 1 .. N
        /\ \A i \in DOMAIN rig.cameras : rig.cameras[i].id \in Ids /\ rig.cameras[i].rigid \in Rigids
    BY <1>2 DEF IsList
  <2>2. \A i, k \in DOMAIN rig.cameras : rig.cameras[i].id = rig.cameras[k].id => i = k
    BY <1>2 DEF Distinct
  <2>3. a = H[N]
    BY <1>2 DEF CameraBranches, IsBranches
  <2>4. IsBranches(H, t, rig, depth, N)
    BY <2>1, BranchesExist
  <2> HIDE DEF H, N
  <2> DEFINE P(n) == MadeTree(H[n], lidar, rig, depth)
             T == {m \in Nat : m <= N /\ ~ P(m)}
  <2>5. \A n \in 0 .. N :
          H[n] = IF n = 0 THEN t ELSE CameraBranch(H[n - 1], rig.cameras[n], depth)
    BY <2>4, Zenon DEF IsBranches
  <2>6. P(0)
    BY <2>1, <2>5
  <2>7. ASSUME NEW n \in 1 .. N, P(n - 1)
        PROVE  P(n)
    <3> DEFINE before == H[n - 1]   camera == rig.cameras[n]
               f == RawCameraFrameId(camera.id)   pose == Compose(BaseFromReference, camera.rigid)
    <3>1. n \in 0 .. N /\ n # 0 /\ n \in DOMAIN rig.cameras
      BY <2>1
    <3>2. H[n] = CameraBranch(before, camera, depth)
      BY <2>5, <3>1
    <3>3. MadeTree(before, lidar, rig, depth)
      BY <2>7
    <3>4. CASE SoundCamera(camera)
      <4>1. pose \in Rigids
        <5>1. camera.rigid \in Bodies
          BY <2>1, <3>1, <3>4 DEF Bodies, SoundCamera
        <5>2. Zero \in Vector
          BY DEF Zero, Vector
        <5>3. BaseFromReference \in Bodies
          BY <5>2, BaseIsRotation DEF BaseFromReference, Rigid, Bodies, Rigids, IsRigid
        <5> QED BY <5>1, <5>3, ComposeBody DEF Bodies
      <4>2. MadeOf(lidar, rig, depth, f, pose)
        <5>1. IsCameraFrame(f)
          BY <2>1, <3>1 DEF IsCameraFrame
        <5>2. f # Livox /\ f # depth
          BY <5>1, FramesAssumption DEF DepthName
        <5>3. \A i \in DOMAIN rig.cameras : f = RawCameraFrameId(rig.cameras[i].id) => i = n
          BY <2>1, <2>2, <3>1, FramesAssumption
        <5> QED BY <5>2, <5>3 DEF MadeOf
      <4>3. H[n] = Added(before, depth, f, pose)
        BY <3>2, <3>4 DEF CameraBranch, SoundCamera
      <4> HIDE DEF before, f, pose
      <4> QED BY <3>3, <4>1, <4>2, <4>3, AddedMade
    <3>5. CASE ~ SoundCamera(camera)
      <4>1. H[n] = Diagnosed(before, "invalid_camera")
        BY <3>2, <3>5 DEF CameraBranch, SoundCamera
      <4> HIDE DEF before
      <4> QED BY <3>3, <4>1, DiagnosedMade
    <3> QED BY <3>4, <3>5
  <2>8. T = {}
    <3> SUFFICES ASSUME T # {}
                 PROVE  FALSE
      OBVIOUS
    <3> HIDE DEF P
    <3>1. PICK x \in T : \A y \in T : x <= y
      BY LeastNatural
    <3>2. x \in 1 .. N /\ ~ P(x)
      BY <2>1, <2>6, <3>1
    <3>3. P(x - 1)
      BY <2>1, <3>1, <3>2
    <3> QED BY <2>7, <3>2, <3>3
  <2>9. P(N)
    <3> HIDE DEF P
    <3> QED BY <2>1, <2>8
  <2> QED BY <2>3, <2>9
<1> QED BY <1>1, <1>2

(***************************************************************************)
(* All edges that LoadSensorTransforms returns are valid and made of the   *)
(* calibration; a device that has an edge was anchored without ambiguity.  *)
(***************************************************************************)
LEMMA LoadMade ==
  ASSUME NEW j \in Jobs, NEW depth
  PROVE  LET c == j.calibration
             lidar == LidarOf(c)
             edges == LoadSensorTransforms(c, depth).edges
         IN  /\ \A e \in edges : Made(e, lidar, c.rig, depth)
             /\ HasImu(lidar) => {Imu, Livox} \subseteq Children(edges)
             /\ DepthName(depth) /\ depth \in Children(edges) => Ambiguity(lidar, c.rig) = None
<1> DEFINE c == j.calibration
           lidar == LidarOf(c)
           start == IF c.rig # None /\ Len(c.rig.cameras) # 4
                      THEN Diagnosed(EmptyTree, "incomplete_camera_rig") ELSE EmptyTree
           imu == ImuBranch(start, lidar)
           compared == IF Compatible(lidar, c.rig) THEN imu
                       ELSE Diagnosed(imu, "camera_calibration_hash_mismatch")
           anchored == AnchorBranch(compared, lidar, c.rig, depth)
           cameras == CameraBranches(anchored, c.rig, depth)
           built == IF ~DepthName(depth) THEN Diagnosed(imu, "invalid_depth_frame")
                    ELSE IF Ambiguity(lidar, c.rig) # None
                      THEN Diagnosed(compared, Ambiguity(lidar, c.rig))
                    ELSE cameras
<1>1. IsTree(start) /\ start.edges = {}
  BY DEF EmptyTree, Diagnosed, IsTree
<1>2. c.rig # None =>
        /\ IsList(c.rig.cameras)
        /\ \A i \in DOMAIN c.rig.cameras :
             c.rig.cameras[i].id \in Ids /\ c.rig.cameras[i].rigid \in Rigids
  BY CalibrationAssumption
<1>3. HasImu(lidar) => lidar.imu.rigid \in Rigids
  BY LidarFacts, CalibrationAssumption DEF HasImu, ImuNominal
<1>4. Usable(lidar, c.rig) => /\ lidar.imu.rigid \in Rigids /\ Front(c.rig).rigid \in Rigids
                              /\ AnchorOf(lidar, c.rig).rigid \in Rigids
  <2> SUFFICES ASSUME Usable(lidar, c.rig)
               PROVE  /\ lidar.imu.rigid \in Rigids /\ Front(c.rig).rigid \in Rigids
                      /\ AnchorOf(lidar, c.rig).rigid \in Rigids
    OBVIOUS
  <2>1. /\ lidar # None /\ c.rig # None /\ HasImu(lidar) /\ FrontsOf(c.rig) # {}
        /\ AnchorsFor(lidar, Front(c.rig)) # {}
    BY DEF Usable, Anchorable, HasImu
  <2>2. \E i \in DOMAIN c.rig.cameras : Front(c.rig) = c.rig.cameras[i]
    BY <2>1 DEF Front, FrontsOf
  <2>3. \E i \in DOMAIN lidar.extrinsics : AnchorOf(lidar, c.rig) = lidar.extrinsics[i]
    BY <2>1 DEF AnchorOf, AnchorsFor
  <2>4. \A i \in DOMAIN lidar.extrinsics : lidar.extrinsics[i].rigid \in Rigids
    BY <2>1, LidarFacts, CalibrationAssumption DEF Standing
  <2> QED BY <1>2, <1>3, <2>1, <2>2, <2>3, <2>4
<1> HIDE DEF start, lidar
<1>5. /\ MadeTree(imu, lidar, c.rig, depth)
      /\ IsTree(imu) /\ Star(imu.edges, depth) /\ Children(imu.edges) \subseteq {Imu, Livox}
      /\ HasImu(lidar) => {Imu, Livox} \subseteq Children(imu.edges)
  <2>1. MadeTree(imu, lidar, c.rig, depth)
    BY <1>1, <1>2, <1>3, ImuBranchMade
  <2>2. HasImu(lidar) => lidar.imu.rigid.r \in Matrix
    BY <1>3 DEF Rigids
  <2> QED BY <1>1, <2>1, <2>2, ImuBranchGrown DEF Grown
<1> HIDE DEF imu
<1>6. /\ IsTree(compared) /\ compared.edges = imu.edges
      /\ MadeTree(compared, lidar, c.rig, depth)
  BY <1>5, DiagnosedGrown, DiagnosedMade DEF Grown
<1> HIDE DEF compared
<1>7. ASSUME DepthName(depth)
      PROVE  Grown(anchored, compared, depth) /\ MadeTree(anchored, lidar, c.rig, depth)
             /\ Children(anchored.edges) \subseteq {Imu, Livox, depth}
  <2>1. MadeTree(anchored, lidar, c.rig, depth)
    BY <1>2, <1>4, <1>6, <1>7, AnchorBranchMade
  <2> QED BY <1>5, <1>6, <1>7, <2>1, AnchorBranchGrown
<1> HIDE DEF anchored
<1>8. ASSUME DepthName(depth)
      PROVE  Grown(cameras, anchored, depth) /\ MadeTree(cameras, lidar, c.rig, depth)
  <2>1. MadeTree(cameras, lidar, c.rig, depth)
    BY <1>2, <1>7, <1>8, CameraBranchesMade
  <2>2. c.rig # None => \A i \in DOMAIN c.rig.cameras : c.rig.cameras[i].rigid.r \in Matrix
    BY <1>2 DEF Rigids
  <2> QED BY <1>2, <1>7, <1>8, <2>1, <2>2, CameraBranchesGrown DEF Grown
<1> HIDE DEF cameras
<1>9. /\ MadeTree(built, lidar, c.rig, depth) /\ IsTree(built)
      /\ Children(imu.edges) \subseteq Children(built.edges)
      /\ DepthName(depth) /\ depth \in Children(built.edges) => Ambiguity(lidar, c.rig) = None
  <2>1. CASE ~ DepthName(depth)
    BY <1>5, <2>1, DiagnosedGrown, DiagnosedMade DEF Grown
  <2>2. CASE DepthName(depth) /\ Ambiguity(lidar, c.rig) # None
    <3>1. built = Diagnosed(compared, Ambiguity(lidar, c.rig))
      BY <2>2
    <3>2. built.edges = imu.edges /\ IsTree(built) /\ MadeTree(built, lidar, c.rig, depth)
      BY <1>5, <1>6, <3>1, DiagnosedGrown, DiagnosedMade DEF Grown
    <3>3. depth \notin Children(imu.edges)
      BY <1>5, <2>2 DEF DepthName
    <3> HIDE DEF built
    <3> QED BY <3>2, <3>3
  <2>3. CASE DepthName(depth) /\ Ambiguity(lidar, c.rig) = None
    <3>1. built = cameras
      BY <2>3
    <3> HIDE DEF built
    <3> QED BY <1>5, <1>6, <1>7, <1>8, <2>3, <3>1 DEF Grown
  <2> QED BY <2>1, <2>2, <2>3
<1>10. LoadSensorTransforms(c, depth).edges = built.edges
  BY <1>9, LoadIs DEF lidar, start, imu, compared, anchored, cameras
<1> HIDE DEF built
<1> QED BY <1>5, <1>9, <1>10 DEF lidar, MadeTree

(***************************************************************************)
(* The edges of a device tree place its frames: aft_mapped at the origin,  *)
(* the device by its anchor, the cameras below the device.                 *)
(***************************************************************************)
LEMMA TreePlaced ==
  ASSUME NEW edges, NEW depth, Star(edges, depth), DepthName(depth),
         \A e \in edges : \E g : Stands(e, g)
  PROVE  \E G : /\ Placed(G, edges) /\ G[Aft] = Unit /\ G[depth] \in Bodies
                /\ \A e \in edges : e.parent = Aft => Stands(e, G[e.child])
<1> DEFINE B(f) == CHOOSE g : \E e \in edges : e.child = f /\ Stands(e, g)
           D == IF depth \in Children(edges) THEN B(depth) ELSE Unit
           G == [f \in {Aft, depth} \cup Children(edges) |->
                   IF f = Aft THEN Unit ELSE IF f = depth THEN D
                   ELSE IF IsCameraFrame(f) THEN Compose(D, B(f)) ELSE B(f)]
<1>1. \A d, e \in edges : d.child = e.child => d = e
  BY OneEdgeEach DEF Star
<1>2. ASSUME NEW e \in edges
      PROVE  Stands(e, B(e.child)) /\ B(e.child) \in Bodies /\ e.child \in Children(edges)
  <2>1. \E g : \E d \in edges : d.child = e.child /\ Stands(d, g)
    OBVIOUS
  <2>2. \E d \in edges : d.child = e.child /\ Stands(d, B(e.child))
    BY <2>1
  <2> HIDE DEF B
  <2> QED BY <1>1, <2>2 DEF Stands, Children
<1>3. Unit \in Bodies
  BY UnitStands DEF Stands
<1>4. D \in Bodies
  <2> HIDE DEF B
  <2> QED BY <1>2, <1>3 DEF Children
<1>5. /\ Aft # Imu /\ Aft # Livox /\ ~ IsCameraFrame(Aft) /\ ~ IsCameraFrame(Imu)
      /\ ~ IsCameraFrame(Livox) /\ ~ IsCameraFrame(depth)
      /\ depth # Aft /\ depth # Imu /\ depth # Livox
  BY FramesAssumption DEF Aft, Imu, Livox, DepthName
<1> HIDE DEF B, D
<1>6. /\ G[Aft] = Unit /\ G[depth] = D
      /\ \A f \in Children(edges) : IsCameraFrame(f) => G[f] = Compose(D, B(f))
      /\ \A f \in Children(edges) : ~ IsCameraFrame(f) /\ f # Aft /\ f # depth => G[f] = B(f)
  BY <1>5
<1> HIDE DEF G
<1>7. ASSUME NEW e \in edges, e.parent = Aft
      PROVE  Stands(e, G[e.child])
  <2>1. e.child \in {Imu, Livox, depth}
    BY <1>5, <1>7 DEF Star, Kind
  <2>2. CASE e.child = depth
    BY <1>2, <1>6, <2>2 DEF D
  <2>3. CASE e.child # depth
    BY <1>2, <1>5, <1>6, <2>1, <2>3
  <2> QED BY <2>2, <2>3
<1>8. ASSUME NEW e \in edges
      PROVE  /\ G[e.parent] \in Bodies /\ G[e.child] \in Bodies
             /\ Stands(e, From(G[e.parent], G[e.child]))
  <2>1. CASE e.parent = Aft
    <3>1. Stands(e, G[e.child]) /\ G[e.child] \in Bodies
      BY <1>7, <2>1 DEF Stands
    <3> QED BY <1>3, <1>6, <2>1, <3>1, FromLaws
  <2>2. CASE e.parent # Aft
    <3>1. e.parent = depth /\ IsCameraFrame(e.child)
      BY <2>2 DEF Star, Kind
    <3>2. G[e.child] = Compose(D, B(e.child)) /\ G[depth] = D
      BY <1>2, <1>6, <3>1
    <3>3. G[e.child] \in Bodies
      BY <1>2, <1>4, <3>2, ComposeBody
    <3>4. From(G[depth], G[e.child]) = B(e.child)
      BY <1>2, <1>4, <3>2, FromLaws
    <3> QED BY <1>2, <1>4, <3>1, <3>2, <3>3, <3>4
  <2> QED BY <2>1, <2>2
<1>9. Placed(G, edges)
  BY <1>8 DEF Placed
<1> QED BY <1>4, <1>6, <1>7, <1>9

(***************************************************************************)
(* Two elements of a set that has at most one are the same.                *)
(***************************************************************************)
LEMMA AtMostOne ==
  ASSUME NEW S, IsFiniteSet(S), ~ (Cardinality(S) > 1), NEW x \in S, NEW y \in S
  PROVE  x = y
<1> SUFFICES ASSUME x # y
             PROVE  FALSE
  OBVIOUS
<1>1. /\ IsFiniteSet(S \ {x}) /\ Cardinality(S \ {x}) = Cardinality(S) - 1
  BY FS_RemoveElement
<1>2. Cardinality(S \ {x}) \in Nat /\ Cardinality(S \ {x}) # 0 /\ Cardinality(S) \in Nat
  BY <1>1, FS_EmptySet, FS_CardinalityType
<1> QED BY <1>1, <1>2

(***************************************************************************)
(* The extrinsic that AnchorBranch chose is the only one that names the    *)
(* front camera.                                                           *)
(***************************************************************************)
LEMMA OneAnchor ==
  ASSUME NEW j \in Jobs, Usable(LidarOf(j.calibration), j.calibration.rig),
         Ambiguity(LidarOf(j.calibration), j.calibration.rig) = None
  PROVE  LET c == j.calibration
             front == Front(c.rig)
         IN  AnchorOf(LidarOf(c), c.rig)
               = CHOOSE e \in Range(c.json.extrinsics) : Recovered(e) /\ e.id = front.id
<1> DEFINE c == j.calibration
           lidar == LidarOf(c)
           front == Front(c.rig)
           S == Extrinsics(c, front.id)
           n == CHOOSE i \in AnchorsFor(lidar, front) : TRUE
           E == CHOOSE e \in Range(c.json.extrinsics) : Recovered(e) /\ e.id = front.id
<1>1. /\ lidar # None /\ Anchorable(lidar, c.rig) /\ FrontsOf(c.rig) # {} /\ front.full
      /\ AnchorsFor(lidar, front) # {}
  BY DEF Usable, Anchorable, HasImu
<1>2. /\ AnchorsFor(lidar, front) = S /\ c.json # None
      /\ DOMAIN lidar.extrinsics = Standing(c.json.extrinsics)
      /\ \A i \in Standing(c.json.extrinsics) : lidar.extrinsics[i] = c.json.extrinsics[i]
  BY <1>1, AnchorsAreExtrinsics, LidarFacts
<1>3. ~ (Cardinality(S) > 1)
  BY <1>1, <1>2, NoneAssumption DEF Ambiguity
<1>4. IsFiniteSet(S)
  <2>1. IsList(c.json.extrinsics)
    BY <1>2, CalibrationAssumption
  <2>2. IsFiniteSet(DOMAIN c.json.extrinsics)
    BY <2>1, FS_Interval DEF IsList
  <2>3. S \subseteq DOMAIN c.json.extrinsics
    BY DEF Extrinsics
  <2> QED BY <2>2, <2>3, FS_Subset
<1>5. n \in S
  BY <1>1, <1>2
<1>6. AnchorOf(lidar, c.rig) = c.json.extrinsics[n] /\ n \in DOMAIN c.json.extrinsics
  BY <1>2, <1>5 DEF AnchorOf, Extrinsics, Standing
<1> HIDE DEF n, lidar
<1>7. Recovered(c.json.extrinsics[n]) /\ c.json.extrinsics[n].id = front.id
  BY <1>5 DEF Extrinsics
<1>8. E \in Range(c.json.extrinsics) /\ Recovered(E) /\ E.id = front.id
  BY <1>6, <1>7 DEF Range
<1>9. PICK k \in DOMAIN c.json.extrinsics : E = c.json.extrinsics[k]
  BY <1>8 DEF Range
<1>10. k \in S
  BY <1>8, <1>9 DEF Extrinsics
<1>11. k = n
  BY <1>3, <1>4, <1>5, <1>10, AtMostOne
<1> QED BY <1>6, <1>9, <1>11 DEF lidar

(***************************************************************************)
(* Along the tree of a device that is anchored, a LiDAR point comes to the *)
(* front camera where that camera's LiDAR extrinsic puts it: the product   *)
(* of all edges cancels to that one motion.                                *)
(***************************************************************************)
LEMMA FrontAgrees ==
  ASSUME NEW j \in Jobs, NEW depth, DepthName(depth),
         depth \in Children(LoadSensorTransforms(j.calibration, depth).edges)
  PROVE  LET c == j.calibration
             poses == PosesBelow(LoadSensorTransforms(c, depth).edges, Aft)
             front == Front(c.rig)
             anchor == CHOOSE e \in Range(c.json.extrinsics) : Recovered(e) /\ e.id = front.id
         IN  RawCameraFrameId(front.id) \in DOMAIN poses =>
               \A p \in Vector :
                 TransformPoint(InverseTransform(poses[RawCameraFrameId(front.id)]),
                                TransformPoint(poses[Livox], p))
                   = Plus(Apply(anchor.rigid.r, p), anchor.rigid.t)
<1> DEFINE c == j.calibration
           lidar == LidarOf(c)
           rig == c.rig
           edges == LoadSensorTransforms(c, depth).edges
           poses == PosesBelow(edges, Aft)
           front == Front(rig)
           anchor == AnchorOf(lidar, rig)
           f == RawCameraFrameId(front.id)
           I == lidar.imu.rigid
           A == anchor.rigid
           BF == Compose(BaseFromReference, front.rigid)
           K == Compose(BF, A)
<1>1. /\ Star(edges, depth) /\ \A e \in edges : Made(e, lidar, rig, depth)
      /\ HasImu(lidar) => {Imu, Livox} \subseteq Children(edges)
      /\ Ambiguity(lidar, rig) = None
  BY TreeFacts, LoadMade
<1>2. rig # None => \A i \in DOMAIN rig.cameras : rig.cameras[i].id \in Ids
  BY CalibrationAssumption
<1> HIDE DEF edges
<1>3. PICK G : /\ Placed(G, edges) /\ G[Aft] = Unit /\ G[depth] \in Bodies
               /\ \A e \in edges : e.parent = Aft => Stands(e, G[e.child])
  BY <1>1, TreePlaced DEF Made
<1>4. /\ Aft # Imu /\ Aft # Livox /\ ~ IsCameraFrame(Aft) /\ ~ IsCameraFrame(Imu)
      /\ ~ IsCameraFrame(Livox) /\ ~ IsCameraFrame(depth)
      /\ depth # Aft /\ depth # Imu /\ depth # Livox
  BY FramesAssumption DEF Aft, Imu, Livox, DepthName
<1>5. Usable(lidar, rig) /\ G[depth] = AnchorPose(lidar, front, anchor)
  <2>1. PICK d \in edges : d.child = depth
    BY DEF Children, edges
  <2>2. d.parent = Aft
    BY <1>1, <1>4, <2>1 DEF Star, Kind
  <2>3. PICK g : Stands(d, g) /\ MadeOf(lidar, rig, depth, depth, g)
    BY <1>1, <2>1 DEF Made
  <2>4. g = G[depth]
    BY <1>3, <2>1, <2>2, <2>3, OneBody
  <2> QED BY <2>3, <2>4 DEF MadeOf
<1>6. I \in Bodies /\ A \in Bodies /\ BF \in Bodies /\ K \in Bodies
  <2>1. I \in Rigids
    BY <1>5, LidarFacts, CalibrationAssumption DEF Usable, Anchorable, HasImu, ImuNominal
  <2>2. \E i \in DOMAIN rig.cameras : front = rig.cameras[i]
    BY <1>5 DEF Usable, Front, FrontsOf
  <2>3. rig # None /\ front.rigid \in Rigids
    BY <1>5, <2>2, CalibrationAssumption DEF Usable, Anchorable
  <2>4. \E i \in DOMAIN lidar.extrinsics : anchor = lidar.extrinsics[i]
    BY <1>5 DEF Usable, AnchorOf, AnchorsFor
  <2>5. \A i \in DOMAIN lidar.extrinsics : lidar.extrinsics[i].rigid \in Rigids
    BY <1>5, LidarFacts, CalibrationAssumption DEF Standing, Usable, Anchorable, HasImu
  <2>6. I \in Bodies /\ A \in Bodies /\ front.rigid \in Bodies
    BY <1>5, <2>1, <2>3, <2>4, <2>5 DEF Usable, Anchorable, HasImu, ImuNominal, Bodies
  <2>7. Zero \in Vector
    BY DEF Zero, Vector
  <2>8. BaseFromReference \in Bodies
    BY <2>7, BaseIsRotation DEF BaseFromReference, Rigid, Bodies, Rigids, IsRigid
  <2>9. BF \in Bodies
    BY <2>6, <2>8, ComposeBody
  <2> HIDE DEF BF, A
  <2> QED BY <2>6, <2>9, ComposeBody
<1>7. PICK l \in edges : l.child = Livox
  BY <1>1, <1>5 DEF Usable, Anchorable, Children
<1>8. l.parent = Aft
  BY <1>1, <1>4, <1>7 DEF Star, Kind
<1>9. G[Livox] = I
  <2>1. PICK g : Stands(l, g) /\ MadeOf(lidar, rig, depth, Livox, g)
    BY <1>1, <1>7 DEF Made
  <2> QED BY <1>3, <1>7, <1>8, <2>1, OneBody DEF MadeOf
<1>10. IsFiniteSet(edges) /\ Unit \in Bodies
  BY <1>1, UnitLaws, <1>6 DEF Star
<1>11. /\ DOMAIN poses \subseteq {Aft} \cup Children(edges) /\ Livox \in DOMAIN poses
       /\ \A x \in DOMAIN poses : Stands(poses[x], From(Unit, G[x]))
  BY <1>3, <1>7, <1>8, <1>10, PosesPlaced
<1> HIDE DEF poses, I, A, BF, K
<1> SUFFICES ASSUME f \in DOMAIN poses, NEW p \in Vector
             PROVE  TransformPoint(InverseTransform(poses[f]), TransformPoint(poses[Livox], p))
                      = Plus(Apply(A.r, p), A.t)
  BY <1>1, <1>5, OneAnchor DEF A, poses, edges
<1>12. IsCameraFrame(f) /\ rig # None /\ \A g : MadeOf(lidar, rig, depth, f, g) => g = BF
  <2>1. PICK i \in DOMAIN rig.cameras : front = rig.cameras[i]
    BY <1>5 DEF Usable, Front, FrontsOf
  <2>2. rig # None
    BY <1>5 DEF Usable, Anchorable
  <2>3. IsCameraFrame(f)
    BY <1>2, <2>1, <2>2 DEF IsCameraFrame
  <2>4. \A g : MadeOf(lidar, rig, depth, f, g) => g = BF
    BY <2>1, <2>2 DEF MadeOf, BF
  <2> QED BY <2>2, <2>3, <2>4
<1> HIDE DEF f
<1>13. G[f] \in Bodies /\ G[f] = Compose(G[depth], BF)
  <2>1. PICK e \in edges : e.child = f
    BY <1>4, <1>11, <1>12 DEF Children
  <2>2. e.parent = depth
    BY <1>1, <1>4, <1>12, <2>1 DEF Star, Kind
  <2>3. PICK g : Stands(e, g) /\ MadeOf(lidar, rig, depth, f, g)
    BY <1>1, <2>1 DEF Made
  <2>4. G[f] \in Bodies /\ Stands(e, From(G[depth], G[f]))
    BY <1>3, <2>1, <2>2 DEF Placed
  <2>5. From(G[depth], G[f]) = BF
    BY <1>12, <2>3, <2>4, OneBody
  <2> QED BY <1>3, <2>4, <2>5, FromLaws
<1>14. Compose(G[f], A) = I
  <2> DEFINE k == Inverted(K)
  <2>1. k \in Bodies /\ Compose(k, K) = Unit
    BY <1>6, InverseLaws
  <2>2. G[depth] = Compose(I, k)
    BY <1>5 DEF AnchorPose, I, K, BF, A
  <2> HIDE DEF k
  <2>3. Compose(Compose(G[depth], BF), A) = Compose(G[depth], K)
    BY <1>3, <1>6, ComposeAssociative DEF K
  <2>4. Compose(Compose(I, k), K) = Compose(I, Compose(k, K))
    BY <1>6, <2>1, ComposeAssociative
  <2> QED BY <1>6, <1>13, <2>1, <2>2, <2>3, <2>4, UnitLaws
<1>15. From(G[f], I) = A
  BY <1>6, <1>13, <1>14, FromLaws
<1>16. Stands(poses[f], G[f]) /\ Stands(poses[Livox], I)
  BY <1>6, <1>9, <1>11, <1>13, FromLaws
<1>17. Stands(InverseTransform(poses[f]), Inverted(G[f])) /\ Inverted(G[f]) \in Bodies
  BY <1>13, <1>16, InverseStands, InverseLaws
<1>18. TransformPoint(poses[Livox], p) = Act(I, p) /\ Act(I, p) \in Vector
  BY <1>6, <1>16, PointActs, ActCompose
<1>19. TransformPoint(InverseTransform(poses[f]), Act(I, p)) = Act(Inverted(G[f]), Act(I, p))
  BY <1>17, <1>18, PointActs
<1>20. Act(Inverted(G[f]), Act(I, p)) = Act(Compose(Inverted(G[f]), I), p)
  BY <1>6, <1>17, ActCompose
<1> QED BY <1>15, <1>18, <1>19, <1>20 DEF From, Act

(***************************************************************************)
(* The device frame hangs from the IMU through the LiDAR and the front     *)
(* camera (transform_geometry.cpp, BuildSensorTransforms).  For every      *)
(* calibration with these rotations, a LiDAR point taken along the         *)
(* broadcast tree to the front camera is where the calibration file says   *)
(* it is.                                                                  *)
(***************************************************************************)
THEOREM FrontStands == Spec => []FrontCameraAgrees
<1>1. Init => TreeInv
  BY DEF Init, TreeInv
<1>2. TreeInv => FrontCameraAgrees
  <2> SUFFICES ASSUME TreeInv, Built, DepthName(Device), Anchored
               PROVE  FrontCameraAgrees
    BY DEF FrontCameraAgrees
  <2>1. tree = LoadSensorTransforms(job.calibration, Device) /\ job \in Jobs
    BY DEF TreeInv, Built, Device
  <2>2. {Zero} \cup Range(Axes) \subseteq Vector
    BY DEF Range, Axes, Zero, Vector
  <2> QED BY <2>1, <2>2, FrontAgrees DEF FrontCameraAgrees, Anchored
<1> QED BY <1>1, <1>2, TreeInvStep, PTL DEF Spec

(***************************************************************************)
(* The parts of BuildRobotTransforms: the anchors, the mounting's own      *)
(* edge, the edges that stay and those that are turned over.               *)
(***************************************************************************)
AnchorsIn(edges, m) == {e \in edges : e.parent = Aft /\ e.child = m.frames.child}
Own(m, publish) == IF publish THEN {m.frames} ELSE {}
Kept(edges, m) == {e \in edges : e.parent = m.frames.child}
Turned(edges, m, anchor) ==
  UNION {Reparented(anchor, e) : e \in {x \in edges : x.parent = Aft /\ x.child # m.frames.child}}

(***************************************************************************)
(* BuildRobotTransforms by its parts, where it does not throw.             *)
(***************************************************************************)
LEMMA RobotIs ==
  ASSUME NEW known, NEW m, NEW publish, ~ Throws(known, m, publish)
  PROVE  LET r == BuildRobotTransforms(known, m, publish)
             edges == known.edges
             anchors == AnchorsIn(edges, m)
             anchor == CHOOSE e \in anchors : TRUE
         IN  /\ anchors = {} =>
                  /\ r.imuFromBase = None
                  /\ r.edges = {e \in edges : e.parent = m.frames.child \/ e.parent = Aft}
                                 \cup Own(m, publish)
             /\ anchors # {} =>
                  /\ r.imuFromBase = IF m.posed THEN ComposeTransforms(anchor, InverseTransform(m.frames))
                                                ELSE None
                  /\ r.edges = Kept(edges, m) \cup Turned(edges, m, anchor) \cup Own(m, publish)
<1> DEFINE edges == known.edges
           anchors == AnchorsIn(edges, m)
           anchor == CHOOSE e \in anchors : TRUE
           sensors == {e \in edges : e.parent = m.frames.child \/ (~ (anchors # {}) /\ e.parent = Aft)}
           moved == IF ~ (anchors # {}) THEN {} ELSE Turned(edges, m, anchor)
           r == BuildRobotTransforms(known, m, publish)
<1>1. /\ r.edges = sensors \cup moved \cup Own(m, publish)
      /\ r.imuFromBase = IF anchors # {} /\ m.posed
                           THEN ComposeTransforms(anchor, InverseTransform(m.frames)) ELSE None
  BY Zenon DEF BuildRobotTransforms, AnchorsIn, Turned, Own
<1> HIDE DEF r, anchors
<1>2. ASSUME anchors = {}
      PROVE  /\ moved = {}
             /\ sensors = {e \in edges : e.parent = m.frames.child \/ e.parent = Aft}
  BY <1>2
<1>3. ASSUME anchors # {}
      PROVE  moved = Turned(edges, m, anchor) /\ sensors = Kept(edges, m)
  BY <1>3 DEF Kept
<1> HIDE DEF moved, sensors
<1> QED BY <1>1, <1>2, <1>3 DEF r, anchors

(***************************************************************************)
(* A mounting whose child is the device and whose parent is a frame of its *)
(* own.                                                                    *)
(***************************************************************************)
Mounts(m, depth) ==
  /\ m.frames.child = depth /\ DepthName(depth)
  /\ m.frames.parent # depth /\ ~ Reserved(m.frames.parent)

(***************************************************************************)
(* Finitely many names, one edge each: finitely many edges.                *)
(***************************************************************************)
LEMMA FewEdges ==
  ASSUME NEW edges, NEW T, IsFiniteSet(T), \A e \in edges : e.child \in T,
         \A d, e \in edges : d.child = e.child => d = e
  PROVE  IsFiniteSet(edges) /\ Cardinality(Children(edges)) = Cardinality(edges)
<1> DEFINE childOf == [e \in edges |-> e.child]
<1>1. childOf \in Injection(edges, T)
  BY DEF Injection, IsInjective
<1>2. IsFiniteSet(edges)
  BY <1>1, FS_Injection
<1> QED BY <1>2, OneEdgeEach

(***************************************************************************)
(* Finitely many edges have finitely many children.                        *)
(***************************************************************************)
LEMMA FiniteChildren ==
  ASSUME NEW edges, IsFiniteSet(edges)
  PROVE  IsFiniteSet(Children(edges))
<1> DEFINE childOf == [e \in edges |-> e.child]
<1>1. childOf \in Surjection(edges, Children(edges))
  BY DEF Surjection, Children
<1> QED BY <1>1, FS_Surjection

(***************************************************************************)
(* Without an anchor BuildRobotTransforms keeps all edges and adds the     *)
(* mounting's: a forest with every frame of the tree.                      *)
(***************************************************************************)
LEMMA UnanchoredForest ==
  ASSUME NEW edges, NEW depth, Star(edges, depth), NEW m, Mounts(m, depth), NEW publish,
         AnchorsIn(edges, m) = {}, NEW new,
         new = {e \in edges : e.parent = m.frames.child \/ e.parent = Aft}
                 \cup Own(m, publish)
  PROVE  Forest(new) /\ Children(edges) \subseteq Children(new)
<1> DEFINE base == m.frames.parent
<1>1. \A d, e \in edges : d.child = e.child => d = e
  BY OneEdgeEach DEF Star
<1>2. /\ Aft # Imu /\ Aft # Livox /\ ~ IsCameraFrame(Aft) /\ depth # Aft /\ ~ IsCameraFrame(depth)
      /\ base # Aft /\ base # Imu /\ base # Livox /\ ~ IsCameraFrame(base) /\ base # depth
  BY FramesAssumption DEF Aft, Imu, Livox, DepthName, Mounts, Reserved
<1>3. \A e \in edges : /\ e.child # depth /\ e.child # base /\ e.child # Aft
                       /\ e.parent = depth \/ e.parent = Aft
  BY <1>2 DEF Star, Kind, AnchorsIn, Mounts, DepthName
<1>4. edges \subseteq new
  BY <1>3 DEF Mounts
<1>5. \A e \in new : e \in edges \/ e = m.frames
  BY DEF Own
<1>6. \A d, e \in new : d.child = e.child => d = e
  BY <1>1, <1>3, <1>5 DEF Mounts
<1>7. IsFiniteSet(new) /\ Cardinality(Children(new)) = Cardinality(new)
  <2>1. IsFiniteSet(Children(edges) \cup {depth})
    BY FiniteChildren, FS_AddElement DEF Star
  <2>2. \A e \in new : e.child \in Children(edges) \cup {depth}
    BY <1>5 DEF Children, Mounts
  <2> QED BY <1>6, <2>1, <2>2, FewEdges
<1>8. ASSUME NEW e \in new
      PROVE  e.child \notin AncestorsOf(new, e.parent)
  <2> DEFINE S == IF e.parent = Aft THEN {Aft} ELSE IF e.parent = depth THEN {depth, base} ELSE {base}
  <2>1. e.parent \in S /\ e.child \notin S
    BY <1>2, <1>3, <1>5 DEF Mounts
  <2>2. \A d \in new : d.child \in S => d.parent \in S
    BY <1>2, <1>3, <1>5 DEF Mounts
  <2> HIDE DEF S
  <2>3. AncestorsOf(new, e.parent) \subseteq S
    BY <1>7, <2>1, <2>2, AncestorsWithin
  <2> QED BY <2>1, <2>3
<1> QED BY <1>4, <1>7, <1>8 DEF Forest, Children

(***************************************************************************)
(* The edges below the device once the sensors have moved there: a         *)
(* camera's own, one composed with the inverted anchor, or aft_mapped as   *)
(* an alias below the IMU.                                                 *)
(***************************************************************************)
Moved(edges, depth, anchor, e) ==
  \/ e \in edges /\ e.parent = depth /\ IsCameraFrame(e.child)
  \/ \E x \in edges : /\ x.parent = Aft /\ x.child \in {Imu, Livox}
                      /\ e = ComposeTransforms(InverseTransform(anchor), x)
                      /\ e.parent = depth /\ e.child = x.child
  \/ \E x \in edges : /\ x.parent = Aft /\ x.child = Imu /\ e = InverseTransform(x)
                      /\ e.parent = Imu /\ e.child = Aft

(***************************************************************************)
(* With an anchor every edge but the mounting's is such a one, they are a  *)
(* forest, and every frame but the device, which is the root now, still    *)
(* has an edge.                                                            *)
(***************************************************************************)
LEMMA AnchoredForest ==
  ASSUME NEW edges, NEW depth, Star(edges, depth), NEW m, Mounts(m, depth), NEW publish,
         NEW anchor \in AnchorsIn(edges, m), NEW new,
         new = Kept(edges, m) \cup Turned(edges, m, anchor) \cup Own(m, publish)
  PROVE  /\ Forest(new) /\ IsFiniteSet(new) /\ Children(edges) \ {depth} \subseteq Children(new)
         /\ \A e \in new : e = m.frames \/ Moved(edges, depth, anchor, e)
         /\ \A x \in edges : x.parent = depth => x \in new
         /\ \A x \in edges : x.parent = Aft /\ x.child # depth =>
              \E e \in new : e.parent = depth /\ e.child = x.child
         /\ \A x \in edges : x.child = Imu =>
              \E e \in new : e.parent = Imu /\ e.child = Aft
<1> DEFINE base == m.frames.parent
<1>1. \A d, e \in edges : d.child = e.child => d = e
  BY OneEdgeEach DEF Star
<1>2. /\ Aft # Imu /\ Aft # Livox /\ Imu # Livox /\ ~ IsCameraFrame(Aft) /\ depth # Aft /\ ~ IsCameraFrame(depth)
      /\ base # Aft /\ base # Imu /\ base # Livox /\ ~ IsCameraFrame(base) /\ base # depth
      /\ depth # Imu /\ depth # Livox /\ ~ IsCameraFrame(Imu) /\ ~ IsCameraFrame(Livox)
  BY FramesAssumption DEF Aft, Imu, Livox, DepthName, Mounts, Reserved
<1>3. /\ anchor.parent = Aft /\ anchor.child = depth
      /\ InverseTransform(anchor).parent = depth
      /\ \A x : /\ ComposeTransforms(InverseTransform(anchor), x).parent = depth
                /\ ComposeTransforms(InverseTransform(anchor), x).child = x.child
                /\ InverseTransform(x).parent = x.child /\ InverseTransform(x).child = x.parent
  BY DEF AnchorsIn, Mounts, InverseTransform, ComposeTransforms, Edge
<1>4. /\ \A e \in edges : e.parent = depth => IsCameraFrame(e.child)
      /\ \A e \in edges : e.parent = Aft => e.child \in {Imu, Livox, depth}
      /\ \A e \in edges : e.parent = depth \/ e.parent = Aft
  BY <1>2 DEF Star, Kind
<1>5. ASSUME NEW e \in new
      PROVE  e = m.frames \/ Moved(edges, depth, anchor, e)
  <2>1. CASE e \in Kept(edges, m)
    BY <1>4, <2>1 DEF Moved, Mounts, Kept
  <2>2. CASE e \in Turned(edges, m, anchor)
    <3>1. PICK x \in edges : x.parent = Aft /\ x.child # m.frames.child /\ e \in Reparented(anchor, x)
      BY <2>2 DEF Turned
    <3>2. x.child \in {Imu, Livox}
      BY <1>4, <3>1 DEF Mounts
    <3>3. \/ e = ComposeTransforms(InverseTransform(anchor), x)
          \/ x.child = Imu /\ e = InverseTransform(x)
      BY <3>1 DEF Reparented
    <3> QED BY <1>3, <3>1, <3>2, <3>3 DEF Moved
  <2>3. CASE e \in Own(m, publish)
    BY <2>3 DEF Own
  <2> QED BY <2>1, <2>2, <2>3
<1>6. /\ \A x \in edges : x.parent = depth => x \in new
      /\ \A x \in edges : x.parent = Aft /\ x.child # depth =>
           \E e \in new : e.parent = depth /\ e.child = x.child
      /\ \A x \in edges : x.child = Imu => \E e \in new : e.parent = Imu /\ e.child = Aft
  <2>1. \A x \in edges : x.parent = depth => x \in new
    BY DEF Mounts, Kept
  <2>2. \A x \in edges : x.parent = Aft /\ x.child # depth => Reparented(anchor, x) \subseteq new
    BY DEF Mounts, Turned
  <2>3. \A x \in edges : x.child = Imu => x.parent = Aft
    BY <1>2, <1>4
  <2>4. ASSUME NEW x \in edges, x.parent = Aft, x.child # depth
        PROVE  \E e \in new : e.parent = depth /\ e.child = x.child
    <3>1. ComposeTransforms(InverseTransform(anchor), x) \in new
      BY <2>2, <2>4 DEF Reparented
    <3> QED BY <1>3, <3>1
  <2>5. ASSUME NEW x \in edges, x.child = Imu
        PROVE  \E e \in new : e.parent = Imu /\ e.child = Aft
    <3>1. InverseTransform(x) \in new /\ x.parent = Aft
      BY <1>2, <2>2, <2>3, <2>5 DEF Reparented
    <3> QED BY <1>3, <2>5, <3>1
  <2> QED BY <2>1, <2>4, <2>5
<1>7. ASSUME NEW d \in new, NEW e \in new, d.child = e.child
      PROVE  d = e
  <2>1. /\ d = m.frames \/ Moved(edges, depth, anchor, d)
        /\ e = m.frames \/ Moved(edges, depth, anchor, e)
    BY <1>5
  <2>2. m.frames.child = depth
    BY DEF Mounts
  <2> QED BY <1>1, <1>2, <1>7, <2>1, <2>2 DEF Moved
<1>8. IsFiniteSet(new) /\ Cardinality(Children(new)) = Cardinality(new)
  <2>1. IsFiniteSet((Children(edges) \cup {depth}) \cup {Aft})
    BY FiniteChildren, FS_AddElement DEF Star
  <2>2. \A e \in new : e.child \in (Children(edges) \cup {depth}) \cup {Aft}
    BY <1>5 DEF Children, Mounts, Moved
  <2> QED BY <1>7, <2>1, <2>2, FewEdges
<1>9. ASSUME NEW e \in new
      PROVE  e.child \notin AncestorsOf(new, e.parent)
  <2> DEFINE S == IF e.parent = Imu THEN {Imu, depth, base}
                  ELSE IF e.parent = depth THEN {depth, base} ELSE {base}
  <2>1. e = m.frames \/ Moved(edges, depth, anchor, e)
    BY <1>5
  <2>2. e.parent \in S /\ e.child \notin S
    BY <1>2, <2>1 DEF Mounts, Moved
  <2>3. ASSUME NEW d \in new, d.child \in S
        PROVE  d.parent \in S
    <3>1. d = m.frames \/ Moved(edges, depth, anchor, d)
      BY <1>5
    <3> QED BY <1>2, <2>3, <3>1 DEF Mounts, Moved
  <2> HIDE DEF S
  <2>4. AncestorsOf(new, e.parent) \subseteq S
    BY <1>8, <2>2, <2>3, AncestorsWithin
  <2> QED BY <2>2, <2>4
<1>10. Children(edges) \ {depth} \subseteq Children(new)
  <2> SUFFICES ASSUME NEW x \in edges, x.child # depth
               PROVE  x.child \in Children(new)
    BY DEF Children
  <2>1. x.parent = depth \/ x.parent = Aft
    BY <1>4
  <2> QED BY <1>6, <2>1 DEF Children
<1> QED BY <1>5, <1>6, <1>8, <1>9, <1>10 DEF Forest

(***************************************************************************)
(* Moving the sensors to the device's frame moves no frame: the poses of   *)
(* the tree, and one for the base, place the new edges too, so that every  *)
(* pose below the device is the old one seen from the device.              *)
(***************************************************************************)
LEMMA RobotPlaced ==
  ASSUME NEW edges, NEW depth, Star(edges, depth), NEW m, Mounts(m, depth), NEW publish,
         NEW h, Stands(m.frames, h), \A e \in edges : \E g : Stands(e, g),
         NEW anchor \in AnchorsIn(edges, m), Imu \in Children(edges), NEW new,
         new = Kept(edges, m) \cup Turned(edges, m, anchor) \cup Own(m, publish)
  PROVE  LET before == PosesBelow(edges, Aft)
             after == PosesBelow(new, depth)
         IN  /\ DOMAIN before \subseteq DOMAIN after
             /\ \A f \in DOMAIN before :
                  Placement(after[f])
                    = Placement(ComposeTransforms(InverseTransform(before[depth]), before[f]))
             /\ \E a : Stands(anchor, a) /\ Stands(before[depth], a)
<1> DEFINE base == m.frames.parent
           frames == {Aft, depth} \cup Children(edges)
<1>1. DepthName(depth) /\ m.frames.child = depth /\ base # depth
  BY DEF Mounts
<1>2. PICK G : Placed(G, edges) /\ G[Aft] = Unit /\ G[depth] \in Bodies
  BY <1>1, TreePlaced
<1>3. h \in Bodies /\ Inverted(h) \in Bodies /\ Compose(Inverted(h), h) = Unit /\ Unit \in Bodies
  BY InverseLaws, UnitLaws DEF Stands
<1> DEFINE B == Compose(G[depth], Inverted(h))
           G2 == [f \in frames \cup {base} |-> IF f = base THEN B ELSE G[f]]
<1>4. /\ base \notin frames
      /\ \A f \in frames : G[f] \in Bodies
      /\ \A e \in edges : e.parent \in {Aft, depth} /\ e.child \in Children(edges)
  <2>1. /\ base # Aft /\ base # Imu /\ base # Livox /\ ~ IsCameraFrame(base)
    BY DEF Mounts, Reserved
  <2>2. base \notin frames
    BY <1>1, <2>1 DEF Star, Kind, Children
  <2>3. \A f \in frames : G[f] \in Bodies
    BY <1>2, <1>3 DEF Children, Placed
  <2> QED BY <2>2, <2>3 DEF Star, Kind, Children
<1>5. B \in Bodies /\ From(B, G[depth]) = h
  <2>1. B \in Bodies
    BY <1>2, <1>3, ComposeBody
  <2>2. Compose(B, h) = Compose(G[depth], Compose(Inverted(h), h))
    BY <1>2, <1>3, ComposeAssociative
  <2>3. Compose(B, h) = G[depth]
    BY <1>2, <1>3, <2>2, UnitLaws
  <2> HIDE DEF B
  <2> QED BY <1>3, <2>1, <2>3, FromLaws
<1> HIDE DEF B
<1>6. G2[base] = B /\ \A f \in frames : G2[f] = G[f]
  BY <1>4
<1> HIDE DEF G2, frames
<1>7. Aft \in frames /\ depth \in frames /\ Children(edges) \subseteq frames /\ Imu \in frames
  BY DEF frames
<1>8. \A x \in edges : Stands(x, From(G[x.parent], G[x.child]))
  BY <1>2 DEF Placed
<1>9. anchor \in edges /\ anchor.parent = Aft /\ anchor.child = depth
      /\ Stands(anchor, From(G[Aft], G[depth]))
  BY <1>1, <1>8 DEF AnchorsIn
<1>10. Stands(InverseTransform(anchor), From(G[depth], G[Aft]))
  BY <1>4, <1>7, <1>9, InverseStands, FromLaws
<1>11. /\ IsFiniteSet(new)
       /\ \A e \in new : e = m.frames \/ Moved(edges, depth, anchor, e)
       /\ \A x \in edges : x.parent = depth => x \in new
       /\ \A x \in edges : x.parent = Aft /\ x.child # depth =>
            \E e \in new : e.parent = depth /\ e.child = x.child
       /\ \A x \in edges : x.child = Imu =>
            \E e \in new : e.parent = Imu /\ e.child = Aft
  BY AnchoredForest
<1>12. ASSUME NEW e \in new
       PROVE  /\ G2[e.parent] \in Bodies /\ G2[e.child] \in Bodies
              /\ Stands(e, From(G2[e.parent], G2[e.child]))
  <2>1. CASE e = m.frames
    BY <1>1, <1>2, <1>5, <1>6, <1>7, <2>1
  <2>2. CASE e \in edges
    BY <1>4, <1>6, <1>7, <1>8, <2>2
  <2>3. ASSUME NEW x \in edges, x.parent = Aft,
               e = ComposeTransforms(InverseTransform(anchor), x), e.parent = depth, e.child = x.child
        PROVE  /\ G2[e.parent] \in Bodies /\ G2[e.child] \in Bodies
               /\ Stands(e, From(G2[e.parent], G2[e.child]))
    <3>1. x.child \in frames
      BY <1>4, <1>7
    <3>2. Stands(x, From(G[Aft], G[x.child]))
      BY <1>8, <2>3
    <3>3. Compose(From(G[depth], G[Aft]), From(G[Aft], G[x.child])) = From(G[depth], G[x.child])
      BY <1>4, <1>7, <3>1, FromLaws
    <3>4. Stands(e, From(G[depth], G[x.child]))
      BY <1>10, <2>3, <3>2, <3>3, ComposeStands
    <3> QED BY <1>4, <1>6, <1>7, <2>3, <3>1, <3>4
  <2>4. ASSUME NEW x \in edges, x.parent = Aft, x.child = Imu,
               e = InverseTransform(x), e.parent = Imu, e.child = Aft
        PROVE  /\ G2[e.parent] \in Bodies /\ G2[e.child] \in Bodies
               /\ Stands(e, From(G2[e.parent], G2[e.child]))
    <3>1. Stands(x, From(G[Aft], G[Imu]))
      BY <1>8, <2>4
    <3>2. Stands(e, From(G[Imu], G[Aft]))
      BY <1>4, <1>7, <2>4, <3>1, InverseStands, FromLaws
    <3> QED BY <1>4, <1>6, <1>7, <2>4, <3>2
  <2> QED BY <1>11, <2>1, <2>2, <2>3, <2>4 DEF Moved
<1>13. Placed(G2, new) /\ G2[depth] \in Bodies
  BY <1>2, <1>6, <1>7, <1>12 DEF Placed
<1> DEFINE before == PosesBelow(edges, Aft)
           after == PosesBelow(new, depth)
<1>14. /\ DOMAIN before \subseteq frames /\ depth \in DOMAIN before
       /\ \A f \in DOMAIN before : Stands(before[f], From(G[Aft], G[f]))
  <2>1. IsFiniteSet(edges) /\ G[Aft] \in Bodies
    BY <1>2, <1>3 DEF Star
  <2>2. /\ DOMAIN before \subseteq {Aft} \cup Children(edges)
        /\ \A f \in DOMAIN before : Stands(before[f], From(G[Aft], G[f]))
        /\ \A e \in edges : e.parent = Aft => e.child \in DOMAIN before
    BY <1>2, <2>1, PosesPlaced
  <2> HIDE DEF before
  <2> QED BY <1>7, <1>9, <2>2
<1>15. /\ depth \in DOMAIN after
       /\ \A f \in DOMAIN after : Stands(after[f], From(G2[depth], G2[f]))
       /\ \A e \in new : e.parent = depth => e.child \in DOMAIN after
       /\ \A d, e \in new :
            d # e /\ d.parent = depth /\ e.parent = d.child => e.child \in DOMAIN after
  BY <1>11, <1>13, PosesPlaced
<1> HIDE DEF before, after
<1>16. frames \subseteq DOMAIN after
  <2>1. ASSUME NEW x \in edges
        PROVE  x.child \in DOMAIN after
    <3>1. x.parent = Aft \/ x.parent = depth
      BY <1>4
    <3>2. CASE x.parent = depth
      BY <1>11, <1>15, <3>2
    <3>3. CASE x.parent = Aft
      BY <1>11, <1>15, <3>3
    <3> QED BY <3>1, <3>2, <3>3
  <2>2. Aft \in DOMAIN after
    <3>1. PICK x \in edges : x.child = Imu
      BY DEF Children
    <3>2. Imu # Aft /\ Imu # depth /\ ~ IsCameraFrame(Imu)
      BY <1>1, FramesAssumption DEF DepthName, Imu, Aft
    <3>3. x.parent = Aft
      BY <3>1, <3>2 DEF Star, Kind
    <3>4. PICK d \in new : d.parent = depth /\ d.child = Imu
      BY <1>11, <3>1, <3>2, <3>3
    <3>5. PICK e \in new : e.parent = Imu /\ e.child = Aft
      BY <1>11, <3>1
    <3> QED BY <1>15, <3>2, <3>4, <3>5
  <2> QED BY <1>15, <2>1, <2>2 DEF frames, Children
<1>17. ASSUME NEW f \in DOMAIN before
       PROVE  Placement(after[f])
                = Placement(ComposeTransforms(InverseTransform(before[depth]), before[f]))
  <2>1. Stands(before[f], From(G[Aft], G[f])) /\ Stands(before[depth], From(G[Aft], G[depth])) /\ f \in frames
    BY <1>14
  <2>2. Stands(InverseTransform(before[depth]), From(G[depth], G[Aft]))
    BY <1>4, <1>7, <2>1, InverseStands, FromLaws
  <2>3. Compose(From(G[depth], G[Aft]), From(G[Aft], G[f])) = From(G[depth], G[f])
    BY <1>4, <1>7, <2>1, FromLaws
  <2>4. Stands(ComposeTransforms(InverseTransform(before[depth]), before[f]), From(G[depth], G[f]))
    BY <2>1, <2>2, <2>3, ComposeStands
  <2>5. Stands(after[f], From(G[depth], G[f]))
    BY <1>6, <1>7, <1>15, <1>16, <2>1
  <2> QED BY <2>4, <2>5, SamePlacement
<1>18. Stands(anchor, From(G[Aft], G[depth])) /\ Stands(before[depth], From(G[Aft], G[depth]))
  BY <1>9, <1>14
<1> QED BY <1>14, <1>16, <1>17, <1>18 DEF before, after

(***************************************************************************)
(* The pose of the base, taken through the mounting and the anchor, puts   *)
(* the device where the pose of the IMU puts it.                           *)
(***************************************************************************)
LEMMA RobotPosePlaced ==
  ASSUME NEW anchor, NEW a, Stands(anchor, a), anchor.parent = Aft, NEW d, Stands(d, a),
         NEW mount, NEW h, Stands(mount, h), FrameName(mount.parent), mount.parent # Aft
  PROVE  LET i == ComposeTransforms(anchor, InverseTransform(mount))
         IN  Placement(ComposeTransforms(RobotPoseTransform(WorldFromImu, i), mount))
               = Placement(ComposeTransforms(WorldFromImu, d))
<1> DEFINE i == ComposeTransforms(anchor, InverseTransform(mount))
           hi == Inverted(h)
           t == <<3, -1, 2>>
           q == <<1, 1, 1, 1>>
<1>1. PICK w : Stands(WorldFromImu, w)
  <2>1. t \in Vector
    BY DEF Vector
  <2>2. q \in [1 .. 4 -> -1 .. 1] /\ q[1] = 1 /\ q[2] = 1 /\ q[3] = 1 /\ q[4] = 1
    OBVIOUS
  <2>3. q \in Quarters
    BY <2>2 DEF Quarters, Norm
  <2> HIDE DEF q, t
  <2> QED BY <2>1, <2>3, QuarterStands DEF WorldFromImu, q, t
<1>2. h \in Bodies /\ hi \in Bodies /\ Compose(hi, h) = Unit /\ a \in Bodies /\ w \in Bodies
  BY <1>1, InverseLaws DEF Stands
<1>3. Stands(InverseTransform(mount), hi) /\ InverseTransform(mount).child = mount.parent
  BY InverseStands
<1> HIDE DEF hi
<1>4. Stands(i, Compose(a, hi)) /\ i.parent = Aft /\ i.child = mount.parent
  BY <1>3, ComposeStands
<1> HIDE DEF i
<1>5. \A e, g : Stands(e, g) => e.quaternion # <<0, 0, 0, 0>>
  BY QuarterFacts DEF Stands, Turns
<1>6. ValidTransform(WorldFromImu) /\ WorldFromImu.parent = World /\ WorldFromImu.child = Aft
  <2>1. WorldFromImu.parent = World /\ WorldFromImu.child = Aft
    BY DEF WorldFromImu, Edge
  <2>2. FrameName(World) /\ FrameName(Aft) /\ World # Aft
    BY FramesAssumption DEF World, Aft
  <2> QED BY <1>1, <1>5, <2>1, <2>2 DEF ValidTransform
<1>7. ValidTransform(i)
  BY <1>4, <1>5, FramesAssumption DEF ValidTransform
<1>8. RobotPoseTransform(WorldFromImu, i) = ComposeTransforms(WorldFromImu, i)
  BY <1>4, <1>6, <1>7 DEF RobotPoseTransform
<1>9. Stands(ComposeTransforms(ComposeTransforms(WorldFromImu, i), mount),
             Compose(Compose(w, Compose(a, hi)), h))
  <2>1. Stands(ComposeTransforms(WorldFromImu, i), Compose(w, Compose(a, hi)))
    BY <1>1, <1>4, ComposeStands
  <2> QED BY <2>1, ComposeStands
<1>10. Compose(Compose(w, Compose(a, hi)), h) = Compose(w, a)
  <2>1. Compose(a, hi) \in Bodies
    BY <1>2, ComposeBody
  <2>2. Compose(Compose(w, Compose(a, hi)), h) = Compose(w, Compose(Compose(a, hi), h))
    BY <1>2, <2>1, ComposeAssociative
  <2>3. Compose(Compose(a, hi), h) = Compose(a, Compose(hi, h))
    BY <1>2, ComposeAssociative
  <2>4. Compose(a, Unit) = a
    BY <1>2, UnitLaws
  <2> QED BY <1>2, <2>2, <2>3, <2>4
<1>11. Stands(ComposeTransforms(WorldFromImu, d), Compose(w, a))
  BY <1>1, ComposeStands
<1> QED BY <1>8, <1>9, <1>10, <1>11, SamePlacement DEF i

(***************************************************************************)
(* What MakeRobotMounting returns when it does not fail.                   *)
(***************************************************************************)
Mounting(m, parent, child, xyz) ==
  /\ m = [frames |-> m.frames, posed |-> TRUE, plane |-> None]
  /\ m.frames = Edge(parent, child, xyz, m.frames.quaternion)
  /\ m.frames.quaternion \in Quarters
  /\ ValidMounting(m)

(***************************************************************************)
(* It does, for all quarter turns.                                         *)
(***************************************************************************)
LEMMA CheckedMounts ==
  ASSUME NEW parent, NEW child, NEW xyz \in Vector, NEW rpy \in [1 .. 3 -> 0 .. 3],
         MakeRobotMounting(parent, child, xyz, rpy) # Failed
  PROVE  Mounting(MakeRobotMounting(parent, child, xyz, rpy), parent, child, xyz)
<1> DEFINE q == RpyQuaternion(rpy[1], rpy[2], rpy[3])
           f == Edge(parent, child, xyz, q)
           made == [frames |-> f, posed |-> TRUE, plane |-> None]
           m == MakeRobotMounting(parent, child, xyz, rpy)
<1>1. m = made /\ ValidMounting(made)
  BY DEF MakeRobotMounting, Checked
<1>2. rpy[1] \in 0 .. 3 /\ rpy[2] \in 0 .. 3 /\ rpy[3] \in 0 .. 3
  OBVIOUS
<1>3. q \in Quarters
  BY <1>2, RpyQuarter
<1> HIDE DEF m, q
<1>4. f = Edge(parent, child, xyz, f.quaternion) /\ f.quaternion = q
  BY DEF Edge
<1> HIDE DEF f
<1> QED BY <1>1, <1>3, <1>4 DEF Mounting, m

(***************************************************************************)
(* The zero vector, also as angles.                                        *)
(***************************************************************************)
LEMMA ZeroAngles == Zero \in Vector /\ Zero \in [1 .. 3 -> 0 .. 3]
BY DEF Zero, Vector

(***************************************************************************)
(* Whatever the source of a mounting, its child is the device, it passed   *)
(* the check and it stands for a motion; it has a pose of its own when     *)
(* that pose is to be published.                                           *)
(***************************************************************************)
LEMMA SetupMounts ==
  ASSUME job \in Jobs, Setup # Failed, Setup.mounting # None
  PROVE  LET m == Setup.mounting
         IN  /\ Setup.device = m.frames.child
             /\ ValidMounting(m)
             /\ \E h : Stands(m.frames, h)
             /\ Setup.publish => m.posed
<1> DEFINE Good(m, device, publish) ==
             /\ device = m.frames.child /\ ValidMounting(m)
             /\ \E h : Stands(m.frames, h)
             /\ publish => m.posed
<1>1. CASE job.mode = "robot" /\ job.projection # None
  <2> DEFINE p == job.projection
             m == MakeRobotMounting(p.parent, p.child, p.xyz, Zero)
             n == [m EXCEPT !.frames.quaternion = p.quaternion, !.plane = p.plane]
             board == [device |-> p.child, publish |-> job.publish, mounting |-> n]
  <2>1. Setup = ConfigureBoardTf(p, job.publish, job.body)
    BY <1>1 DEF Setup
  <2>2. m # Failed /\ Setup = board
    BY <2>1, Zenon DEF ConfigureBoardTf
  <2>3. p.xyz \in Vector /\ p.quaternion \in Quarters
    BY <1>1, MountingAssumption
  <2>4. Mounting(m, p.parent, p.child, p.xyz)
    BY <2>2, <2>3, ZeroAngles, CheckedMounts
  <2> HIDE DEF m
  <2>5. n.frames = Edge(p.parent, p.child, p.xyz, p.quaternion) /\ n.posed = TRUE
    BY <2>4 DEF Mounting, Edge
  <2> HIDE DEF n
  <2>6. p.quaternion # <<0, 0, 0, 0>>
    BY <2>3, QuarterFacts
  <2>7. ValidMounting(n)
    BY <2>4, <2>5, <2>6 DEF Mounting, ValidMounting, ValidTransform, Edge
  <2>8. \E h : Stands(n.frames, h)
    BY <2>3, <2>5, QuarterStands
  <2>9. n.frames.child = p.child
    BY <2>5 DEF Edge
  <2>10. Setup.mounting = n /\ Setup.device = p.child
    BY <2>2
  <2> QED BY <2>5, <2>7, <2>8, <2>9, <2>10
<1>2. CASE ~ (job.mode = "robot" /\ job.projection # None)
  <2> DEFINE f == job.file   publish == job.publish
             l == LoadRobotMounting(f, publish)
             xyz == IF publish THEN f.pose.xyz ELSE Zero
             rpy == IF publish THEN f.pose.rpy ELSE Zero
             m == MakeRobotMounting(f.parent, f.child, xyz, rpy)
             n == [m EXCEPT !.posed = publish, !.plane = f.plane]
  <2>1. Setup = ConfigureTf(job.mode, f, publish, job.body)
    BY <1>2 DEF Setup
  <2>2. l # Failed /\ Setup = [device |-> l.frames.child, mounting |-> l, publish |-> publish]
    <3>1. job.mode # "device"
      BY <2>1 DEF ConfigureTf
    <3> QED BY <2>1, <3>1, Zenon DEF ConfigureTf
  <2>3. f # None /\ m # Failed /\ l = n /\ ((f.pose # None) = publish)
    BY <2>2, Zenon DEF LoadRobotMounting
  <2>4. publish \in BOOLEAN
    BY MountingAssumption
  <2>5. xyz \in Vector /\ rpy \in [1 .. 3 -> 0 .. 3]
    BY <2>3, <2>4, ZeroAngles, MountingAssumption
  <2> HIDE DEF xyz, rpy
  <2>6. Mounting(m, f.parent, f.child, xyz)
    BY <2>3, <2>5, CheckedMounts
  <2> HIDE DEF m, l
  <2>7. n.frames = m.frames /\ n.posed = publish
    BY <2>6 DEF Mounting
  <2> HIDE DEF n
  <2>8. ValidMounting(n)
    BY <2>6, <2>7 DEF Mounting, ValidMounting
  <2>9. \E h : Stands(n.frames, h)
    BY <2>5, <2>6, <2>7, QuarterStands DEF Mounting
  <2>10. Setup.mounting = n /\ Setup.device = n.frames.child /\ Setup.publish = publish
    BY <2>2, <2>3
  <2> QED BY <2>4, <2>7, <2>8, <2>9, <2>10
<1> QED BY <1>1, <1>2

(***************************************************************************)
(* A checked mounting names the device, and a base that no sensor is named *)
(* after.                                                                  *)
(***************************************************************************)
LEMMA ValidMounts ==
  ASSUME NEW m, ValidMounting(m)
  PROVE  /\ Mounts(m, m.frames.child)
         /\ FrameName(m.frames.parent) /\ m.frames.parent # Aft
BY DEF ValidMounting, ValidTransform, Mounts, DepthName, Reserved

(***************************************************************************)
(* The device tree and the setup, and what BuildRobotTransforms made of    *)
(* them, from the step on at which each is known.                          *)
(***************************************************************************)
RobotInv ==
  /\ TreeInv
  /\ at.step \in {"configure", "fetch"} => robot = None
  /\ at.step \in {"fetch", "mount"} => tf = Setup /\ Setup # Failed
  /\ at.step = "mount" =>
       tf.mounting # None /\ tree = LoadSensorTransforms(job.calibration, tf.device)
  /\ robot # None =>
       /\ tf = Setup /\ Setup # Failed /\ tf.mounting # None
       /\ tree = LoadSensorTransforms(job.calibration, tf.device)
       /\ robot = BuildRobotTransforms(tree, tf.mounting, IsExport /\ tf.publish)

(***************************************************************************)
(* It is inductive: no step after Mount touches tree, setup or result.     *)
(***************************************************************************)
LEMMA RobotInvStep == RobotInv /\ [Next]_vars => RobotInv'
<1> SUFFICES ASSUME RobotInv, [Next]_vars
             PROVE  RobotInv'
  OBVIOUS
<1>1. TreeInv'
  BY TreeInvStep DEF RobotInv
<1>2. CASE UNCHANGED vars
  BY <1>1, <1>2 DEF vars, RobotInv, Setup, IsExport
<1>3. ASSUME UNCHANGED <<job, tf, tree, robot>>, at.step' \notin {"configure", "fetch", "mount"}
      PROVE  RobotInv'
  BY <1>1, <1>3 DEF RobotInv, Setup, IsExport
<1>4. CASE Configure
  BY <1>1, <1>4 DEF RobotInv, Configure, Setup, IsExport, GoTo, Ended
<1>5. CASE FetchFails
  BY <1>3, <1>5 DEF FetchFails, Ended
<1>6. CASE Build
  <2>1. tree' = LoadSensorTransforms(job.calibration, tf.device)
    BY <1>6 DEF Build
  <2>2. UNCHANGED <<job, tf, robot>> /\ robot = None /\ tf = Setup /\ Setup # Failed
    BY <1>6 DEF Build, RobotInv
  <2>3. at'.step = "mount" => tf.mounting # None
    BY <1>6 DEF Build, GoTo
  <2>4. at'.step \notin {"configure", "fetch"}
    BY <1>6 DEF Build, GoTo
  <2>5. Setup' = Setup
    BY <2>2 DEF Setup
  <2> QED BY <1>1, <2>1, <2>2, <2>3, <2>4, <2>5 DEF RobotInv
<1>7. CASE Mount
  <2>1. /\ UNCHANGED <<job, tf, tree>> /\ tf = Setup /\ Setup # Failed /\ tf.mounting # None
        /\ tree = LoadSensorTransforms(job.calibration, tf.device)
        /\ robot' = BuildRobotTransforms(tree, tf.mounting, IsExport /\ tf.publish)
    BY <1>7 DEF Mount, RobotInv
  <2>2. at.step' \notin {"configure", "fetch", "mount"}
    BY <1>7 DEF Mount, GoTo, Ended
  <2> QED BY <1>1, <2>1, <2>2 DEF RobotInv, Setup, IsExport
<1>8. CASE Broadcast
  BY <1>3, <1>8 DEF Broadcast, Ended
<1>9. CASE Open
  BY <1>3, <1>9 DEF Open, GoTo, Ended
<1>10. CASE Write
  BY <1>3, <1>10 DEF Write, GoTo
<1>11. CASE OutputFails
  BY <1>3, <1>11 DEF OutputFails, Ended
<1>12. CASE Interrupted
  BY <1>2, <1>12 DEF Interrupted
<1>13. CASE Close
  BY <1>3, <1>13 DEF Close, Ended
<1>14. CASE Killed
  BY <1>3, <1>14 DEF Killed, Ended
<1> QED BY <1>2, <1>4, <1>5, <1>6, <1>7, <1>8, <1>9, <1>10, <1>11, <1>12, <1>13, <1>14 DEF Next

(***************************************************************************)
(* On a tree built for the mounting's own child nothing throws: the edges  *)
(* are valid, and no sensor has the base's name.                           *)
(***************************************************************************)
LEMMA NeverThrows ==
  ASSUME NEW known, NEW m, ValidMounting(m), Star(known.edges, m.frames.child),
         \A e \in known.edges : ValidTransform(e), NEW publish, publish => m.posed
  PROVE  ~ Throws(known, m, publish)
<1>1. ASSUME NEW e \in known.edges
      PROVE  e.child # m.frames.parent
  <2>1. e.child \in {Imu, Livox, m.frames.child} \/ IsCameraFrame(e.child)
    BY DEF Star, Kind
  <2> QED BY <2>1 DEF ValidMounting, ValidTransform, Reserved
<1> QED BY <1>1 DEF Throws

(***************************************************************************)
(* RobotPreservesGeometry of any tree, mounting and result.                *)
(***************************************************************************)
Preserves(known, m, publish, made, depth) ==
  LET before == PosesBelow(known.edges, Aft)
      after == PosesBelow(made.edges, depth)
  IN  /\ ~ Throws(known, m, publish) /\ Forest(made.edges)
      /\ Children(known.edges) \ {depth} \subseteq Children(made.edges)
      /\ depth \in Children(known.edges) =>
           /\ DOMAIN before \subseteq DOMAIN after
           /\ \A f \in DOMAIN before :
                Placement(after[f])
                  = Placement(ComposeTransforms(InverseTransform(before[depth]), before[f]))
           /\ made.imuFromBase # None =>
                Placement(ComposeTransforms(RobotPoseTransform(WorldFromImu, made.imuFromBase),
                                            m.frames))
                  = Placement(ComposeTransforms(WorldFromImu, before[depth]))

(***************************************************************************)
(* BuildRobotTransforms preserves the geometry, for every calibration and  *)
(* mounting.                                                               *)
(***************************************************************************)
LEMMA RobotStands ==
  ASSUME NEW j \in Jobs, NEW depth, NEW m, depth = m.frames.child, ValidMounting(m),
         \E h : Stands(m.frames, h), NEW publish, publish => m.posed
  PROVE  LET known == LoadSensorTransforms(j.calibration, depth)
         IN  Preserves(known, m, publish, BuildRobotTransforms(known, m, publish), depth)
<1> DEFINE known == LoadSensorTransforms(j.calibration, depth)
           edges == known.edges
           made == BuildRobotTransforms(known, m, publish)
           lidar == LidarOf(j.calibration)
           anchors == AnchorsIn(edges, m)
           anchor == CHOOSE e \in anchors : TRUE
           before == PosesBelow(edges, Aft)
           after == PosesBelow(made.edges, depth)
<1>1. Mounts(m, depth) /\ FrameName(m.frames.parent) /\ m.frames.parent # Aft /\ DepthName(depth)
  BY ValidMounts DEF Mounts
<1>2. /\ Star(edges, depth)
      /\ \A e \in edges : Made(e, lidar, j.calibration.rig, depth)
      /\ HasImu(lidar) => {Imu, Livox} \subseteq Children(edges)
  BY TreeFacts, LoadMade
<1> HIDE DEF known, lidar
<1>3. ~ Throws(known, m, publish)
  BY <1>2, NeverThrows DEF Made
<1>4. /\ anchors = {} => made.edges = {e \in edges : e.parent = m.frames.child \/ e.parent = Aft}
                                         \cup Own(m, publish)
      /\ anchors # {} =>
           /\ made.imuFromBase = IF m.posed THEN ComposeTransforms(anchor, InverseTransform(m.frames))
                                            ELSE None
           /\ made.edges = Kept(edges, m) \cup Turned(edges, m, anchor) \cup Own(m, publish)
  BY <1>3, RobotIs
<1> HIDE DEF edges, made
<1>5. depth \in Children(edges) <=> anchors # {}
  <2>1. depth # Imu /\ depth # Livox /\ ~ IsCameraFrame(depth)
    BY <1>1 DEF DepthName
  <2>2. \A e \in edges : e.child = depth => e.parent = Aft
    BY <1>2, <2>1 DEF Star, Kind
  <2> QED BY <2>2 DEF AnchorsIn, Children
<1>6. ASSUME depth \notin Children(edges)
      PROVE  Forest(made.edges) /\ Children(edges) \ {depth} \subseteq Children(made.edges)
  <2>1. AnchorsIn(edges, m) = {}
    BY <1>5, <1>6
  <2> QED BY <1>1, <1>2, <1>4, <2>1, UnanchoredForest
<1>7. ASSUME depth \in Children(edges)
      PROVE  /\ Forest(made.edges) /\ Children(edges) \ {depth} \subseteq Children(made.edges)
             /\ DOMAIN before \subseteq DOMAIN after
             /\ \A f \in DOMAIN before :
                  Placement(after[f])
                    = Placement(ComposeTransforms(InverseTransform(before[depth]), before[f]))
             /\ made.imuFromBase # None =>
                  Placement(ComposeTransforms(RobotPoseTransform(WorldFromImu, made.imuFromBase), m.frames))
                    = Placement(ComposeTransforms(WorldFromImu, before[depth]))
  <2>1. anchor \in AnchorsIn(edges, m)
    BY <1>5, <1>7
  <2>2. Imu \in Children(edges)
    <3>1. PICK d \in edges : d.child = depth
      BY <1>7 DEF Children
    <3>2. Usable(lidar, j.calibration.rig)
      BY <1>1, <1>2, <3>1 DEF Made, MadeOf
    <3> QED BY <1>2, <3>2 DEF Usable, Anchorable
  <2>3. /\ made.edges = Kept(edges, m) \cup Turned(edges, m, anchor) \cup Own(m, publish)
        /\ made.imuFromBase # None =>
             made.imuFromBase = ComposeTransforms(anchor, InverseTransform(m.frames))
    BY <1>4, <1>5, <1>7
  <2> HIDE DEF anchor
  <2>4. Forest(made.edges) /\ Children(edges) \ {depth} \subseteq Children(made.edges)
    BY <1>1, <1>2, <2>1, <2>3, AnchoredForest
  <2>9. \A e \in edges : \E g : Stands(e, g)
    BY <1>2 DEF Made
  <2>10. PICK h : Stands(m.frames, h)
    OBVIOUS
  <2>5. /\ DOMAIN before \subseteq DOMAIN after
        /\ \A f \in DOMAIN before :
             Placement(after[f])
               = Placement(ComposeTransforms(InverseTransform(before[depth]), before[f]))
        /\ \E a : Stands(anchor, a) /\ Stands(before[depth], a)
    BY <1>1, <1>2, <2>1, <2>2, <2>3, <2>9, <2>10, RobotPlaced
  <2>6. PICK a : Stands(anchor, a) /\ Stands(before[depth], a)
    BY <2>5
  <2> HIDE DEF before, after
  <2>7. anchor.parent = Aft
    BY <2>1 DEF AnchorsIn
  <2>8. ASSUME made.imuFromBase # None
        PROVE  Placement(ComposeTransforms(RobotPoseTransform(WorldFromImu, made.imuFromBase), m.frames))
                 = Placement(ComposeTransforms(WorldFromImu, before[depth]))
    BY <1>1, <2>3, <2>6, <2>7, <2>8, RobotPosePlaced
  <2> QED BY <2>4, <2>5, <2>8
<1> HIDE DEF before, after
<1> QED BY <1>3, <1>6, <1>7 DEF Preserves, before, after, made, edges, known

(***************************************************************************)
(* tf_mode=robot moves the sensors to another root and changes nothing     *)
(* else (robot_tf.cpp, BuildRobotTransforms).  For every calibration and   *)
(* mounting with these rotations it does not throw, returns a forest that  *)
(* has every frame but the device, keeps the pose of each frame relative   *)
(* to the device, and derives the pose of the base that puts the device    *)
(* where the IMU's pose puts it.                                           *)
(***************************************************************************)
THEOREM RobotKeeps == Spec => []RobotPreservesGeometry
<1>1. Init => RobotInv
  BY DEF Init, RobotInv, TreeInv
<1>2. RobotInv => RobotPreservesGeometry
  <2> SUFFICES ASSUME RobotInv, robot # None
               PROVE  RobotPreservesGeometry
    BY DEF RobotPreservesGeometry
  <2>1. /\ job \in Jobs /\ tf = Setup /\ Setup # Failed /\ tf.mounting # None
        /\ tree = LoadSensorTransforms(job.calibration, tf.device)
        /\ robot = BuildRobotTransforms(tree, tf.mounting, IsExport /\ tf.publish)
    BY DEF RobotInv, TreeInv
  <2>2. /\ tf.device = tf.mounting.frames.child /\ ValidMounting(tf.mounting)
        /\ (IsExport /\ tf.publish) => tf.mounting.posed
        /\ \E h : Stands(tf.mounting.frames, h)
    BY <2>1, SetupMounts
  <2>3. Preserves(tree, tf.mounting, IsExport /\ tf.publish, robot, tf.device)
    BY <2>1, <2>2, RobotStands
  <2> QED BY <2>3 DEF Preserves, RobotPreservesGeometry, Anchored, Device
<1> QED BY <1>1, <1>2, RobotInvStep, PTL DEF Spec
=============================================================================
