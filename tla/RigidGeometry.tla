---------------------------- MODULE RigidGeometry ---------------------------
(***************************************************************************)
(* The rigid transforms of transform_geometry.cpp (rotation matrices, from *)
(* the calibration) and robot_tf.cpp (unit quaternions, for ROS), computed *)
(* exactly on the 24 rotations that carry the axes onto one another, where *)
(* every number is an integer.  The first file converts a matrix into a    *)
(* quaternion, the second composes quaternions: that the two agree is what *)
(* the sensor tree rests on.                                               *)
(*                                                                         *)
(* A matrix is a row-major 9-tuple.  A quaternion <<x, y, z, w>> stands    *)
(* for that 4-vector divided by its length: on these rotations the entries *)
(* that are not zero are equal in size, so -1, 0 and 1 represent them all. *)
(***************************************************************************)
EXTENDS Integers, Sequences

Plus(v, w) == [i \in 1 .. 3 |-> v[i] + w[i]]
Minus(v) == [i \in 1 .. 3 |-> -v[i]]
Zero == <<0, 0, 0>>
Identity == <<1, 0, 0, 0, 1, 0, 0, 0, 1>>

Apply(r, v) == [i \in 1 .. 3 |-> r[3*i - 2] * v[1] + r[3*i - 1] * v[2] + r[3*i] * v[3]]

Product(a, b) ==
  [k \in 1 .. 9 |->
     LET i == 3 * ((k - 1) \div 3)
         j == (k - 1) % 3
     IN  a[i + 1] * b[j + 1] + a[i + 2] * b[j + 4] + a[i + 3] * b[j + 7]]

Transpose(r) == [k \in 1 .. 9 |-> r[3 * ((k - 1) % 3) + (k - 1) \div 3 + 1]]

Det(r) == r[1] * (r[5] * r[9] - r[6] * r[8])
            - r[2] * (r[4] * r[9] - r[6] * r[7])
            + r[3] * (r[4] * r[8] - r[5] * r[7])

Matrix == [1 .. 9 -> Int]
Vector == [1 .. 3 -> Int]

IsRotation(r) == Product(Transpose(r), r) = Identity /\ Det(r) = 1

Cross(q, v) == <<q[2]*v[3] - q[3]*v[2], q[3]*v[1] - q[1]*v[3], q[1]*v[2] - q[2]*v[1]>>

Axes == <<<<1, 0, 0>>, <<0, 1, 0>>, <<0, 0, 1>>>>
Directions == {Axes[i] : i \in 1 .. 3} \cup {Minus(Axes[i]) : i \in 1 .. 3}
Rotations == {r \in {u \o v \o Cross(u, v) : u \in Directions, v \in Directions} : IsRotation(r)}

(***************************************************************************)
(* struct Rigid: parent_from_child.                                        *)
(***************************************************************************)
Rigid(r, t) == [r |-> r, t |-> t]
Rigids == [r : Matrix, t : Vector]

\* Mutated form of Compose: the second translation is not rotated.
ComposeUnrotated(a, b) == Rigid(Product(a.r, b.r), Plus(a.t, b.t))

Compose(a, b) == Rigid(Product(a.r, b.r), Plus(Apply(a.r, b.t), a.t))

Inverted(a) == LET r == Transpose(a.r) IN Rigid(r, Minus(Apply(r, a.t)))

IsRigid(a) == IsRotation(a.r)

(***************************************************************************)
(* Quaternion: from the largest of the four components; the others are     *)
(* numerators over the same positive denominator.                          *)
(***************************************************************************)
Sign(x) == IF x > 0 THEN 1 ELSE IF x < 0 THEN -1 ELSE 0
Signs(q) == [i \in 1 .. 4 |-> Sign(q[i])]

FirstLargest(s) ==
  CHOOSE k \in DOMAIN s : /\ \A j \in DOMAIN s : s[j] <= s[k]
                          /\ \A j \in 1 .. k - 1 : s[j] < s[k]

\* Mutated form of Quaternion: always by the scalar part, zero for half turns.
QuaternionByScalar(m) ==
  Signs(<<m[8] - m[6], m[3] - m[7], m[4] - m[2], 1 + m[1] + m[5] + m[9]>>)

Quaternion(m) ==
  LET squared == <<1 + m[1] - m[5] - m[9], 1 - m[1] + m[5] - m[9],
                   1 - m[1] - m[5] + m[9], 1 + m[1] + m[5] + m[9]>>
      k == FirstLargest(squared)
      xw == m[8] - m[6]   yw == m[3] - m[7]   zw == m[4] - m[2]
      xy == m[2] + m[4]   xz == m[3] + m[7]   yz == m[6] + m[8]
  IN  Signs(<< <<squared[1], xy, xz, xw>>, <<xy, squared[2], yz, yw>>,
               <<xz, yz, squared[3], zw>>, <<xw, yw, zw, squared[4]>> >>[k])

Multiply(a, b) ==
  Signs(<<a[4]*b[1] + a[1]*b[4] + a[2]*b[3] - a[3]*b[2],
          a[4]*b[2] - a[1]*b[3] + a[2]*b[4] + a[3]*b[1],
          a[4]*b[3] + a[1]*b[2] - a[2]*b[1] + a[3]*b[4],
          a[4]*b[4] - a[1]*b[1] - a[2]*b[2] - a[3]*b[3]>>)

Norm(q) == q[1]*q[1] + q[2]*q[2] + q[3]*q[3] + q[4]*q[4]

\* The quaternions of these rotations: 1, 2 or 4 components that are not zero.
Quarters == {q \in [1 .. 4 -> -1 .. 1] : Norm(q) \in {1, 2, 4}}

Rotate(q, v) ==
  LET n2 == Norm(q)
      cross == Cross(q, v)
      second == Cross(q, cross)
  IN  [i \in 1 .. 3 |-> (n2 * v[i] + 2 * (q[4] * cross[i] + second[i])) \div n2]

(***************************************************************************)
(* TransformRecord and its algebra in robot_tf.cpp.                        *)
(***************************************************************************)
Edge(p, c, t, q) == [parent |-> p, child |-> c, translation |-> t, quaternion |-> q]

TransformPoint(e, v) == Plus(Rotate(e.quaternion, v), e.translation)

InverseTransform(e) ==
  LET q == <<-e.quaternion[1], -e.quaternion[2], -e.quaternion[3], e.quaternion[4]>>
  IN  Edge(e.child, e.parent, Minus(Rotate(q, e.translation)), q)

ComposeTransforms(a, b) ==
  Edge(a.parent, b.child, TransformPoint(a, b.translation),
       Multiply(a.quaternion, b.quaternion))

(***************************************************************************)
(* MakeRobotMounting: roll, pitch and yaw in quarter turns.  The cosine    *)
(* and sine of half of n quarter turns, up to the common length.           *)
(***************************************************************************)
HalfTurn == <<<<1, 0>>, <<1, 1>>, <<0, 1>>, <<-1, 1>>>>

RpyQuaternion(roll, pitch, yaw) ==
  LET r == HalfTurn[roll + 1]   p == HalfTurn[pitch + 1]   y == HalfTurn[yaw + 1]
  IN  Signs(<<r[2]*p[1]*y[1] - r[1]*p[2]*y[2], r[1]*p[2]*y[1] + r[2]*p[1]*y[2],
              r[1]*p[1]*y[2] - r[2]*p[2]*y[1], r[1]*p[1]*y[1] + r[2]*p[2]*y[2]>>)

(***************************************************************************)
(* What the axes become: two rotations are the same when this agrees,      *)
(* whatever the sign of the quaternion.                                    *)
(***************************************************************************)
Placement(e) == <<e.translation, [i \in 1 .. 3 |-> TransformPoint(e, Axes[i])]>>
=============================================================================
