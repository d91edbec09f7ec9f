---- MODULE MCLiveSession ----
(* Instances of LiveSession: two planned sessions and one or two ad-hoc    *)
(* ones over two courses, two teachers and one organisation.               *)
EXTENDS LiveSession, TLC

CONSTANTS s1, s2, a1, a2, c1, c2, t1, t2, org

MCCourseOf == [s \in Sessions |-> IF s \in {s1, a2} THEN c1 ELSE c2]
MCTeacherOf == [s \in Sessions |-> IF s \in {s1, a1} THEN t1 ELSE t2]
MCTenantOf == [c \in Courses |-> org]
MCMinuteLimit == [t \in Tenants |-> 3]
MCMinutes == [s \in Sessions |-> 2]
MCStarts == [s \in Sessions |-> 0]
MCSymmetry == Permutations(Requests)
====
