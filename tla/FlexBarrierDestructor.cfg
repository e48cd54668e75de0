CONSTANTS
    Threads = {t1, t2, t3}
    Results <- DefaultCompletion
    MaxLate = 3
SPECIFICATION Spec
INVARIANT DestructorAssertion
