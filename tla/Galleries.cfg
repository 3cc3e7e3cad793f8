SPECIFICATION Spec
CONSTANTS
    Gallery = {g1, g2}
    Request = {r1, r2}
SYMMETRY Alike
INVARIANTS TypeOK OneFirst OneFeatured FirstIsOpen ListShowsFirst
