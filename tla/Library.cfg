SPECIFICATION Spec
CONSTANTS
    NoGallery = NoGallery
    Gallery = {g1, g2}
    Folder = {f1, f2}
    Request = {r1, r2}
SYMMETRY Alike
INVARIANTS TypeOK InSight OneDefault PermissionsFollow
