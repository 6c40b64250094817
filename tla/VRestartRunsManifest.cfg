SPECIFICATION Spec
CONSTANTS
    Manifests = {m1, m2, bad}
    Rejected = {bad}
    Edited = Edited
    None = None
PROPERTY RestartRunsManifest
