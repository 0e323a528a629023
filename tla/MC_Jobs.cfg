CONSTANTS
    What = {"reflink_basic", "reflink_mmap", "reflink_directio", "reflink_xattr", "reflink_stress",
            "reflink_destroy", "reflink_comp", "inline_one", "inline_two", "index_grow", "index_one",
            "index_grow_two", "index_rename_two", "index_unlink_two",
            "data_ioctl", "data_enotty", "ea_all", "ea_keep", "ea_add", "ea_cut",
            "quota_three", "quota_two", "quota_again"}
SPECIFICATION Spec
INVARIANTS NobodyLeftBehind NoFalseAlarm DamageIsFound TableKept
