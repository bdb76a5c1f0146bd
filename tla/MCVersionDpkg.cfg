\* deb-version(7) against the comparator.
SPECIFICATION VersionSpec
CONSTANTS
    VersionsOf <- Universe
INVARIANT DebianFollowsDpkg
CHECK_DEADLOCK FALSE
